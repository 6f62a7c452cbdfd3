--------------------------- MODULE BackendsConfig ---------------------------
(***************************************************************************)
(* From a configuration file to the backends of the S3 proxy               *)
(* (aws/service/s3/backendconfig.go).  A file f that could be parsed has   *)
(*    default    the region of the default backend                         *)
(*    backends   a sequence of entries                                     *)
(* and an entry has a region, the capabilities it names, whether its       *)
(* endpoint has a scheme, and credentials: what it says under "file" and   *)
(* under "inline", each of them                                            *)
(*    given      whether there is something                                *)
(*    valid      whether that can be read and is of the right form         *)
(*    key, secret, token   its texts, "" if missing or (inline) no string  *)
(***************************************************************************)
EXTENDS Integers, Sequences

CONSTANT S3Capability  \* the names in S3CapabilityLookup

CredentialSource == [given : BOOLEAN, valid : BOOLEAN, key : STRING, secret : STRING, token : STRING]
Entry == [region : STRING, endpointOk : BOOLEAN, file : CredentialSource,
          inline : CredentialSource, capabilities : SUBSET STRING]
ConfigFile == [default : STRING, backends : Seq(Entry)]

----------------------------------------------------------------------------
(* getCredentials: a file is preferred, even to valid inline credentials.  *)
Source(entry) == IF entry.file.given THEN entry.file ELSE entry.inline

CredentialsError(entry) ==
    LET s == Source(entry) IN ~ s.given \/ ~ s.valid \/ s.key = "" \/ s.secret = ""

(* Only those from a file can expire.                                      *)
GetCredentials(entry) ==
    [AccessKeyID |-> Source(entry).key, SecretAccessKey |-> Source(entry).secret,
     SessionToken |-> Source(entry).token,
     CanExpire |-> entry.file.given /\ entry.file.token # ""]

(* fromBackendConfigFileEntry                                              *)
EntryError(entry) ==
    \/ ~ entry.endpointOk
    \/ CredentialsError(entry)
    \/ ~ entry.capabilities \subseteq S3Capability

FromEntry(entry) == [credentials |-> GetCredentials(entry), capabilities |-> entry.capabilities]

----------------------------------------------------------------------------
(* getBackendsConfigFromBytes: no entry may have an error, not even one    *)
(* that a later entry for the same region replaces.                        *)
RegionsOf(f) == {f.backends[i].region : i \in DOMAIN f.backends}

ConfigError(f) ==
    \/ \E i \in DOMAIN f.backends : EntryError(f.backends[i])
    \/ f.default \notin RegionsOf(f)

LastFor(f, region) ==
    CHOOSE i \in DOMAIN f.backends :
        /\ f.backends[i].region = region
        /\ \A j \in DOMAIN f.backends : f.backends[j].region = region => j <= i

BackendsOf(f) == [region \in RegionsOf(f) |-> FromEntry(f.backends[LastFor(f, region)])]

(* HasCapability, of a region that has a backend.                          *)
BackendsWith(f, capability) ==
    {region \in RegionsOf(f) : capability \in BackendsOf(f)[region].capabilities}

(* Those whose credentials have a session token.                           *)
BackendsWithToken(f) ==
    {region \in RegionsOf(f) : BackendsOf(f)[region].credentials.SessionToken # ""}
============================================================================

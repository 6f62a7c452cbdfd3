------------------------ MODULE BackendsConfigProofs ------------------------
(***************************************************************************)
(* What a configuration that was loaded guarantees to those who use it.    *)
(***************************************************************************)
EXTENDS BackendsConfig, WellFoundedInduction, TLAPS

(* Of some entries of a file one is the last.                              *)
LEMMA SomeLast ==
    ASSUME NEW n \in Nat, NEW T \in SUBSET (1 .. n), T # {}
    PROVE  \E i \in T : \A j \in T : j <= i
<1> DEFINE Backwards == {m \in Nat : n - m \in T}
<1>1. Backwards \subseteq Nat  OBVIOUS
<1>2. Backwards # {}
    <2>1. PICK i \in T : TRUE  OBVIOUS
    <2>2. n - i \in Nat /\ n - (n - i) = i  BY <2>1
    <2> QED  BY <2>2
<1>3. PICK x \in Backwards : \A y \in Backwards : <<y, x>> \notin OpToRel(<, Nat)
    <2> HIDE DEF Backwards
    <2> QED  BY <1>1, <1>2, NatLessThanWellFounded, WFMin, Zenon
<1>4. ASSUME NEW j \in T PROVE j <= n - x
    <2>1. n - j \in Nat /\ n - (n - j) = j  OBVIOUS
    <2>2. n - j \in Backwards  BY <2>1
    <2>3. ~ (n - j < x)  BY <1>3, <2>1, <2>2, Zenon DEF OpToRel
    <2> QED  BY <2>1, <2>3
<1> QED  BY <1>4

(* The entry that counts for a region is an entry for that region, and the *)
(* last such entry (line 143 replaces what an earlier one stored).         *)
LEMMA LastForIs ==
    ASSUME NEW f \in ConfigFile, NEW region \in RegionsOf(f)
    PROVE  LET i == LastFor(f, region)
           IN  /\ i \in DOMAIN f.backends /\ f.backends[i].region = region
               /\ \A j \in DOMAIN f.backends : f.backends[j].region = region => j <= i
<1> DEFINE T == {i \in DOMAIN f.backends : f.backends[i].region = region}
<1>1. Len(f.backends) \in Nat /\ DOMAIN f.backends = 1 .. Len(f.backends)  BY DEF ConfigFile
<1>2. T \in SUBSET (1 .. Len(f.backends)) /\ T # {}  BY <1>1 DEF RegionsOf
<1>3. \E i \in T : \A j \in T : j <= i
    <2> HIDE DEF T
    <2> QED  BY <1>1, <1>2, SomeLast
<1> QED  BY <1>3 DEF LastFor

(* A configuration that getBackendsConfigFromBytes accepts: the default    *)
(* backend, used for a request without a region, exists; all backends can  *)
(* sign, with the credentials and capabilities of the last entry for their *)
(* region; and no capability is unknown.                                   *)
THEOREM LoadedBackendsAreUsable ==
    ASSUME NEW f \in ConfigFile, ~ ConfigError(f)
    PROVE  /\ f.default \in DOMAIN BackendsOf(f)
           /\ \A region \in DOMAIN BackendsOf(f) :
                LET b == BackendsOf(f)[region]
                IN  /\ b.credentials.AccessKeyID # "" /\ b.credentials.SecretAccessKey # ""
                    /\ b.capabilities \subseteq S3Capability
                    /\ \E i \in DOMAIN f.backends :
                          /\ f.backends[i].region = region
                          /\ b = FromEntry(f.backends[i])
                          /\ \A j \in DOMAIN f.backends : f.backends[j].region = region => j <= i
<1>1. f.default \in DOMAIN BackendsOf(f)  BY DEF ConfigError, BackendsOf
<1>2. ASSUME NEW region \in RegionsOf(f)
      PROVE  LET b == BackendsOf(f)[region]
             IN  /\ b.credentials.AccessKeyID # "" /\ b.credentials.SecretAccessKey # ""
                 /\ b.capabilities \subseteq S3Capability
                 /\ \E i \in DOMAIN f.backends :
                       /\ f.backends[i].region = region
                       /\ b = FromEntry(f.backends[i])
                       /\ \A j \in DOMAIN f.backends : f.backends[j].region = region => j <= i
    <2>1. PICK i \in DOMAIN f.backends :
             /\ i = LastFor(f, region) /\ f.backends[i].region = region
             /\ \A j \in DOMAIN f.backends : f.backends[j].region = region => j <= i
        BY LastForIs
    <2>2. BackendsOf(f)[region] = FromEntry(f.backends[i])  BY <2>1 DEF BackendsOf
    <2>3. ~ EntryError(f.backends[i])  BY DEF ConfigError
    <2>4. /\ FromEntry(f.backends[i]).credentials.AccessKeyID # ""
          /\ FromEntry(f.backends[i]).credentials.SecretAccessKey # ""
          /\ FromEntry(f.backends[i]).capabilities \subseteq S3Capability
        BY <2>3 DEF EntryError, CredentialsError, FromEntry, GetCredentials
    <2> QED  BY <2>1, <2>2, <2>4
<1> QED  BY <1>1, <1>2 DEF BackendsOf

(* An entry that is added at the end of the file replaces what there was   *)
(* for its region and leaves the backends of all other regions alone; an   *)
(* entry that is in error is not repaired by it.                           *)
THEOREM LaterEntryReplaces ==
    ASSUME NEW f \in ConfigFile, NEW entry \in Entry,
           NEW g \in ConfigFile, g = [f EXCEPT !.backends = Append(f.backends, entry)]
    PROVE  /\ DOMAIN BackendsOf(g) = DOMAIN BackendsOf(f) \cup {entry.region}
           /\ BackendsOf(g)[entry.region] = FromEntry(entry)
           /\ \A region \in DOMAIN BackendsOf(f) \ {entry.region} :
                 BackendsOf(g)[region] = BackendsOf(f)[region]
           /\ (\E i \in DOMAIN f.backends : EntryError(f.backends[i])) => ConfigError(g)
<1> DEFINE n == Len(f.backends)
<1>1. /\ n \in Nat /\ DOMAIN f.backends = 1 .. n
      /\ g.backends = Append(f.backends, entry) /\ DOMAIN g.backends = 1 .. (n + 1)
    BY DEF ConfigFile
<1>2. g.backends[n + 1] = entry /\ \A i \in 1 .. n : g.backends[i] = f.backends[i]
    BY <1>1 DEF ConfigFile
<1> HIDE DEF n
<1>3. \A i : i \in 1 .. (n + 1) <=> i \in 1 .. n \/ i = n + 1  BY <1>1
<1>4. RegionsOf(g) = RegionsOf(f) \cup {entry.region}
    BY <1>1, <1>2, <1>3 DEF RegionsOf
<1>5. BackendsOf(g)[entry.region] = FromEntry(entry)
    <2>1. entry.region \in RegionsOf(g)  BY <1>4
    <2>2. LastFor(g, entry.region) \in 1 .. (n + 1) /\ n + 1 <= LastFor(g, entry.region)
        BY <1>1, <1>2, <1>3, <2>1, LastForIs
    <2>3. LastFor(g, entry.region) = n + 1  BY <1>1, <2>2
    <2> QED  BY <1>2, <2>1, <2>3 DEF BackendsOf
<1>6. ASSUME NEW region \in RegionsOf(f), region # entry.region
      PROVE  BackendsOf(g)[region] = BackendsOf(f)[region]
    <2>1. region \in RegionsOf(g)  BY <1>4
    <2> DEFINE i == LastFor(f, region)
               j == LastFor(g, region)
    <2>2. /\ i \in 1 .. n /\ f.backends[i].region = region
          /\ \A k \in 1 .. n : f.backends[k].region = region => k <= i
        BY <1>1, LastForIs
    <2>3. /\ j \in 1 .. (n + 1) /\ g.backends[j].region = region
          /\ \A k \in 1 .. (n + 1) : g.backends[k].region = region => k <= j
        BY <1>1, <2>1, LastForIs
    <2> HIDE DEF i, j
    <2>4. j \in 1 .. n  BY <1>2, <1>3, <1>6, <2>3
    <2>5. j <= i  BY <1>2, <2>2, <2>3, <2>4
    <2>6. i <= j  BY <1>2, <1>3, <2>2, <2>3
    <2>7. i = j  BY <1>1, <2>2, <2>4, <2>5, <2>6
    <2>8. g.backends[j] = f.backends[i]  BY <1>2, <2>2, <2>7
    <2>9. BackendsOf(g)[region] = FromEntry(g.backends[j])  BY <2>1 DEF BackendsOf, j
    <2>10. BackendsOf(f)[region] = FromEntry(f.backends[i])  BY DEF BackendsOf, i
    <2> QED  BY <2>8, <2>9, <2>10
<1>7. (\E i \in DOMAIN f.backends : EntryError(f.backends[i])) => ConfigError(g)
    BY <1>1, <1>2, <1>3 DEF ConfigError
<1> QED  BY <1>4, <1>5, <1>6, <1>7 DEF BackendsOf

(* What the S3 proxy is configured with (MCS3Proxy takes its constants from*)
(* such a file): every file that is accepted meets BackendsAssumption, the *)
(* assumption of all theorems about the proxy.                             *)
THEOREM AcceptedFilesFitTheProxy ==
    ASSUME NEW f \in ConfigFile, ~ ConfigError(f),
           NEW Role, NEW Regions, RegionsOf(f) \subseteq Regions, "" \in Regions,
           NEW RegionToDefault \in BOOLEAN, NEW LegacyCredentials \in BOOLEAN,
           NEW Grace \in Nat, NEW NoBackend, NoBackend \notin RegionsOf(f),
           NEW capability
    PROVE  LET Proxy == INSTANCE S3Request WITH
                          Backends <- DOMAIN BackendsOf(f), DefaultBackend <- f.default,
                          Streaming <- BackendsWith(f, capability),
                          WithToken <- BackendsWithToken(f)
           IN  Proxy!BackendsAssumption
BY DEF ConfigError, BackendsOf, BackendsWith, BackendsWithToken
============================================================================

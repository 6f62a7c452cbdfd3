-------------------------------- MODULE STS --------------------------------
(***************************************************************************)
(* The STS proxy (aws/service/sts/): a client exchanges the token of an    *)
(* OIDC provider for credentials of the S3 proxy, a session token of its   *)
(* own with a limited lifetime (aws/credentials/).  The clock runs on and  *)
(* the policies are edited while a request is handled.  Times and durations*)
(* are in a unit smaller than a second, like Go's nanoseconds.             *)
(*                                                                         *)
(* A request r has the fields                                              *)
(*    form     what is asked: "exchange", "other" (another action),        *)
(*             "version" (not the supported one), or "get" (not a POST)    *)
(*    key, iss, sub   the key that signed the token, its issuer and subject*)
(*    nbf, exp the times it is valid from and until, exp = NoTime if absent*)
(*    asked    whether DurationSeconds is "absent", "junk" or a "number"   *)
(*    seconds  that number                                                 *)
(*    role     the RoleArn                                                 *)
(***************************************************************************)
EXTENDS Integers

CONSTANTS
    Slot,           \* the requests, by name
    Inputs,         \* what clients may send
    Provider,       \* the names of the OIDC providers
    Iss,            \* the iss of a provider
    ProviderKey,    \* its public key
    NoTime,
    Role, Policy,
    Unparsable,     \* the policies that are no templates
    None,           \* no policy, no key, nothing issued
    Second,         \* units of time in a second
    Wrap,           \* the durations are those in -Wrap .. Wrap - 1 (int64)
    DefaultSeconds, \* "3600"
    MinDuration, MaxDuration, \* the limits of the configuration, not checked there
    MaxTime         \* bound on the clock

ASSUME STSAssumption ==
    /\ \A r \in Inputs : r.form \in {"exchange", "other", "version", "get"}
                         /\ r.nbf \in Nat /\ r.exp \in Nat \cup {NoTime}
                         /\ r.asked \in {"absent", "junk", "number"}
                         /\ r.seconds \in Int /\ r.role \in Role
    /\ NoTime \notin Int
    /\ None \notin Policy /\ Unparsable \subseteq Policy
    /\ Second \in Nat \ {0} /\ Wrap \in Nat \ {0} /\ MaxTime \in Nat
    /\ DefaultSeconds \in Nat
    /\ MinDuration \in -Wrap .. Wrap - 1 /\ MaxDuration \in -Wrap .. Wrap - 1

VARIABLES
    stage,     \* where the handler of a request is
    req,       \* the request
    start,     \* when it arrived
    duration,  \* the duration its session is to have
    issued,    \* the credentials made for it, or None
    err,       \* the error code it is logged with
    wire,      \* the status line sent to the client, 0 before
    issuers,   \* oidcConfig.Issuers
    now,       \* the clock
    policy, served, changed   \* the policies, see PolicyRegister

reqVars == <<stage, req, start, duration, issued, err, wire>>
policyVars == <<policy, served, changed>>
vars == <<reqVars, issuers, now, policyVars>>

Policies == INSTANCE PolicyRegister

Stage == {"new", "form", "token", "duration", "role", "issue", "encode", "done"}
Status == [MissingParameter |-> 400, InvalidParameterValue |-> 400, InternalError |-> 500]

(* A session token for role expires at exp; the client is told reported.   *)
(* A call that starts to make credentials does not have reported yet.      *)
Credentials == [role : Role, exp : Int, reported : Int \cup {NoTime}]

ASSUME CredentialsAssumption == None \notin Credentials

(* Types.  Who gets a response of success gets credentials in it.          *)
TypeOK ==
    /\ stage \in [Slot -> Stage]
    /\ req \in [Slot -> Inputs \cup {None}]
    /\ start \in [Slot -> 0 .. MaxTime]
    /\ duration \in [Slot -> -Wrap .. Wrap - 1]
    /\ DOMAIN issued = Slot /\ \A q \in Slot : issued[q] # None => issued[q] \in Credentials
    /\ err \in [Slot -> DOMAIN Status \cup {"-"}]
    /\ wire \in [Slot -> {0, 200, 400, 500}]
    /\ now \in 0 .. MaxTime
    /\ policy \in [Role -> Policy \cup {None}]
    /\ served \in [Role -> Policy \cup {None}]
    /\ changed \in [Role -> BOOLEAN]
    /\ \A q \in Slot : wire[q] = 200 /\ req[q].form # "get" =>
           issued[q] # None /\ issued[q].reported # NoTime

----------------------------------------------------------------------------
(* The OIDC providers                                                      *)

(* loadOidcConfig: of providers with the same iss any may be the last.     *)
IssuersLoaded ==
    issuers \in {f \in [{Iss[p] : p \in Provider} -> Provider] :
                    \A i \in DOMAIN f : Iss[f[i]] = i}

(* Not the code: the keys of all providers are tried.                      *)
SignedByAnyProvider(r) == \E p \in Provider : ProviderKey[p] = r.key

(* GetKeyFunc: the issuer of a token is the iss of a provider, or its name.*)
SignedByIssuer(r) ==
    \/ r.iss \in DOMAIN issuers /\ ProviderKey[issuers[r.iss]] = r.key
    \/ r.iss \notin DOMAIN issuers /\ r.iss \in Provider /\ ProviderKey[r.iss] = r.key

(* ExtractOIDCTokenClaims: the jwt library does not miss an absent exp.    *)
Accepted(r, t) ==
    SignedByIssuer(r) /\ r.nbf <= t /\ (r.exp = NoTime \/ t < r.exp)

----------------------------------------------------------------------------
(* Durations                                                               *)

(* time.Duration(seconds) * time.Second                                    *)
Seconds(n) == ((n * Second + Wrap) % (2 * Wrap)) - Wrap

AskedSeconds(r) == IF r.asked = "absent" THEN DefaultSeconds ELSE r.seconds

(* Not the code: the minimum is compared with the number asked for.        *)
DurationAllowedUnconverted(n) ==
    n * Second >= MinDuration /\ Seconds(n) <= MaxDuration

(* The checks of calculateFinalDurationSeconds on the duration.            *)
DurationAllowed(n) == Seconds(n) >= MinDuration /\ Seconds(n) <= MaxDuration

(* NewNumericDate: times in tokens are in full seconds.                    *)
FullSeconds(t) == t - (t % Second)

----------------------------------------------------------------------------
Init ==
    /\ stage = [q \in Slot |-> "new"]
    /\ req = [q \in Slot |-> None]
    /\ start = [q \in Slot |-> 0]
    /\ duration = [q \in Slot |-> 0]
    /\ issued = [q \in Slot |-> None]
    /\ err = [q \in Slot |-> "-"]
    /\ wire = [q \in Slot |-> 0]
    /\ IssuersLoaded
    /\ now = 0
    /\ Policies!Init

Goto(q, s) == stage' = [stage EXCEPT ![q] = s]

(* writeSTSErrorResponse, after which the handler returns.                 *)
Fail(q, code) ==
    /\ err' = [err EXCEPT ![q] = code]
    /\ wire' = [wire EXCEPT ![q] = Status[code]]
    /\ Goto(q, "done")

FailOr(q, failed, code, s) ==
    \/ failed /\ Fail(q, code)
    \/ ~ failed /\ Goto(q, s) /\ UNCHANGED <<err, wire>>

----------------------------------------------------------------------------
(* The handler                                                             *)

Arrive(q, r) ==
    /\ stage[q] = "new"
    /\ req' = [req EXCEPT ![q] = r]
    /\ start' = [start EXCEPT ![q] = now]
    /\ Goto(q, "form")
    /\ UNCHANGED <<duration, issued, err, wire>>

(* Not the code: the route without a method comes first.                   *)
JustLogAll(q) ==
    /\ stage[q] = "form"
    /\ wire' = [wire EXCEPT ![q] = 200]
    /\ Goto(q, "done")
    /\ UNCHANGED <<req, start, duration, issued, err>>

(* The router hands what is no POST to justLog, which writes nothing, so   *)
(* that net/http answers 200.                                              *)
JustLog(q) ==
    /\ stage[q] = "form" /\ req[q].form = "get"
    /\ wire' = [wire EXCEPT ![q] = 200]
    /\ Goto(q, "done")
    /\ UNCHANGED <<req, start, duration, issued, err>>

ProcessSTSPost(q) ==
    /\ stage[q] = "form" /\ req[q].form # "get"
    /\ \/ req[q].form = "version" /\ Fail(q, "MissingParameter")
       \/ req[q].form # "version"
            /\ FailOr(q, req[q].form = "other", "InvalidParameterValue", "token")
    /\ UNCHANGED <<req, start, duration, issued>>

(* assumeRoleWithWebIdentity: the token, its claims, DurationSeconds.      *)
CheckToken(q) ==
    LET r == req[q] IN
    /\ stage[q] = "token"
    /\ FailOr(q, ~ Accepted(r, now) \/ r.sub = "" \/ r.iss = "" \/ r.asked = "junk",
              "InvalidParameterValue", "duration")
    /\ UNCHANGED <<req, start, duration, issued>>

(* Not the code: an error returns without writing a response.              *)
CalculateDurationSilent(q) ==
    LET r == req[q]
        n == AskedSeconds(r)
    IN
    /\ stage[q] = "duration" /\ r.exp # NoTime
    /\ Goto(q, IF r.exp < now \/ ~ DurationAllowed(n) THEN "done" ELSE "role")
    /\ duration' = [duration EXCEPT ![q] = Seconds(n)]
    /\ UNCHANGED <<req, start, issued, err, wire>>

(* calculateFinalDurationSeconds reads the clock again.                    *)
CalculateDuration(q) ==
    LET r == req[q]
        n == AskedSeconds(r)
    IN
    /\ stage[q] = "duration" /\ r.exp # NoTime
    /\ FailOr(q, r.exp < now \/ ~ DurationAllowed(n), "InternalError", "role")
    /\ duration' = [duration EXCEPT ![q] = Seconds(n)]
    /\ UNCHANGED <<req, start, issued>>

(* It dereferences the time a token without exp does not have: the handler *)
(* panics, net/http closes the connection.                                 *)
PanicNoExpiry(q) ==
    /\ stage[q] = "duration" /\ req[q].exp = NoTime
    /\ Goto(q, "done")
    /\ UNCHANGED <<req, start, duration, issued, err, wire>>

(* Not the code: only the file is looked for.                              *)
PolicyRejectedIfMissing(p) == p = None

(* DoesPolicyExist: there is a file, and it is a template.                 *)
PolicyRejected(p) == p \in {None} \cup Unparsable

(* The cache answers from memory, or with what it finds in the file, which *)
(* may just be missing if it is being changed.                             *)
Answers(role) ==
    {policy[role]} \cup ({served[role]} \ {None}) \cup IF changed[role] THEN {None} ELSE {}

CheckRole(q) ==
    /\ stage[q] = "role"
    /\ \E p \in Answers(req[q].role) :
          FailOr(q, PolicyRejected(p), "InvalidParameterValue", "issue")
    /\ UNCHANGED <<req, start, duration, issued>>

(* newProxyIssuedToken takes the time for the token ...                    *)
NewToken(q) ==
    /\ stage[q] = "issue"
    /\ issued' = [issued EXCEPT ![q] = [role |-> req[q].role,
                                        exp |-> FullSeconds(now + duration[q]),
                                        reported |-> NoTime]]
    /\ Goto(q, "encode")
    /\ UNCHANGED <<req, start, duration, err, wire>>

(* Not the code: the time is taken before the token is made.               *)
NewAWSCredentialsFromStart(q) ==
    /\ stage[q] = "encode"
    /\ issued' = [issued EXCEPT ![q].reported = start[q] + duration[q]]
    /\ wire' = [wire EXCEPT ![q] = 200]
    /\ Goto(q, "done")
    /\ UNCHANGED <<req, start, duration, err>>

(* ... and NewAWSCredentials, later, that for the client.  The key was     *)
(* loaded when the server started, so that signing does not fail.          *)
NewAWSCredentials(q) ==
    /\ stage[q] = "encode"
    /\ issued' = [issued EXCEPT ![q].reported = now + duration[q]]
    /\ wire' = [wire EXCEPT ![q] = 200]
    /\ Goto(q, "done")
    /\ UNCHANGED <<req, start, duration, err>>

----------------------------------------------------------------------------
Handle(q) ==
    /\ \/ JustLog(q) \/ ProcessSTSPost(q)
       \/ CheckToken(q) \/ CalculateDuration(q) \/ PanicNoExpiry(q) \/ CheckRole(q)
       \/ NewToken(q) \/ NewAWSCredentials(q)
    /\ UNCHANGED <<issuers, now, policyVars>>

Client(q) == (\E r \in Inputs : Arrive(q, r)) /\ UNCHANGED <<issuers, now, policyVars>>

Tick == now < MaxTime /\ now' = now + 1 /\ UNCHANGED <<reqVars, issuers, policyVars>>

EditPolicies == Policies!Next /\ UNCHANGED <<reqVars, issuers, now>>

Next ==
    \/ \E q \in Slot : Client(q) \/ Handle(q)
    \/ Tick
    \/ EditPolicies

Spec == Init /\ [][Next]_vars

(* The goroutine of a request runs on.                                     *)
FairSpec == Spec /\ \A q \in Slot : WF_vars(Handle(q))

----------------------------------------------------------------------------
(* Properties                                                              *)

(* Credentials are only made for the token of a known provider, signed with*)
(* the key of that provider, that had not expired when it was sent and was *)
(* valid already (GetKeyFunc, ExtractOIDCTokenClaims).                     *)
IssuedForTrustedToken ==
    \A q \in Slot : issued[q] # None =>
        LET r == req[q] IN
        /\ \E p \in Provider : ProviderKey[p] = r.key /\ r.iss \in {p, Iss[p]}
        /\ r.nbf <= now /\ start[q] < r.exp

(* The strengthening of IssuedForTrustedToken: what each stage can rely on.*)
Trusted(q) == SignedByIssuer(req[q]) /\ req[q].nbf <= now

StagesRelyOn(q) ==
    /\ stage[q] # "new" => req[q] \in Inputs /\ start[q] <= now
    /\ stage[q] = "duration" => Trusted(q) /\ (req[q].exp = NoTime \/ start[q] < req[q].exp)
    /\ stage[q] \in {"role", "issue", "encode"} \/ issued[q] # None =>
          /\ Trusted(q) /\ req[q].exp # NoTime /\ start[q] < req[q].exp
          /\ MinDuration <= duration[q] /\ duration[q] <= MaxDuration
    /\ stage[q] # "done" => wire[q] = 0
    /\ stage[q] \notin {"encode", "done"} => issued[q] = None
    /\ stage[q] = "encode" => issued[q] # None /\ issued[q].exp <= now + duration[q]
    /\ stage[q] = "done" /\ issued[q] # None => issued[q].reported \in Int
                                               /\ issued[q].reported >= issued[q].exp

IInv ==
    /\ TypeOK
    /\ IssuersLoaded
    /\ \A q \in Slot : StagesRelyOn(q)
    /\ \A r \in Role : changed[r] \/ Policies!Current(r)

(* However large a duration is asked for, a session lasts as long as the   *)
(* configured limits allow from the time it is made, but for the fraction  *)
(* of a second a token does not show (calculateFinalDurationSeconds).      *)
SessionWithinLimits ==
    [][\A q \in Slot : issued[q] = None /\ issued'[q] # None =>
          /\ issued'[q].exp - now > MinDuration - Second
          /\ issued'[q].exp - now <= MaxDuration]_vars

(* The Expiration the client is told is never before the expiry in its     *)
(* token: a session is not given up while it could be used.                *)
ReportedCoversToken ==
    \A q \in Slot : wire[q] = 200 /\ issued[q] # None => issued[q].reported >= issued[q].exp

(* A role is only handed out when it has a policy in force, unless a change*)
(* of that is still to be dealt with, or was missed by the cache           *)
(* (DoesPolicyExist; see PolicyRegister).                                  *)
RoleHasPolicy ==
    [][\A q \in Slot : stage[q] = "role" /\ stage'[q] = "issue" =>
          LET role == req[q].role IN
          changed[role] \/ policy[role] \notin {None} \cup Unparsable]_vars

(* A request whose token has an exp is answered, be it with an error.      *)
Answered ==
    \A q \in Slot : (stage[q] = "form" /\ req[q].exp # NoTime) ~> wire[q] # 0

(* "`exp` claim is mandatory" (server.go): its absence is an error of the  *)
(* client's.                                                               *)
ExpiryIsMandatory ==
    \A q \in Slot :
        stage[q] = "done" /\ req[q].form = "exchange" /\ req[q].exp = NoTime => wire[q] = 400
============================================================================

----------------------------- MODULE STSProofs ------------------------------
(***************************************************************************)
(* Theorems about STS, for any providers, clients, policies and limits of  *)
(* the duration: its types, for whom credentials are made, for how long,   *)
(* for which roles, and what the client is told of that.                   *)
(***************************************************************************)
EXTENDS STS, TLAPS

----------------------------------------------------------------------------
(* Durations                                                               *)

LEMMA ModRange ==
    ASSUME NEW a \in Int, NEW b \in Nat \ {0}
    PROVE  a % b \in Int /\ 0 <= a % b /\ a % b < b
OBVIOUS

(* A duration that overflows is still one of an int64.                     *)
LEMMA SecondsType ==
    ASSUME NEW n \in Int
    PROVE  Seconds(n) \in -Wrap .. Wrap - 1
<1> DEFINE a == n * Second + Wrap
<1>1. /\ Wrap \in Int /\ 2 * Wrap \in Nat \ {0} /\ n * Second \in Int
  BY STSAssumption
<1>2. a \in Int
  BY <1>1
<1>. HIDE DEF a
<1>3. a % (2 * Wrap) \in Int /\ 0 <= a % (2 * Wrap) /\ a % (2 * Wrap) < 2 * Wrap
  BY <1>1, <1>2, ModRange
<1>4. Seconds(n) = (a % (2 * Wrap)) - Wrap
  BY DEF Seconds, a
<1>. QED
  BY <1>1, <1>3, <1>4

(* Less than a second gets lost in a token.                                *)
LEMMA FullSecondsIs ==
    ASSUME NEW t \in Int
    PROVE  /\ FullSeconds(t) \in Int
           /\ t - Second < FullSeconds(t) /\ FullSeconds(t) <= t
<1>1. Second \in Nat \ {0}
  BY STSAssumption
<1>2. t % Second \in Int /\ 0 <= t % Second /\ t % Second < Second
  BY <1>1, ModRange
<1>. QED
  BY <1>1, <1>2 DEF FullSeconds

(* What is assumed of a request.                                           *)
LEMMA InputIs ==
    ASSUME NEW r \in Inputs
    PROVE  /\ r.nbf \in Int /\ r.exp \in Int \cup {NoTime} /\ r.role \in Role
           /\ r.seconds \in Int /\ AskedSeconds(r) \in Int
<1>1. /\ r.nbf \in Nat /\ r.exp \in Nat \cup {NoTime} /\ r.seconds \in Int /\ r.role \in Role
      /\ DefaultSeconds \in Int
  BY STSAssumption
<1>. QED
  BY <1>1 DEF AskedSeconds

----------------------------------------------------------------------------
(* The invariant                                                           *)

LEMMA InitIInv == Init => IInv
<1>. SUFFICES ASSUME Init PROVE IInv
  OBVIOUS
<1>1. 0 \in 0 .. MaxTime /\ 0 \in -Wrap .. Wrap - 1
  BY STSAssumption
<1>2. TypeOK
  BY <1>1 DEF Init, TypeOK, Stage, Policies!Init
<1>3. \A q \in Slot : StagesRelyOn(q)
  BY DEF Init, StagesRelyOn
<1>4. \A r \in Role : changed[r] \/ Policies!Current(r)
  BY DEF Init, Policies!Init, Policies!Current
<1>. QED
  BY <1>2, <1>3, <1>4 DEF IInv, Init

(* A step that only concerns request q: what it has to show.               *)
HandlerStep(q) ==
    /\ stage' \in [Slot -> Stage] /\ duration' \in [Slot -> -Wrap .. Wrap - 1]
    /\ err' \in [Slot -> DOMAIN Status \cup {"-"}] /\ wire' \in [Slot -> {0, 200, 400, 500}]
    /\ DOMAIN issued' = Slot
    /\ issued'[q] # None => issued'[q] \in Credentials
    /\ wire'[q] = 200 /\ req[q].form # "get" => issued'[q] # None /\ issued'[q].reported # NoTime
    /\ \A p \in Slot \ {q} : /\ stage'[p] = stage[p] /\ duration'[p] = duration[p]
                             /\ issued'[p] = issued[p] /\ wire'[p] = wire[p]
    /\ UNCHANGED <<req, start, issuers, now, policyVars>>
    /\ StagesRelyOn(q)'

LEMMA HandlerStepKeeps ==
    ASSUME IInv, NEW q \in Slot, HandlerStep(q)
    PROVE  IInv'
<1>1. req' = req /\ start' = start /\ issuers' = issuers /\ now' = now /\ policyVars' = policyVars
  BY DEF HandlerStep
<1>2. TypeOK'
  <2>1. ASSUME NEW p \in Slot
        PROVE  /\ issued'[p] # None => issued'[p] \in Credentials
               /\ wire'[p] = 200 /\ req'[p].form # "get" =>
                     issued'[p] # None /\ issued'[p].reported # NoTime
    BY <1>1 DEF HandlerStep, IInv, TypeOK
  <2>2. /\ req' \in [Slot -> Inputs \cup {None}] /\ start' \in [Slot -> 0 .. MaxTime]
        /\ now' \in 0 .. MaxTime
        /\ policy' \in [Role -> Policy \cup {None}] /\ served' \in [Role -> Policy \cup {None}]
        /\ changed' \in [Role -> BOOLEAN]
    BY <1>1 DEF IInv, TypeOK, policyVars
  <2>. QED
    BY <2>1, <2>2, ZenonT(60) DEF HandlerStep, TypeOK
<1>3. ASSUME NEW p \in Slot \ {q}
      PROVE  StagesRelyOn(p)'
  <2>1. StagesRelyOn(p) /\ (Trusted(p)' <=> Trusted(p))
    BY <1>1 DEF IInv, Trusted, SignedByIssuer
  <2>2. /\ stage'[p] = stage[p] /\ duration'[p] = duration[p]
        /\ issued'[p] = issued[p] /\ wire'[p] = wire[p]
    BY DEF HandlerStep
  <2>. QED
    BY <1>1, <2>1, <2>2 DEF StagesRelyOn
<1>4. \A r \in Role : (changed[r] \/ Policies!Current(r))'
  BY <1>1 DEF IInv, Policies!Current, policyVars
<1>5. StagesRelyOn(q)' /\ IssuersLoaded'
  BY <1>1 DEF HandlerStep, IInv, IssuersLoaded
<1>. QED
  BY <1>2, <1>3, <1>4, <1>5 DEF IInv

(* What the invariant says of a request whose handler runs.                *)
LEMMA Running ==
    ASSUME IInv, NEW q \in Slot, stage[q] # "new"
    PROVE  /\ req[q] \in Inputs /\ start[q] \in Int /\ now \in Int /\ start[q] <= now
           /\ stage \in [Slot -> Stage] /\ duration \in [Slot -> -Wrap .. Wrap - 1]
           /\ err \in [Slot -> DOMAIN Status \cup {"-"}]
           /\ wire \in [Slot -> {0, 200, 400, 500}]
           /\ duration[q] \in Int
           /\ stage[q] # "done" => wire[q] = 0
           /\ stage[q] \notin {"encode", "done"} => issued[q] = None
           /\ DOMAIN issued = Slot
           /\ issued[q] # None => issued[q] \in Credentials
<1>1. TypeOK /\ StagesRelyOn(q)
  BY DEF IInv
<1>2. duration[q] \in Int /\ start[q] \in Int /\ now \in Int
  BY <1>1, STSAssumption DEF TypeOK
<1>. QED
  BY <1>1, <1>2 DEF TypeOK, StagesRelyOn

(* A stage fails, before credentials are made.                             *)
LEMMA FailKeeps ==
    ASSUME IInv, NEW q \in Slot, stage[q] \notin {"new", "encode", "done"},
           NEW code \in DOMAIN Status, Fail(q, code),
           duration' \in [Slot -> -Wrap .. Wrap - 1],
           \A p \in Slot \ {q} : duration'[p] = duration[p],
           UNCHANGED <<req, start, issued, issuers, now, policyVars>>
    PROVE  IInv'
<1>1. Status[code] \in {400, 500}
  BY DEF Status
<1>2. /\ stage' = [stage EXCEPT ![q] = "done"] /\ wire' = [wire EXCEPT ![q] = Status[code]]
      /\ err' = [err EXCEPT ![q] = code]
  BY DEF Fail, Goto
<1>3. /\ stage' \in [Slot -> Stage] /\ stage'[q] = "done"
      /\ wire' \in [Slot -> {0, 200, 400, 500}] /\ wire'[q] # 200
      /\ err' \in [Slot -> DOMAIN Status \cup {"-"}]
      /\ \A p \in Slot \ {q} : stage'[p] = stage[p] /\ wire'[p] = wire[p]
  BY <1>1, <1>2, Running DEF Stage
<1>4. issued' = issued /\ issued[q] = None /\ req' = req /\ start' = start /\ now' = now
  BY Running
<1>5. StagesRelyOn(q)'
  BY <1>3, <1>4, Running DEF StagesRelyOn
<1>6. HandlerStep(q)
  BY <1>3, <1>4, <1>5, Running DEF HandlerStep
<1>. QED
  BY <1>6, HandlerStepKeeps

(* A stage goes on to stage s, which can rely on more.                     *)
LEMMA GoOnKeeps ==
    ASSUME IInv, NEW q \in Slot, stage[q] \notin {"new", "encode", "done"},
           NEW s \in {"form", "token", "duration", "role", "issue"}, Goto(q, s),
           duration' \in [Slot -> -Wrap .. Wrap - 1],
           \A p \in Slot \ {q} : duration'[p] = duration[p],
           UNCHANGED <<req, start, issued, err, wire, issuers, now, policyVars>>,
           s = "duration" => Trusted(q) /\ (req[q].exp = NoTime \/ start[q] < req[q].exp),
           s \in {"role", "issue"} =>
              /\ Trusted(q) /\ req[q].exp # NoTime /\ start[q] < req[q].exp
              /\ MinDuration <= duration'[q] /\ duration'[q] <= MaxDuration
    PROVE  IInv'
<1>1. /\ stage' \in [Slot -> Stage] /\ stage'[q] = s
      /\ \A p \in Slot \ {q} : stage'[p] = stage[p]
  BY Running DEF Goto, Stage
<1>2. /\ issued' = issued /\ issued[q] = None /\ req' = req /\ start' = start /\ now' = now
      /\ wire' = wire /\ err' = err /\ wire[q] = 0 /\ issuers' = issuers
  BY Running
<1>3. Trusted(q)' <=> Trusted(q)
  BY <1>2 DEF Trusted, SignedByIssuer
<1>4. StagesRelyOn(q)'
  BY <1>1, <1>2, <1>3, Running DEF StagesRelyOn
<1>5. HandlerStep(q)
  BY <1>1, <1>2, <1>4, Running DEF HandlerStep
<1>. QED
  BY <1>5, HandlerStepKeeps

----------------------------------------------------------------------------
(* The stages                                                              *)

(* The router's answer to what is no POST: no credentials are involved.    *)
LEMMA JustLogKeeps ==
    ASSUME IInv, NEW q \in Slot, JustLog(q), UNCHANGED <<issuers, now, policyVars>>
    PROVE  IInv'
<1>1. /\ stage[q] = "form" /\ req[q].form = "get"
      /\ stage' = [stage EXCEPT ![q] = "done"] /\ wire' = [wire EXCEPT ![q] = 200]
      /\ UNCHANGED <<req, start, duration, issued, err, issuers, now, policyVars>>
  BY DEF JustLog, Goto
<1>2. issued[q] = None /\ "done" \in Stage
  BY <1>1, Running DEF Stage
<1>3. StagesRelyOn(q)'
  BY <1>1, <1>2, Running DEF StagesRelyOn
<1>4. HandlerStep(q)
  BY <1>1, <1>2, <1>3, Running DEF HandlerStep
<1>. QED
  BY <1>4, HandlerStepKeeps

LEMMA ProcessSTSPostKeeps ==
    ASSUME IInv, NEW q \in Slot, ProcessSTSPost(q), UNCHANGED <<issuers, now, policyVars>>
    PROVE  IInv'
<1>1. stage[q] = "form" /\ UNCHANGED <<req, start, duration, issued>>
  BY DEF ProcessSTSPost
<1>2. duration' \in [Slot -> -Wrap .. Wrap - 1]
  BY <1>1, Running
<1>3. CASE \E code \in DOMAIN Status : Fail(q, code)
  BY <1>1, <1>2, <1>3, FailKeeps
<1>4. CASE Goto(q, "token") /\ UNCHANGED <<err, wire>>
  BY <1>1, <1>2, <1>4, GoOnKeeps
<1>. QED
  BY <1>3, <1>4 DEF ProcessSTSPost, FailOr, Status

LEMMA CheckTokenKeeps ==
    ASSUME IInv, NEW q \in Slot, CheckToken(q), UNCHANGED <<issuers, now, policyVars>>
    PROVE  IInv'
<1>1. stage[q] = "token" /\ UNCHANGED <<req, start, duration, issued>>
  BY DEF CheckToken
<1>2. duration' \in [Slot -> -Wrap .. Wrap - 1]
  BY <1>1, Running
<1>3. CASE Fail(q, "InvalidParameterValue")
  BY <1>1, <1>2, <1>3, FailKeeps DEF Status
<1>4. CASE Accepted(req[q], now) /\ Goto(q, "duration") /\ UNCHANGED <<err, wire>>
  <2>1. Trusted(q) /\ (req[q].exp = NoTime \/ now < req[q].exp)
    BY <1>4 DEF Accepted, Trusted
  <2>2. req[q].exp = NoTime \/ start[q] < req[q].exp
    BY <1>1, <2>1, Running, InputIs
  <2>. QED
    BY <1>1, <1>2, <1>4, <2>1, <2>2, GoOnKeeps
<1>. QED
  BY <1>3, <1>4 DEF CheckToken, FailOr

LEMMA CalculateDurationKeeps ==
    ASSUME IInv, NEW q \in Slot, CalculateDuration(q), UNCHANGED <<issuers, now, policyVars>>
    PROVE  IInv'
<1> DEFINE n == AskedSeconds(req[q])
<1>1. /\ stage[q] = "duration" /\ req[q].exp # NoTime
      /\ duration' = [duration EXCEPT ![q] = Seconds(n)]
      /\ UNCHANGED <<req, start, issued>>
  BY DEF CalculateDuration
<1>2. n \in Int
  BY <1>1, Running, InputIs
<1>3. duration \in [Slot -> -Wrap .. Wrap - 1] /\ Seconds(n) \in -Wrap .. Wrap - 1
  BY <1>1, <1>2, Running, SecondsType
<1>4. /\ duration' \in [Slot -> -Wrap .. Wrap - 1] /\ duration'[q] = Seconds(n)
      /\ \A p \in Slot \ {q} : duration'[p] = duration[p]
  BY <1>1, <1>3
<1>5. CASE Fail(q, "InternalError")
  BY <1>1, <1>4, <1>5, FailKeeps DEF Status
<1>6. CASE DurationAllowed(n) /\ Goto(q, "role") /\ UNCHANGED <<err, wire>>
  <2>1. MinDuration <= duration'[q] /\ duration'[q] <= MaxDuration
    BY <1>4, <1>6 DEF DurationAllowed
  <2>2. Trusted(q) /\ start[q] < req[q].exp
    BY <1>1 DEF IInv, StagesRelyOn
  <2>. QED
    BY <1>1, <1>4, <1>6, <2>1, <2>2, GoOnKeeps
<1>. QED
  BY <1>5, <1>6 DEF CalculateDuration, FailOr

LEMMA PanicNoExpiryKeeps ==
    ASSUME IInv, NEW q \in Slot, PanicNoExpiry(q), UNCHANGED <<issuers, now, policyVars>>
    PROVE  IInv'
<1>1. /\ stage[q] = "duration" /\ stage' = [stage EXCEPT ![q] = "done"]
      /\ UNCHANGED <<req, start, duration, issued, err, wire, issuers, now, policyVars>>
  BY DEF PanicNoExpiry, Goto
<1>2. issued[q] = None /\ wire[q] = 0 /\ "done" \in Stage
  BY <1>1, Running DEF Stage
<1>3. StagesRelyOn(q)'
  BY <1>1, <1>2, Running DEF StagesRelyOn
<1>4. HandlerStep(q)
  BY <1>1, <1>2, <1>3, Running DEF HandlerStep
<1>. QED
  BY <1>4, HandlerStepKeeps

LEMMA CheckRoleKeeps ==
    ASSUME IInv, NEW q \in Slot, CheckRole(q), UNCHANGED <<issuers, now, policyVars>>
    PROVE  IInv'
<1>1. stage[q] = "role" /\ UNCHANGED <<req, start, duration, issued>>
  BY DEF CheckRole
<1>2. duration' \in [Slot -> -Wrap .. Wrap - 1] /\ duration' = duration
  BY <1>1, Running
<1>3. CASE Fail(q, "InvalidParameterValue")
  BY <1>1, <1>2, <1>3, FailKeeps DEF Status
<1>4. CASE Goto(q, "issue") /\ UNCHANGED <<err, wire>>
  <2>1. /\ Trusted(q) /\ req[q].exp # NoTime /\ start[q] < req[q].exp
        /\ MinDuration <= duration[q] /\ duration[q] <= MaxDuration
    BY <1>1 DEF IInv, StagesRelyOn
  <2>. QED
    BY <1>1, <1>2, <1>4, <2>1, GoOnKeeps
<1>. QED
  BY <1>3, <1>4 DEF CheckRole, FailOr

(* The token that is made expires within the limits of the configuration.  *)
LEMMA NewTokenIs ==
    ASSUME IInv, NEW q \in Slot, NewToken(q)
    PROVE  /\ issued[q] = None /\ issued'[q] # None
           /\ DOMAIN issued' = Slot /\ \A p \in Slot \ {q} : issued'[p] = issued[p]
           /\ issued'[q] \in Credentials /\ issued'[q].role = req[q].role
           /\ issued'[q].exp - now > MinDuration - Second
           /\ issued'[q].exp - now <= MaxDuration
           /\ issued'[q].exp <= now + duration[q]
<1> DEFINE t == now + duration[q]
           exp == FullSeconds(t)
           credentials == [role |-> req[q].role, exp |-> exp, reported |-> NoTime]
<1>1. stage[q] = "issue" /\ issued' = [issued EXCEPT ![q] = credentials]
  BY DEF NewToken
<1>2. /\ issued[q] = None /\ DOMAIN issued = Slot /\ now \in Int /\ duration[q] \in Int
      /\ req[q].role \in Role
  BY <1>1, Running, InputIs
<1>3. exp \in Int /\ t - Second < exp /\ exp <= t
  <2>1. t \in Int
    BY <1>2
  <2>. HIDE DEF t
  <2>. QED
    BY <2>1, FullSecondsIs
<1>4. MinDuration <= duration[q] /\ duration[q] <= MaxDuration
  BY <1>1 DEF IInv, StagesRelyOn
<1>5. credentials \in Credentials
  BY <1>2, <1>3 DEF Credentials
<1>6. /\ issued'[q] = credentials /\ DOMAIN issued' = Slot
      /\ \A p \in Slot \ {q} : issued'[p] = issued[p]
  BY <1>1, <1>2
<1>7. credentials # None
  BY <1>5, CredentialsAssumption
<1>8. /\ MinDuration \in Int /\ MaxDuration \in Int /\ Second \in Int
      /\ credentials.exp = exp /\ credentials.role = req[q].role
  BY STSAssumption
<1>. HIDE DEF exp, credentials
<1>. QED
  BY <1>2, <1>3, <1>4, <1>5, <1>6, <1>7, <1>8

LEMMA NewTokenKeeps ==
    ASSUME IInv, NEW q \in Slot, NewToken(q), UNCHANGED <<issuers, now, policyVars>>
    PROVE  IInv'
<1>1. /\ stage[q] = "issue" /\ stage' = [stage EXCEPT ![q] = "encode"]
      /\ UNCHANGED <<req, start, duration, err, wire, issuers, now, policyVars>>
  BY DEF NewToken, Goto
<1>2. /\ Trusted(q) /\ req[q].exp # NoTime /\ start[q] < req[q].exp
      /\ MinDuration <= duration[q] /\ duration[q] <= MaxDuration
  BY <1>1 DEF IInv, StagesRelyOn
<1>3. Trusted(q)' <=> Trusted(q)
  BY <1>1 DEF Trusted, SignedByIssuer
<1>4. /\ stage' \in [Slot -> Stage] /\ stage'[q] = "encode"
      /\ \A p \in Slot \ {q} : stage'[p] = stage[p]
  BY <1>1, Running DEF Stage
<1>5. StagesRelyOn(q)'
  BY <1>1, <1>2, <1>3, <1>4, NewTokenIs, Running DEF StagesRelyOn
<1>6. HandlerStep(q)
  BY <1>1, <1>4, <1>5, NewTokenIs, Running DEF HandlerStep
<1>. QED
  BY <1>6, HandlerStepKeeps

(* What the client is told is not before the expiry in the token.          *)
LEMMA NewAWSCredentialsIs ==
    ASSUME IInv, NEW q \in Slot, NewAWSCredentials(q)
    PROVE  /\ DOMAIN issued' = Slot /\ \A p \in Slot \ {q} : issued'[p] = issued[p]
           /\ issued[q] # None /\ issued'[q] # None /\ issued'[q] \in Credentials
           /\ issued'[q].role = issued[q].role /\ issued'[q].exp = issued[q].exp
           /\ issued'[q].reported \in Int /\ issued'[q].reported >= issued'[q].exp
<1> DEFINE reported == now + duration[q]
           credentials == [issued[q] EXCEPT !.reported = reported]
<1>1. stage[q] = "encode" /\ issued' = [issued EXCEPT ![q] = credentials]
  BY DEF NewAWSCredentials
<1>2. issued[q] # None /\ issued[q].exp <= reported
  BY <1>1 DEF IInv, StagesRelyOn
<1>3. issued[q] \in Credentials /\ DOMAIN issued = Slot /\ reported \in Int
  BY <1>1, <1>2, Running
<1>4. /\ credentials \in Credentials /\ credentials.role = issued[q].role
      /\ credentials.exp = issued[q].exp /\ credentials.reported = reported
      /\ issued[q].exp \in Int
  BY <1>3 DEF Credentials
<1>5. credentials # None
  BY <1>4, CredentialsAssumption
<1>. HIDE DEF credentials, reported
<1>6. /\ issued'[q] = credentials /\ DOMAIN issued' = Slot
      /\ \A p \in Slot \ {q} : issued'[p] = issued[p]
  BY <1>1, <1>3
<1>. QED
  BY <1>2, <1>3, <1>4, <1>5, <1>6

LEMMA NewAWSCredentialsKeeps ==
    ASSUME IInv, NEW q \in Slot, NewAWSCredentials(q), UNCHANGED <<issuers, now, policyVars>>
    PROVE  IInv'
<1>1. /\ stage[q] = "encode" /\ stage' = [stage EXCEPT ![q] = "done"]
      /\ wire' = [wire EXCEPT ![q] = 200]
      /\ UNCHANGED <<req, start, duration, err, issuers, now, policyVars>>
  BY DEF NewAWSCredentials, Goto
<1>2. /\ Trusted(q) /\ req[q].exp # NoTime /\ start[q] < req[q].exp
      /\ MinDuration <= duration[q] /\ duration[q] <= MaxDuration
  BY <1>1 DEF IInv, StagesRelyOn
<1>3. Trusted(q)' <=> Trusted(q)
  BY <1>1 DEF Trusted, SignedByIssuer
<1>4. /\ stage' \in [Slot -> Stage] /\ stage'[q] = "done"
      /\ wire' \in [Slot -> {0, 200, 400, 500}]
      /\ \A p \in Slot \ {q} : stage'[p] = stage[p] /\ wire'[p] = wire[p]
  BY <1>1, Running DEF Stage
<1>5. StagesRelyOn(q)'
  BY <1>1, <1>2, <1>3, <1>4, NewAWSCredentialsIs, Running DEF StagesRelyOn
<1>6. issued'[q].reported # NoTime
  BY NewAWSCredentialsIs, STSAssumption
<1>7. HandlerStep(q)
  BY <1>1, <1>4, <1>5, <1>6, NewAWSCredentialsIs, Running DEF HandlerStep
<1>. QED
  BY <1>7, HandlerStepKeeps

----------------------------------------------------------------------------
(* The other steps                                                         *)

LEMMA ArriveKeeps ==
    ASSUME IInv, NEW q \in Slot, NEW r \in Inputs, Arrive(q, r),
           UNCHANGED <<issuers, now, policyVars>>
    PROVE  IInv'
<1>1. /\ stage[q] = "new" /\ stage' = [stage EXCEPT ![q] = "form"]
      /\ req' = [req EXCEPT ![q] = r] /\ start' = [start EXCEPT ![q] = now]
      /\ UNCHANGED <<duration, issued, err, wire, issuers, now, policyVars>>
  BY DEF Arrive, Goto
<1>2. TypeOK /\ wire[q] = 0 /\ issued[q] = None
  BY <1>1 DEF IInv, StagesRelyOn
<1>3. /\ stage' \in [Slot -> Stage] /\ req' \in [Slot -> Inputs \cup {None}]
      /\ start' \in [Slot -> 0 .. MaxTime] /\ now \in Int
      /\ stage'[q] = "form" /\ req'[q] = r /\ start'[q] = now
      /\ \A p \in Slot \ {q} : stage'[p] = stage[p] /\ req'[p] = req[p] /\ start'[p] = start[p]
  BY <1>1, <1>2, STSAssumption DEF TypeOK, Stage
<1>4. TypeOK'
  <2>1. \A p \in Slot : wire'[p] = 200 /\ req'[p].form # "get" =>
           issued'[p] # None /\ issued'[p].reported # NoTime
    BY <1>1, <1>2, <1>3 DEF TypeOK
  <2>2. /\ DOMAIN issued' = Slot /\ \A p \in Slot : issued'[p] # None => issued'[p] \in Credentials
        /\ duration' \in [Slot -> -Wrap .. Wrap - 1] /\ err' \in [Slot -> DOMAIN Status \cup {"-"}]
        /\ wire' \in [Slot -> {0, 200, 400, 500}] /\ now' \in 0 .. MaxTime
    BY <1>1, <1>2 DEF TypeOK
  <2>3. /\ policy' \in [Role -> Policy \cup {None}] /\ served' \in [Role -> Policy \cup {None}]
        /\ changed' \in [Role -> BOOLEAN]
    BY <1>1, <1>2 DEF TypeOK, policyVars
  <2>. QED
    BY <1>3, <2>1, <2>2, <2>3, Zenon DEF TypeOK
<1>5. ASSUME NEW p \in Slot \ {q}
      PROVE  StagesRelyOn(p)'
  <2>1. StagesRelyOn(p) /\ (Trusted(p)' <=> Trusted(p))
    BY <1>1, <1>3 DEF IInv, Trusted, SignedByIssuer
  <2>. QED
    BY <1>1, <1>3, <2>1 DEF StagesRelyOn
<1>6. StagesRelyOn(q)'
  BY <1>1, <1>2, <1>3 DEF StagesRelyOn
<1>7. IssuersLoaded' /\ \A role \in Role : (changed[role] \/ Policies!Current(role))'
  BY <1>1 DEF IInv, IssuersLoaded, Policies!Current, policyVars
<1>. QED
  BY <1>4, <1>5, <1>6, <1>7 DEF IInv

(* What is known of a request stays true while time passes.                *)
LEMMA TickKeeps ==
    ASSUME IInv, Tick
    PROVE  IInv'
<1>1. UNCHANGED <<reqVars, issuers, policyVars>> /\ now' = now + 1 /\ now < MaxTime
  BY DEF Tick
<1>2. TypeOK /\ TypeOK' /\ now \in Int
  BY <1>1, STSAssumption DEF IInv, TypeOK, reqVars, policyVars
<1>3. ASSUME NEW q \in Slot
      PROVE  StagesRelyOn(q)'
  <2>1. CASE stage[q] = "new"
    BY <1>1, <1>2, <2>1 DEF IInv, StagesRelyOn, reqVars
  <2>2. CASE stage[q] # "new"
    <3>1. StagesRelyOn(q) /\ start[q] \in Int /\ req[q].nbf \in Int /\ duration[q] \in Int
      BY <2>2, Running, InputIs DEF IInv
    <3>2. Trusted(q) => Trusted(q)'
      BY <1>1, <1>2, <3>1 DEF Trusted, SignedByIssuer, reqVars
    <3>3. issued[q] # None => issued[q].exp \in Int
      BY <1>2 DEF TypeOK, Credentials
    <3>. QED
      BY <1>1, <1>2, <3>1, <3>2, <3>3 DEF StagesRelyOn, reqVars
  <2>. QED
    BY <2>1, <2>2
<1>4. IssuersLoaded' /\ \A r \in Role : (changed[r] \/ Policies!Current(r))'
  BY <1>1 DEF IInv, IssuersLoaded, Policies!Current, policyVars
<1>. QED
  BY <1>2, <1>3, <1>4 DEF IInv

(* PolicyRegister keeps what is served current, or marked.                 *)
LEMMA RegisterKeeps ==
    ASSUME TypeOK, \A r \in Role : changed[r] \/ Policies!Current(r), Policies!Next
    PROVE  \A r \in Role : (changed[r] \/ Policies!Current(r))'
<1>1. PICK r \in Role : Policies!Edit(r) \/ Policies!Serve(r)
  BY DEF Policies!Next
<1>2. Policies!Current(r)' \/ changed'[r]
  BY <1>1 DEF Policies!Edit, Policies!Serve
<1>3. ASSUME NEW s \in Role \ {r}
      PROVE  (changed[s] \/ Policies!Current(s))'
  <2>1. changed[s] \/ Policies!Current(s)
    OBVIOUS
  <2>2. policy'[s] = policy[s] /\ served'[s] = served[s] /\ changed'[s] = changed[s]
    BY <1>1 DEF Policies!Edit, Policies!Serve, TypeOK
  <2>. QED
    BY <2>1, <2>2 DEF Policies!Current
<1>. QED
  BY <1>2, <1>3

LEMMA EditPoliciesKeeps ==
    ASSUME IInv, EditPolicies
    PROVE  IInv'
<1>1. UNCHANGED <<reqVars, issuers, now>>
  BY DEF EditPolicies
<1>2. TypeOK' /\ IssuersLoaded'
  <2>1. PICK r \in Role : Policies!Edit(r) \/ Policies!Serve(r)
    BY DEF EditPolicies, Policies!Next
  <2>2. /\ policy' \in [Role -> Policy \cup {None}] /\ served' \in [Role -> Policy \cup {None}]
        /\ changed' \in [Role -> BOOLEAN]
    BY <2>1 DEF IInv, TypeOK, Policies!Edit, Policies!Serve
  <2>. QED
    BY <1>1, <2>2 DEF IInv, TypeOK, IssuersLoaded, reqVars
<1>3. ASSUME NEW q \in Slot
      PROVE  StagesRelyOn(q)'
  BY <1>1 DEF IInv, StagesRelyOn, Trusted, SignedByIssuer, reqVars
<1>4. \A r \in Role : (changed[r] \/ Policies!Current(r))'
  BY RegisterKeeps DEF IInv, EditPolicies
<1>. QED
  BY <1>2, <1>3, <1>4 DEF IInv

LEMMA NextKeeps == IInv /\ [Next]_vars => IInv'
<1>. SUFFICES ASSUME IInv, [Next]_vars PROVE IInv'
  OBVIOUS
<1>1. ASSUME NEW q \in Slot, Client(q)
      PROVE  IInv'
  BY <1>1, ArriveKeeps DEF Client
<1>2. ASSUME NEW q \in Slot, Handle(q)
      PROVE  IInv'
  BY <1>2, JustLogKeeps, ProcessSTSPostKeeps, CheckTokenKeeps, CalculateDurationKeeps,
     PanicNoExpiryKeeps, CheckRoleKeeps, NewTokenKeeps, NewAWSCredentialsKeeps DEF Handle
<1>3. CASE Tick
  BY <1>3, TickKeeps
<1>4. CASE EditPolicies
  BY <1>4, EditPoliciesKeeps
<1>5. CASE UNCHANGED vars
  BY <1>5 DEF vars, reqVars, policyVars, IInv, TypeOK, IssuersLoaded, StagesRelyOn, Trusted,
     SignedByIssuer, Policies!Current
<1>. QED
  BY <1>1, <1>2, <1>3, <1>4, <1>5 DEF Next

----------------------------------------------------------------------------
(* The theorems                                                            *)

(* The inductive invariant: the types, and what each stage of the handler  *)
(* can rely on about the request it handles.                               *)
THEOREM HandlerInvariant == Spec => []IInv
BY InitIInv, NextKeeps, PTL DEF Spec

(* The variables have their types; a response of success has credentials.  *)
THEOREM HandlerTypes == Spec => []TypeOK
<1>1. IInv => TypeOK
  BY DEF IInv
<1>. QED
  BY <1>1, HandlerInvariant, PTL

(* Whatever providers are configured, credentials are only made for a token*)
(* of one of them, signed with its key, while that is valid (GetKeyFunc,   *)
(* ExtractOIDCTokenClaims).                                                *)
THEOREM OnlyTrustedGetCredentials == Spec => []IssuedForTrustedToken
<1>1. IInv => IssuedForTrustedToken
  <2>. SUFFICES ASSUME IInv, NEW q \in Slot, issued[q] # None
       PROVE  /\ \E p \in Provider : ProviderKey[p] = req[q].key /\ req[q].iss \in {p, Iss[p]}
              /\ req[q].nbf <= now /\ start[q] < req[q].exp
    BY DEF IssuedForTrustedToken
  <2>1. Trusted(q) /\ start[q] < req[q].exp
    BY DEF IInv, StagesRelyOn
  <2>2. CASE req[q].iss \in DOMAIN issuers
    <3>1. issuers[req[q].iss] \in Provider /\ Iss[issuers[req[q].iss]] = req[q].iss
      BY <2>2 DEF IInv, IssuersLoaded
    <3>. QED
      BY <2>1, <2>2, <3>1 DEF Trusted, SignedByIssuer
  <2>3. CASE req[q].iss \notin DOMAIN issuers
    BY <2>1, <2>3 DEF Trusted, SignedByIssuer
  <2>. QED
    BY <2>2, <2>3
<1>. QED
  BY <1>1, HandlerInvariant, PTL

(* The client is never told to give a session up before it expires         *)
(* (NewAWSCredentials).                                                    *)
THEOREM ExpirationCoversToken == Spec => []ReportedCoversToken
<1>1. IInv => ReportedCoversToken
  BY DEF IInv, StagesRelyOn, ReportedCoversToken
<1>. QED
  BY <1>1, HandlerInvariant, PTL

(* Steps of the handler that make no credentials.                          *)
LEMMA OnlyNewToken ==
    ASSUME IInv, [Next]_vars, NEW q \in Slot, issued[q] = None, issued'[q] # None
    PROVE  NewToken(q)
<1>1. issued' # issued
  OBVIOUS
<1>2. PICK p \in Slot : NewToken(p) \/ NewAWSCredentials(p)
  BY <1>1 DEF Next, vars, reqVars, Client, Arrive, Handle, JustLog, ProcessSTSPost, CheckToken,
     CalculateDuration, PanicNoExpiry, CheckRole, Tick, EditPolicies
<1>3. p = q
  BY <1>2, NewTokenIs, NewAWSCredentialsIs
<1>. QED
  BY <1>2, <1>3, NewAWSCredentialsIs

(* Whatever limits are configured and whatever duration is asked for, also *)
(* one that overflows, a session lasts as long as the limits allow         *)
(* (calculateFinalDurationSeconds).                                        *)
THEOREM LifetimesAreLimited == Spec => SessionWithinLimits
<1>1. IInv /\ [Next]_vars =>
          \A q \in Slot : issued[q] = None /\ issued'[q] # None =>
              /\ issued'[q].exp - now > MinDuration - Second
              /\ issued'[q].exp - now <= MaxDuration
  BY OnlyNewToken, NewTokenIs
<1>. QED
  BY <1>1, HandlerInvariant, PTL DEF Spec, SessionWithinLimits

(* However the policies are edited, a role is only handed out while it has *)
(* a policy, or a change of that is still to be dealt with or was missed by*)
(* the cache (DoesPolicyExist).                                            *)
THEOREM OnlyRolesWithPolicy == Spec => RoleHasPolicy
<1>1. ASSUME IInv, [Next]_vars, NEW q \in Slot, stage[q] = "role", stage'[q] = "issue"
      PROVE  changed[req[q].role] \/ policy[req[q].role] \notin {None} \cup Unparsable
  <2>1. PICK p \in Slot : Handle(p) /\ stage'[q] # stage[q]
    BY <1>1 DEF Next, vars, reqVars, Client, Arrive, Goto, IInv, TypeOK, Tick, EditPolicies
  <2>2. CheckRole(q)
    <3>1. stage \in [Slot -> Stage]
      BY <1>1 DEF IInv, TypeOK
    <3>2. ASSUME NEW s, stage' = [stage EXCEPT ![p] = s]
          PROVE  p = q /\ s = "issue"
      BY <1>1, <2>1, <3>1, <3>2
    <3>3. ~ (stage[p] = "form") /\ ~ (stage[p] = "token") /\ ~ (stage[p] = "duration")
      <4>1. p = q
        BY <2>1, <3>2 DEF Handle, JustLog, ProcessSTSPost, CheckToken, CalculateDuration,
           PanicNoExpiry, CheckRole, NewToken, NewAWSCredentials, Goto, FailOr, Fail
      <4>. QED
        BY <1>1, <4>1
    <3>4. CheckRole(p) \/ NewToken(p) \/ NewAWSCredentials(p)
      BY <2>1, <3>3 DEF Handle, JustLog, ProcessSTSPost, CheckToken, CalculateDuration,
         PanicNoExpiry
    <3>. QED
      BY <3>2, <3>4 DEF CheckRole, NewToken, NewAWSCredentials, Goto, FailOr, Fail
  <2>3. req[q].role \in Role
    BY <1>1, Running, InputIs
  <2>4. PICK pol \in Answers(req[q].role) : ~ PolicyRejected(pol)
    BY <1>1, <2>2 DEF CheckRole, FailOr, Fail, Goto, IInv, TypeOK
  <2>5. changed[req[q].role] \/ served[req[q].role] \in {None, policy[req[q].role]}
    BY <1>1, <2>3 DEF IInv, Policies!Current
  <2>. QED
    BY <2>4, <2>5 DEF Answers, PolicyRejected
<1>2. IInv /\ [Next]_vars =>
          \A q \in Slot : stage[q] = "role" /\ stage'[q] = "issue" =>
              LET role == req[q].role IN
              changed[role] \/ policy[role] \notin {None} \cup Unparsable
  BY <1>1
<1>. QED
  BY <1>2, HandlerInvariant, PTL DEF Spec, RoleHasPolicy

----------------------------------------------------------------------------
(* What becomes of a request, once and for all                             *)

(* How far a handler has got.                                              *)
Rank == [new |-> 0, form |-> 1, token |-> 2, duration |-> 3, role |-> 4, issue |-> 5,
         encode |-> 6, done |-> 7]

(* A step of a handler is one of its own request, to a later stage.        *)
LEMMA HandlerMoves ==
    ASSUME IInv, NEW q \in Slot, Handle(q)
    PROVE  /\ UNCHANGED <<req, start>>
           /\ \A p \in Slot \ {q} : stage'[p] = stage[p]
           /\ stage[q] \in Stage \ {"new"} /\ stage'[q] \in Stage \ {"new"}
           /\ Rank[stage'[q]] > Rank[stage[q]]
<1>1. stage \in [Slot -> Stage]
  BY DEF IInv, TypeOK
<1>2. UNCHANGED <<req, start>>
  BY DEF Handle, JustLog, ProcessSTSPost, CheckToken, CalculateDuration, PanicNoExpiry,
     CheckRole, NewToken, NewAWSCredentials
<1>3. \/ stage[q] = "form" /\ (Goto(q, "done") \/ Goto(q, "token"))
      \/ stage[q] = "token" /\ (Goto(q, "done") \/ Goto(q, "duration"))
      \/ stage[q] = "duration" /\ (Goto(q, "done") \/ Goto(q, "role"))
      \/ stage[q] = "role" /\ (Goto(q, "done") \/ Goto(q, "issue"))
      \/ stage[q] = "issue" /\ Goto(q, "encode")
      \/ stage[q] = "encode" /\ Goto(q, "done")
  BY Zenon DEF Handle, JustLog, ProcessSTSPost, CheckToken, CalculateDuration, PanicNoExpiry,
     CheckRole, NewToken, NewAWSCredentials, FailOr, Fail
<1>. QED
  BY <1>1, <1>2, <1>3 DEF Goto, Stage, Rank

(* What other steps do to the requests.                                    *)
LEMMA OtherMoves ==
    ASSUME IInv, [Next]_vars, NEW q \in Slot, stage[q] # "new"
    PROVE  \/ Handle(q)
           \/ stage'[q] = stage[q] /\ req'[q] = req[q] /\ start'[q] = start[q]
<1>1. stage \in [Slot -> Stage]
  BY DEF IInv, TypeOK
<1>2. ASSUME NEW p \in Slot, Client(p)
      PROVE  stage'[q] = stage[q] /\ req'[q] = req[q] /\ start'[q] = start[q]
  BY <1>1, <1>2 DEF Client, Arrive, Goto
<1>3. ASSUME NEW p \in Slot \ {q}, Handle(p)
      PROVE  stage'[q] = stage[q] /\ req'[q] = req[q] /\ start'[q] = start[q]
  BY <1>3, HandlerMoves
<1>4. Tick \/ EditPolicies \/ UNCHANGED vars => UNCHANGED reqVars
  BY DEF Tick, EditPolicies, vars
<1>. QED
  BY <1>2, <1>3, <1>4 DEF Next, reqVars

(* The role of a session is the one its request asked for, and its claims  *)
(* do not change any more (newProxyIssuedToken).                           *)
RoleAsAsked == \A q \in Slot : issued[q] # None => issued[q].role = req[q].role

ClaimsStay ==
    [][\A q \in Slot : issued[q] # None =>
          /\ issued'[q] # None /\ issued'[q].role = issued[q].role /\ issued'[q].exp = issued[q].exp
          /\ req'[q] = req[q] /\ start'[q] = start[q]]_vars

LEMMA ClaimsKept ==
    ASSUME IInv, [Next]_vars, NEW q \in Slot, issued[q] # None
    PROVE  /\ issued'[q] # None /\ issued'[q].role = issued[q].role /\ issued'[q].exp = issued[q].exp
           /\ req'[q] = req[q] /\ start'[q] = start[q]
<1>1. stage[q] # "new"
  BY DEF IInv, StagesRelyOn
<1>2. CASE issued' = issued
  BY <1>1, <1>2, OtherMoves, HandlerMoves
<1>3. CASE issued' # issued
  <2>1. PICK p \in Slot : NewToken(p) \/ NewAWSCredentials(p)
    BY <1>3, ZenonT(60) DEF Next, vars, reqVars, Client, Arrive, Handle, JustLog, ProcessSTSPost,
       CheckToken, CalculateDuration, PanicNoExpiry, CheckRole, Tick, EditPolicies
  <2>2. /\ issued'[q] # None /\ issued'[q].role = issued[q].role /\ issued'[q].exp = issued[q].exp
    BY <2>1, NewTokenIs, NewAWSCredentialsIs
  <2>. QED
    BY <1>1, <2>2, OtherMoves, HandlerMoves
<1>. QED
  BY <1>2, <1>3

LEMMA RoleKept == IInv /\ RoleAsAsked /\ [Next]_vars => RoleAsAsked'
<1>. SUFFICES ASSUME IInv, RoleAsAsked, [Next]_vars, NEW q \in Slot, issued'[q] # None
     PROVE  issued'[q].role = req'[q].role
  BY DEF RoleAsAsked
<1>1. CASE issued[q] # None
  BY <1>1, ClaimsKept DEF RoleAsAsked
<1>2. CASE issued[q] = None
  <2>1. NewToken(q)
    BY <1>2, OnlyNewToken
  <2>. QED
    BY <2>1, NewTokenIs DEF NewToken
<1>. QED
  BY <1>1, <1>2

(* Whatever requests are handled at the same time, credentials are for the *)
(* role their own request asked for (newProxyIssuedToken).                 *)
THEOREM OwnRole == Spec => []RoleAsAsked
<1>1. Init => RoleAsAsked
  BY DEF Init, RoleAsAsked
<1>. QED
  BY <1>1, RoleKept, HandlerInvariant, PTL DEF Spec

(* What a session token says never changes, nor does the request it answers*)
(* (newProxyIssuedToken, NewAWSCredentials).                               *)
THEOREM ClaimsAreFixed == Spec => ClaimsStay
<1>1. IInv /\ [Next]_vars =>
          \A q \in Slot : issued[q] # None =>
              /\ issued'[q] # None /\ issued'[q].role = issued[q].role /\ issued'[q].exp = issued[q].exp
              /\ req'[q] = req[q] /\ start'[q] = start[q]
  BY ClaimsKept
<1>. QED
  BY <1>1, HandlerInvariant, PTL DEF Spec, ClaimsStay

----------------------------------------------------------------------------
(* What Answered needs besides fairness                                    *)

(* A handler that has ended has answered its request, unless it panicked   *)
(* on a token without exp (processSTSPost, justLog).                       *)
EndsAnswered ==
    \A q \in Slot : stage[q] = "done" /\ req[q].exp # NoTime => wire[q] # 0

(* A handler never goes back to a stage it has been through, and what it   *)
(* has answered it does not take back.  With the fairness of FairSpec,     *)
(* which is left to TLC, this and EndsAnswered make Answered.              *)
OnlyForward ==
    [][\A q \in Slot :
          /\ stage'[q] # stage[q] => Rank[stage'[q]] > Rank[stage[q]]
          /\ wire[q] # 0 => wire'[q] = wire[q]]_vars

(* How a step of a handler answers its request.                            *)
LEMMA HandlerAnswers ==
    ASSUME IInv, NEW q \in Slot, Handle(q)
    PROVE  /\ \A p \in Slot \ {q} : wire'[p] = wire[p]
           /\ wire[q] = 0
           /\ stage'[q] = "done" => wire'[q] # 0 \/ req[q].exp = NoTime
<1>1. stage \in [Slot -> Stage] /\ wire \in [Slot -> {0, 200, 400, 500}]
  BY DEF IInv, TypeOK
<1>2. \/ /\ UNCHANGED wire
         /\ \/ stage[q] = "duration" /\ req[q].exp = NoTime
            \/ \E s \in Stage \ {"done"} : Goto(q, s)
      \/ wire' = [wire EXCEPT ![q] = 200]
      \/ \E code \in DOMAIN Status : wire' = [wire EXCEPT ![q] = Status[code]]
  <2>1. /\ \A s \in {"token", "duration", "role", "issue", "encode"} : s \in Stage \ {"done"}
        /\ \A code \in {"MissingParameter", "InvalidParameterValue", "InternalError"} : code \in DOMAIN Status
    BY DEF Stage, Status
  <2>. QED
    BY <2>1, ZenonT(60) DEF Handle, JustLog, ProcessSTSPost, CheckToken, CalculateDuration,
       PanicNoExpiry, CheckRole, NewToken, NewAWSCredentials, FailOr, Fail
<1>3. \A code \in DOMAIN Status : Status[code] \in {400, 500}
  BY DEF Status
<1>4. stage[q] # "done" /\ wire[q] = 0
  BY HandlerMoves DEF IInv, StagesRelyOn, Rank, Stage
<1>. QED
  BY <1>1, <1>2, <1>3, <1>4 DEF Goto, Stage

LEMMA WireStays ==
    ASSUME IInv, [Next]_vars, NEW q \in Slot, ~ Handle(q)
    PROVE  wire'[q] = wire[q]
<1>1. ASSUME NEW p \in Slot, Client(p)
      PROVE  wire' = wire
  BY <1>1 DEF Client, Arrive
<1>2. ASSUME NEW p \in Slot \ {q}, Handle(p)
      PROVE  wire'[q] = wire[q]
  BY <1>2, HandlerAnswers
<1>3. Tick \/ EditPolicies \/ UNCHANGED vars => UNCHANGED reqVars
  BY DEF Tick, EditPolicies, vars
<1>. QED
  BY <1>1, <1>2, <1>3 DEF Next, reqVars

LEMMA EndsAnsweredKept == IInv /\ EndsAnswered /\ [Next]_vars => EndsAnswered'
<1>. SUFFICES ASSUME IInv, EndsAnswered, [Next]_vars, NEW q \in Slot,
                     stage'[q] = "done", req'[q].exp # NoTime
     PROVE  wire'[q] # 0
  BY DEF EndsAnswered
<1>1. CASE stage[q] = "new"
  <2>2. PICK p \in Slot : Client(p) \/ Handle(p)
    BY <1>1 DEF Next, vars, reqVars, Tick, EditPolicies
  <2>3. stage \in [Slot -> Stage]
    BY DEF IInv, TypeOK
  <2>4. CASE Client(p)
    BY <1>1, <2>3, <2>4 DEF Client, Arrive, Goto
  <2>5. CASE Handle(p)
    BY <1>1, <2>5, HandlerMoves
  <2>. QED
    BY <2>2, <2>4, <2>5
<1>2. CASE stage[q] # "new" /\ Handle(q)
  BY <1>2, HandlerMoves, HandlerAnswers
<1>3. CASE stage[q] # "new" /\ ~ Handle(q)
  <2>1. stage[q] = "done" /\ req'[q] = req[q]
    BY <1>3, OtherMoves
  <2>2. wire'[q] = wire[q]
    BY <1>3, WireStays
  <2>. QED
    BY <2>1, <2>2 DEF EndsAnswered
<1>. QED
  BY <1>1, <1>2, <1>3

(* Whatever is sent, a handler does not end without an answer, a token     *)
(* without exp excepted (processSTSPost).                                  *)
THEOREM EndIsAnswer == Spec => []EndsAnswered
<1>1. Init => EndsAnswered
  BY DEF Init, EndsAnswered
<1>. QED
  BY <1>1, EndsAnsweredKept, HandlerInvariant, PTL DEF Spec

(* No handler goes back to what it has done already, or answers twice, so  *)
(* that it ends after seven steps (processSTSPost).                        *)
THEOREM HandlersGoForward == Spec => OnlyForward
<1>1. ASSUME IInv, [Next]_vars, NEW q \in Slot
      PROVE  /\ stage'[q] # stage[q] => Rank[stage'[q]] > Rank[stage[q]]
             /\ wire[q] # 0 => wire'[q] = wire[q]
  <2>1. CASE Handle(q)
    BY <1>1, <2>1, HandlerMoves, HandlerAnswers
  <2>2. CASE ~ Handle(q) /\ stage[q] # "new"
    BY <1>1, <2>2, OtherMoves, WireStays
  <2>3. CASE stage[q] = "new"
    <3>1. wire[q] = 0 /\ stage'[q] \in Stage
      BY <1>1, <2>3, NextKeeps DEF IInv, TypeOK, StagesRelyOn
    <3>. QED
      BY <2>3, <3>1 DEF Stage, Rank
  <2>. QED
    BY <2>1, <2>2, <2>3
<1>2. IInv /\ [Next]_vars =>
          \A q \in Slot : /\ stage'[q] # stage[q] => Rank[stage'[q]] > Rank[stage[q]]
                          /\ wire[q] # 0 => wire'[q] = wire[q]
  BY <1>1
<1>. QED
  BY <1>2, HandlerInvariant, PTL DEF Spec, OnlyForward
=============================================================================

--------------------------- MODULE SessionsProofs ---------------------------
(***************************************************************************)
(* Theorems about Sessions, for any number of requests to both proxies, any*)
(* providers, clients, policies and backends: the S3 proxy only sees what  *)
(* it would see on its own, and the two together implement Access.         *)
(***************************************************************************)
EXTENDS Sessions, STSProofs

----------------------------------------------------------------------------
(* The S3 proxy of S3Proxy: its assumptions hold, so that its theorems can *)
(* be used.                                                                *)

LEMMA RequestsAre == S3Inputs!Request = S3!Request
BY DEF S3Inputs!Request, S3!Request, S3Inputs!Operation, S3!Operation, S3Inputs!Method, S3!Method,
       S3Inputs!AuthParams, S3!AuthParams, S3Inputs!Credential, S3!Credential,
       S3Inputs!Param, S3!Param, S3Inputs!Headers, S3!Headers,
       S3Inputs!Name, S3!Name, S3Inputs!Value, S3!Value

LEMMA S3Assumptions ==
    /\ /\ S3Inputs!Request \subseteq S3!Request
       /\ None \notin Policy /\ Unparsable \subseteq Policy
       /\ Grants \in [Policy -> SUBSET ({"s3:GetObject", "s3:PutObject"} \X Regions)]
       /\ UpstreamStatus \subseteq {200, 403, 404, 500}
       /\ MaxTime \in Nat
    /\ /\ DefaultBackend \in Backends /\ Backends \subseteq Regions /\ "" \in Regions
       /\ Streaming \subseteq Backends /\ WithToken \subseteq Backends
       /\ NoBackend \notin Backends
       /\ RegionToDefault \in BOOLEAN /\ LegacyCredentials \in BOOLEAN
       /\ Grace \in Nat
    /\ None \notin S3!Sent
<1>1. S3Inputs!Request \subseteq S3!Request
  BY RequestsAre
<1>. QED
  BY <1>1, SessionsAssumption, STSAssumption, SentAssumption

LEMMA S3Init == S3!Init => S3!IInv
BY S3!InitIInv, S3Assumptions, Zenon

LEMMA S3Keeps == S3!IInv /\ [S3!Next]_(S3!vars) => S3!IInv'
BY S3!NextKeeps, S3Assumptions, Zenon

----------------------------------------------------------------------------
(* Every step is one of each proxy, or does not concern it                 *)

LEMMA STSSteps == [SessionsNext]_allVars => [Next]_vars
BY DEF SessionsNext, allVars, STSStep, S3Client, S3Step, Next

LEMMA SentAre ==
    /\ \A r \in Uses : r \in S3Inputs!Request
    /\ \A r \in Forged : r \in S3Inputs!Request /\ ~ r.genuine
<1>1. Uses \cup Forged \subseteq S3Inputs!Request /\ \A r \in Forged : ~ r.genuine
  BY SessionsAssumption
<1>. QED
  BY <1>1

(* A client's request is one the S3 proxy is proved for.                   *)
LEMMA ClientSends ==
    ASSUME IInv, NEW p \in S3Slot, S3Client(p)
    PROVE  \E r \in S3Inputs!Request :
              /\ S3!Arrive(p, r)
              /\ r.genuine => [role |-> r.role, exp |-> r.exp] \in Granted
<1>1. (\E q \in Slot : UseCredentials(p, q)) \/ Forge(p)
  BY DEF S3Client
<1>2. ASSUME NEW q \in Slot, UseCredentials(p, q)
      PROVE  \E r \in S3Inputs!Request :
                /\ S3!Arrive(p, r)
                /\ r.genuine => [role |-> r.role, exp |-> r.exp] \in Granted
  <2>1. PICK u \in Uses :
           /\ wire[q] = 200 /\ issued[q] # None
           /\ S3!Arrive(p, [u EXCEPT !.role = issued[q].role, !.exp = issued[q].exp])
    BY <1>2, Zenon DEF UseCredentials
  <2> DEFINE r == [u EXCEPT !.role = issued[q].role, !.exp = issued[q].exp]
  <2>2. issued[q].role \in Role /\ issued[q].exp \in Int
    BY <2>1 DEF IInv, TypeOK, Credentials
  <2>3. u \in S3Inputs!Request
    BY SentAre
  <2>4. r \in S3Inputs!Request /\ r.role = issued[q].role /\ r.exp = issued[q].exp
    BY <2>2, <2>3 DEF S3Inputs!Request
  <2>5. [role |-> r.role, exp |-> r.exp] \in Granted
    BY <2>1, <2>4 DEF Granted
  <2>. QED
    BY <2>1, <2>4, <2>5
<1>3. CASE Forge(p)
  BY <1>3, SentAre DEF Forge
<1>. QED
  BY <1>1, <1>2, <1>3

LEMMA S3Steps == IInv /\ [SessionsNext]_allVars => [S3!Next]_(S3!vars)
<1>. SUFFICES ASSUME IInv, [SessionsNext]_allVars
     PROVE  [S3!Next]_(S3!vars)
  OBVIOUS
<1>1. ASSUME NEW q \in Slot, STSStep(q)
      PROVE  UNCHANGED S3!vars
  BY <1>1 DEF STSStep, Client, Handle, policyVars, s3Vars, S3!vars, S3!reqVars, S3!policyVars
<1>2. ASSUME NEW p \in S3Slot, S3Client(p)
      PROVE  S3!Next
  <2>1. PICK r \in S3Inputs!Request : S3!Arrive(p, r)
    BY <1>2, ClientSends
  <2>2. UNCHANGED <<now, S3!policyVars>>
    BY <1>2 DEF S3Client, vars, policyVars, S3!policyVars
  <2>. QED
    BY <2>1, <2>2 DEF S3!Next, S3!Client
<1>3. ASSUME NEW p \in S3Slot, S3Step(p)
      PROVE  S3!Next
  BY <1>3 DEF S3Step, S3!Next
<1>4. CASE Tick /\ UNCHANGED s3Vars
  <2>1. S3!Tick
    BY <1>4 DEF Tick, policyVars, s3Vars, S3!Tick, S3!reqVars, S3!policyVars
  <2>. QED
    BY <2>1 DEF S3!Next
<1>5. CASE EditPolicies /\ UNCHANGED s3Vars
  <2>1. PICK role \in Role : Policies!Edit(role) \/ Policies!Serve(role)
    BY <1>5 DEF EditPolicies, Policies!Next
  <2>2. UNCHANGED <<S3!reqVars, s3metrics, now>>
    BY <1>5 DEF EditPolicies, s3Vars, S3!reqVars
  <2>3. CASE Policies!Edit(role)
    <3>1. S3!Policies!Edit(role)
      BY <2>3 DEF Policies!Edit, S3!Policies!Edit, S3!Policies!Current
    <3>. QED
      BY <2>2, <3>1 DEF S3!Next, S3!EditPolicies, S3!Policies!Next
  <2>4. CASE Policies!Serve(role)
    BY <2>2, <2>4 DEF Policies!Serve, S3!vars, S3!policyVars
  <2>. QED
    BY <2>1, <2>3, <2>4
<1>6. CASE UNCHANGED allVars
  BY <1>6 DEF allVars, vars, policyVars, s3Vars, S3!vars, S3!reqVars, S3!policyVars
<1>. QED
  BY <1>1, <1>2, <1>3, <1>4, <1>5, <1>6 DEF SessionsNext

----------------------------------------------------------------------------
(* The invariant: those of the two proxies, and that a token the S3 proxy  *)
(* has been sent, if the STS proxy has made it, is one of a session.       *)
Linked(p) ==
    s3stage[p] # "new" /\ s3req[p].genuine =>
        [role |-> s3req[p].role, exp |-> s3req[p].exp] \in Granted

SInv == IInv /\ S3!IInv /\ \A p \in S3Slot : Linked(p)

LEMMA InitSInv == SessionsInit => SInv
<1>. SUFFICES ASSUME SessionsInit PROVE SInv
  OBVIOUS
<1>1. IInv /\ S3!IInv
  BY InitIInv, S3Init DEF SessionsInit
<1>2. \A p \in S3Slot : Linked(p)
  BY DEF SessionsInit, S3!Init, Linked
<1>. QED
  BY <1>1, <1>2 DEF SInv

(* Sessions that have been granted stay, and are only granted by NewToken. *)
LEMMA GrantedSteps ==
    ASSUME IInv, [Next]_vars
    PROVE  \/ Granted' = Granted
           \/ \E q \in Slot : /\ NewToken(q) /\ now' = now
                              /\ Granted' = Granted \cup {[role |-> req[q].role, exp |-> issued'[q].exp]}
<1>1. CASE issued' = issued
  BY <1>1 DEF Granted
<1>2. CASE issued' # issued
  <2>1. PICK q \in Slot : (NewToken(q) \/ NewAWSCredentials(q)) /\ now' = now
    BY <1>2 DEF Next, vars, reqVars, Client, Arrive, Handle, JustLog, ProcessSTSPost, CheckToken,
       CalculateDuration, PanicNoExpiry, CheckRole, Tick, EditPolicies
  <2>2. CASE NewToken(q)
    <3>1. /\ issued[q] = None /\ issued'[q] # None /\ issued'[q].role = req[q].role
          /\ \A p \in Slot \ {q} : issued'[p] = issued[p]
      BY <2>2, NewTokenIs
    <3>2. Granted' = Granted \cup {[role |-> req[q].role, exp |-> issued'[q].exp]}
      BY <3>1 DEF Granted
    <3>. QED
      BY <2>1, <2>2, <3>2
  <2>3. CASE NewAWSCredentials(q)
    <3>1. /\ issued[q] # None /\ issued'[q] # None
          /\ issued'[q].role = issued[q].role /\ issued'[q].exp = issued[q].exp
          /\ \A p \in Slot \ {q} : issued'[p] = issued[p]
      BY <2>3, NewAWSCredentialsIs
    <3>. QED
      BY <3>1 DEF Granted
  <2>. QED
    BY <2>1, <2>2, <2>3
<1>. QED
  BY <1>1, <1>2

(* Of what makes a use, a step of a handler of the S3 proxy only sets sent *)
(* for its own request.                                                    *)
LEMMA S3StepIs ==
    ASSUME S3!IInv, NEW p \in S3Slot, S3Step(p)
    PROVE  /\ UNCHANGED <<vars, s3req, s3start>>
           /\ \A x \in S3Slot : s3stage'[x] # "new" => s3stage[x] # "new"
           /\ \/ s3sent' = s3sent
              \/ S3!Forward(p) /\ \A x \in S3Slot \ {p} : s3sent'[x] = s3sent[x]
<1>1. S3!TypeOK /\ UNCHANGED vars /\ (S3!Handle(p) \/ S3!Awaited(p))
  BY DEF S3Step, S3!IInv
<1>2. s3stage \in [S3Slot -> S3!Stage]
  BY <1>1, SMTT(60) DEF S3!TypeOK
<1>3. s3stage[p] # "new" /\ \E s : s3stage' = [s3stage EXCEPT ![p] = s]
  BY <1>1, ZenonT(60) DEF S3!Handle, S3!Awaited, S3!WriteErrorResponse, S3!RegisterOperation,
     S3!Panic, S3!AuthNNormal,
     S3!AuthNPresigned, S3!AuthNUrl, S3!VerifyClaims, S3!EvaluatePolicy, S3!Forward,
     S3!LogRequest,
     S3!UpstreamFails, S3!UpstreamAnswers, S3!FailOr, S3!Fail, S3!Goto
<1>4. /\ UNCHANGED <<s3req, s3start>>
      /\ s3sent' = s3sent \/ S3!Forward(p)
  BY <1>1 DEF S3!Handle, S3!Awaited, S3!WriteErrorResponse, S3!RegisterOperation, S3!Panic,
     S3!AuthNNormal,
     S3!AuthNPresigned, S3!AuthNUrl, S3!VerifyClaims, S3!EvaluatePolicy, S3!Forward,
     S3!LogRequest,
     S3!UpstreamFails, S3!UpstreamAnswers
<1>5. S3!Forward(p) => \A x \in S3Slot \ {p} : s3sent'[x] = s3sent[x]
  BY DEF S3!Forward
<1>. QED
  BY <1>1, <1>2, <1>3, <1>4, <1>5

LEMMA LinkedKeeps ==
    ASSUME SInv, [SessionsNext]_allVars, NEW x \in S3Slot
    PROVE  Linked(x)'
<1>1. Linked(x) /\ Granted \subseteq Granted'
  BY GrantedSteps, STSSteps DEF SInv
<1>2. ASSUME NEW p \in S3Slot, S3Client(p)
      PROVE  Linked(x)'
  <2>1. PICK r \in S3Inputs!Request :
           /\ S3!Arrive(p, r)
           /\ r.genuine => [role |-> r.role, exp |-> r.exp] \in Granted
    BY <1>2, ClientSends DEF SInv
  <2>2. /\ s3req \in [S3Slot -> S3!Request \cup {None}] /\ s3stage \in [S3Slot -> S3!Stage]
    BY DEF SInv, S3!IInv, S3!TypeOK
  <2>3. CASE x = p
    BY <1>1, <2>1, <2>2, <2>3 DEF S3!Arrive, Linked
  <2>4. CASE x # p
    BY <1>1, <2>1, <2>2, <2>4 DEF S3!Arrive, S3!Goto, Linked
  <2>. QED
    BY <2>3, <2>4
<1>3. ASSUME NEW p \in S3Slot, S3Step(p)
      PROVE  Linked(x)'
  BY <1>1, <1>3, S3StepIs DEF SInv, Linked
<1>4. CASE UNCHANGED s3Vars
  BY <1>1, <1>4 DEF s3Vars, Linked
<1>. QED
  BY <1>2, <1>3, <1>4 DEF SessionsNext, STSStep, allVars

LEMMA NextSInv == SInv /\ [SessionsNext]_allVars => SInv'
<1>. SUFFICES ASSUME SInv, [SessionsNext]_allVars PROVE SInv'
  OBVIOUS
<1>1. IInv'
  BY NextKeeps, STSSteps DEF SInv
<1>2. S3!IInv'
  BY S3Keeps, S3Steps DEF SInv
<1>. QED
  BY <1>1, <1>2, LinkedKeeps DEF SInv

----------------------------------------------------------------------------
(* Every step is one of Access, or a stutter                               *)

LEMMA NewTokenGrants ==
    ASSUME SInv, NEW q \in Slot, NewToken(q), now' = now, Used' = Used,
           Granted' = Granted \cup {[role |-> req[q].role, exp |-> issued'[q].exp]}
    PROVE  Promise!Grant
<1> DEFINE l == issued'[q].exp - now
<1>1. /\ issued'[q] \in Credentials /\ issued'[q].role = req[q].role
      /\ issued'[q].exp - now > MinDuration - Second
      /\ issued'[q].exp - now <= MaxDuration
  BY NewTokenIs DEF SInv
<1>2. now \in Int /\ issued'[q].exp \in Int /\ req[q].role \in Role
  BY <1>1 DEF SInv, IInv, TypeOK, Credentials
<1>3. MinDuration \in Int /\ MaxDuration \in Int /\ Second \in Int
  BY STSAssumption
<1>4. l \in (MinDuration - Second + 1) .. MaxDuration /\ now + l = issued'[q].exp
  BY <1>1, <1>2, <1>3
<1>5. Granted' = Granted \cup {[role |-> req[q].role, exp |-> now + l]}
  BY <1>4
<1>. QED
  BY <1>2, <1>4, <1>5 DEF Promise!Grant

LEMMA GraceIs == Grace \in Nat
BY SessionsAssumption

(* What is known of a request when it has been forwarded makes it a use.   *)
IsUse(p) ==
    \E s \in Granted, t \in 0 .. now :
        /\ s.role = s3req[p].role /\ t = s3start[p]
        /\ t < s.exp + IF Lenient(s3req[p]) THEN Grace ELSE 0

SentAreUses == \A p \in S3Slot : s3sent[p] # None => IsUse(p)

LEMMA SentIsUse == SInv => SentAreUses
<1>. SUFFICES ASSUME SInv, NEW p \in S3Slot, s3sent[p] # None
     PROVE  IsUse(p)
  BY DEF SentAreUses
<1> DEFINE r == s3req[p]
           s == [role |-> r.role, exp |-> r.exp]
<1>1. S3!ForwardedWasAuthentic /\ S3!StagesRelyOn(p) /\ S3!TypeOK /\ Linked(p)
  BY DEF SInv, S3!IInv
<1>2. r.genuine /\ s3start[p] < r.exp + IF Lenient(r) THEN Grace ELSE 0
  BY <1>1 DEF S3!ForwardedWasAuthentic, S3!TokenValid, Lenient
<1>3. s3stage[p] # "new" /\ s3start[p] <= now
  BY <1>1 DEF S3!StagesRelyOn
<1>4. s3start[p] \in 0 .. MaxTime /\ now \in 0 .. MaxTime
  BY <1>1 DEF S3!TypeOK
<1>5. s3start[p] \in 0 .. now
  BY <1>3, <1>4, STSAssumption
<1>6. s \in Granted
  BY <1>1, <1>2, <1>3 DEF Linked
<1>7. s.role = s3req[p].role /\ s.exp = s3req[p].exp
  OBVIOUS
<1>. QED
  BY <1>2, <1>5, <1>6, <1>7 DEF IsUse

LEMMA SentIsUseNext == SInv' => SentAreUses'
BY SentIsUse, PTL

LEMMA ForwardUses ==
    ASSUME SInv, SInv', NEW p \in S3Slot, S3Step(p)
    PROVE  [Promise!Next]_(Promise!avars)
<1>1. /\ UNCHANGED <<vars, s3req, s3start>>
      /\ \/ s3sent' = s3sent
         \/ S3!Forward(p) /\ \A x \in S3Slot \ {p} : s3sent'[x] = s3sent[x]
  BY S3StepIs DEF SInv
<1>2. UNCHANGED <<Granted, now>>
  BY <1>1 DEF vars, reqVars, Granted
<1>3. CASE s3sent' = s3sent
  <2>1. Used' = Used
    BY <1>1, <1>3 DEF Used
  <2>. QED
    BY <1>2, <2>1 DEF Promise!avars
<1>4. CASE S3!Forward(p) /\ \A x \in S3Slot \ {p} : s3sent'[x] = s3sent[x]
  <2>1. s3sent[p] = None
    BY <1>4 DEF SInv, S3!IInv, S3!StagesRelyOn, S3!Forward
  <2>2. CASE s3sent'[p] = None
    <3>1. Used' = Used
      BY <1>1, <1>4, <2>1, <2>2 DEF Used
    <3>. QED
      BY <1>2, <3>1 DEF Promise!avars
  <2>3. CASE s3sent'[p] # None
    <3> DEFINE lenient == Lenient(s3req[p])
               u == [role |-> s3req[p].role, at |-> s3start[p], lenient |-> lenient]
    <3>1. PICK s \in Granted', t \in 0 .. now' :
             /\ s.role = s3req'[p].role /\ t = s3start'[p]
             /\ t < s.exp + IF Lenient(s3req[p])' THEN Grace ELSE 0
      BY <2>3, SentIsUseNext DEF SentAreUses, IsUse
    <3>2. lenient \in BOOLEAN
      BY DEF Lenient, S3!IsPresigned
    <3>3. Used' = Used \cup {u}
      BY <1>1, <1>4, <2>1, <2>3 DEF Used
    <3>4. Lenient(s3req[p])' <=> lenient
      BY <1>1 DEF Lenient, S3!IsPresigned, S3!Read
    <3>5. /\ s \in Granted /\ t \in 0 .. now /\ s.role = s3req[p].role /\ t = s3start[p]
          /\ t < s.exp + IF lenient THEN Grace ELSE 0
      BY <1>1, <1>2, <3>1, <3>4
    <3>6. Used' = Used \cup {[role |-> s.role, at |-> t, lenient |-> lenient]}
      BY <3>3, <3>5
    <3>7. Promise!Use
      BY <1>2, <3>2, <3>5, <3>6 DEF Promise!Use
    <3>. QED
      BY <3>7 DEF Promise!Next
  <2>. QED
    BY <2>2, <2>3
<1>. QED
  BY <1>1, <1>3, <1>4

(* A new request to the S3 proxy has not been sent on.                     *)
LEMMA ClientUsesNothing ==
    ASSUME SInv, NEW p \in S3Slot, S3Client(p)
    PROVE  Used' = Used
<1>1. PICK r \in S3Inputs!Request : S3!Arrive(p, r)
  BY ClientSends DEF SInv
<1>2. /\ s3sent' = s3sent /\ s3sent[p] = None
      /\ \A x \in S3Slot \ {p} : s3req'[x] = s3req[x] /\ s3start'[x] = s3start[x]
  BY <1>1 DEF SInv, S3!IInv, S3!StagesRelyOn, S3!Arrive
<1>. QED
  BY <1>2 DEF Used

LEMMA Refines ==
    ASSUME SInv, SInv', [SessionsNext]_allVars
    PROVE  [Promise!Next]_(Promise!avars)
<1>1. CASE UNCHANGED s3Vars /\ now' = now
  <2>1. Used' = Used
    BY <1>1 DEF Used, s3Vars
  <2>2. CASE Granted' = Granted
    BY <1>1, <2>1, <2>2 DEF Promise!avars
  <2>3. CASE \E q \in Slot :
                /\ NewToken(q) /\ now' = now
                /\ Granted' = Granted \cup {[role |-> req[q].role, exp |-> issued'[q].exp]}
    BY <2>1, <2>3, NewTokenGrants DEF Promise!Next
  <2>. QED
    BY <2>2, <2>3, GrantedSteps, STSSteps DEF SInv
<1>2. CASE Tick /\ UNCHANGED s3Vars
  <2>1. Used' = Used /\ Granted' = Granted
    BY <1>2 DEF Tick, reqVars, s3Vars, Used, Granted
  <2>. QED
    BY <1>2, <2>1 DEF Tick, Promise!Tick, Promise!Next
<1>3. ASSUME NEW p \in S3Slot, S3Client(p)
      PROVE  [Promise!Next]_(Promise!avars)
  <2>1. Used' = Used
    BY <1>3, ClientUsesNothing
  <2>2. Granted' = Granted /\ now' = now
    BY <1>3 DEF S3Client, vars, reqVars, Granted
  <2>. QED
    BY <2>1, <2>2 DEF Promise!avars
<1>4. ASSUME NEW p \in S3Slot, S3Step(p)
      PROVE  [Promise!Next]_(Promise!avars)
  BY <1>4, ForwardUses
<1>5. ASSUME NEW q \in Slot, STSStep(q)
      PROVE  UNCHANGED s3Vars /\ now' = now
  BY <1>5 DEF STSStep, Client, Handle
<1>6. EditPolicies => now' = now
  BY DEF EditPolicies
<1>7. UNCHANGED allVars => UNCHANGED s3Vars /\ now' = now
  BY DEF allVars, vars
<1>. QED
  BY <1>1, <1>2, <1>3, <1>4, <1>5, <1>6, <1>7 DEF SessionsNext

LEMMA InitRefines == SessionsInit => Promise!Init
<1>. SUFFICES ASSUME SessionsInit PROVE Promise!Init
  OBVIOUS
<1>1. Granted = {}
  BY DEF SessionsInit, Init, Granted
<1>2. Used = {}
  BY DEF SessionsInit, S3!Init, Used
<1>3. now = 0
  BY DEF SessionsInit, Init
<1>. QED
  BY <1>1, <1>2, <1>3 DEF Promise!Init

----------------------------------------------------------------------------
(* Results                                                                 *)

(* In every behaviour of the two proxies the invariants of both hold, and  *)
(* a genuine token that the S3 proxy sees is of a session that was granted *)
(* (newProxyIssuedToken, ExtractTokenClaims).                              *)
THEOREM TokensAreOfSessions == SessionsSpec => []SInv
BY InitSInv, NextSInv, PTL DEF SessionsSpec

(* The two proxies implement Access for any limits, providers and policies,*)
(* and for any number of requests: no backend is used without a session    *)
(* that the STS proxy granted, or after it (ImplementsAccess).             *)
THEOREM SessionsImplementAccess == SessionsSpec => ImplementsAccess
<1>1. SessionsSpec => []SInv
  BY TokensAreOfSessions
<1>2. SInv /\ SInv' /\ [SessionsNext]_allVars => [Promise!Next]_(Promise!avars)
  BY Refines
<1>. QED
  BY <1>1, <1>2, InitRefines, PTL DEF SessionsSpec, ImplementsAccess, Promise!Spec

----------------------------------------------------------------------------
(* Each proxy on its own                                                   *)

(* Seen from the S3 proxy, a behaviour of the two is one of its own: what  *)
(* clients of sessions send is some of what it is proved for (proxys3.go). *)
THEOREM S3ProxyIsItself == SessionsSpec => S3!Spec
<1>1. SessionsInit => S3!Init
  BY DEF SessionsInit
<1>2. SInv /\ [SessionsNext]_allVars => [S3!Next]_(S3!vars)
  BY S3Steps DEF SInv
<1>. QED
  BY <1>1, <1>2, TokensAreOfSessions, PTL DEF SessionsSpec, S3!Spec

(* Seen from the STS proxy it is one of STS (proxysts.go).                 *)
THEOREM STSIsItself == SessionsSpec => Spec
<1>1. SessionsInit => Init
  BY DEF SessionsInit
<1>. QED
  BY <1>1, STSSteps, PTL DEF SessionsSpec, Spec

(* What is proved of the S3 proxy alone holds of it among sessions.        *)
THEOREM S3TheoremsCarryOver ==
    SessionsSpec => [](S3!ForwardedWasAuthentic /\ S3!ForwardedAsAuthorized /\ S3!LogTellsOutcome)
<1>1. S3!Spec => []S3!ForwardedWasAuthentic
  BY S3!OnlyAuthenticForwarded, S3Assumptions, Zenon
<1>2. S3!Spec => []S3!ForwardedAsAuthorized
  BY S3!ForwardedOnlyAsAuthorized, S3Assumptions, Zenon
<1>3. S3!Spec => []S3!LogTellsOutcome
  BY S3!LogIsTrue, S3Assumptions, Zenon
<1>. QED
  BY <1>1, <1>2, <1>3, S3ProxyIsItself, PTL

----------------------------------------------------------------------------
(* Where the right to use a backend comes from                             *)

(* Request p to the S3 proxy has the token that was made for request q to  *)
(* the STS proxy.                                                          *)
HasTokenOf(p, q) ==
    /\ issued[q] # None /\ issued[q].role = s3req[p].role /\ issued[q].exp = s3req[p].exp
    /\ start[q] <= s3start[p]

SameTokens == \A p \in S3Slot :
    s3stage[p] # "new" /\ s3req[p].genuine => \E q \in Slot : HasTokenOf(p, q)

(* Each request that is sent to a backend can be traced to one to the STS  *)
(* proxy that came in before, asked for the same role, and had a token of a*)
(* provider, signed with its key and not expired; and it came in before the*)
(* session that was made of that ended, or within the grace time of it     *)
(* (AWSAuthN, newProxyIssuedToken, GetKeyFunc).                            *)
Traceable ==
    \A p \in S3Slot : s3sent[p] # None =>
        \E q \in Slot :
            /\ issued[q] # None /\ req[q].role = s3req[p].role
            /\ \E k \in Provider : ProviderKey[k] = req[q].key /\ req[q].iss \in {k, Iss[k]}
            /\ req[q].nbf <= now /\ start[q] < req[q].exp
            /\ start[q] <= s3start[p]
            /\ s3start[p] < issued[q].exp + IF Lenient(s3req[p]) THEN Grace ELSE 0

(* A token that has been used stays the one that was made for its request. *)
LEMMA HasTokenStays ==
    ASSUME IInv, [Next]_vars, NEW p \in S3Slot, NEW q \in Slot, HasTokenOf(p, q),
           s3req'[p] = s3req[p], s3start'[p] = s3start[p]
    PROVE  HasTokenOf(p, q)'
BY ClaimsKept DEF HasTokenOf

LEMMA ClientHasToken ==
    ASSUME SInv, NEW p \in S3Slot, S3Client(p), s3req'[p].genuine
    PROVE  \E q \in Slot : HasTokenOf(p, q)'
<1>1. /\ s3req \in [S3Slot -> S3!Request \cup {None}] /\ s3start \in [S3Slot -> 0 .. MaxTime]
  BY SMTT(60) DEF SInv, S3!IInv, S3!TypeOK
<1>2. (\E q \in Slot : UseCredentials(p, q)) \/ Forge(p)
  BY DEF S3Client
<1>3. ~ Forge(p)
  <2>1. SUFFICES ASSUME NEW r \in Forged, S3!Arrive(p, r) PROVE FALSE
    BY DEF Forge
  <2>. QED
    BY <1>1, <2>1, SentAre DEF S3!Arrive
<1>a. PICK q \in Slot : UseCredentials(p, q)
  BY <1>2, <1>3
<1>4. PICK u \in Uses :
         /\ issued[q] # None
         /\ S3!Arrive(p, [u EXCEPT !.role = issued[q].role, !.exp = issued[q].exp])
  BY <1>a, Zenon DEF UseCredentials
<1> DEFINE r == [u EXCEPT !.role = issued[q].role, !.exp = issued[q].exp]
<1>5. u \in S3Inputs!Request
  BY SentAre
<1>6. r.role = issued[q].role /\ r.exp = issued[q].exp
  BY <1>5 DEF S3Inputs!Request
<1>7. s3req'[p] = r /\ s3start'[p] = now
  BY <1>1, <1>4 DEF S3!Arrive
<1>8. UNCHANGED <<issued, start>>
  BY DEF S3Client, vars, reqVars
<1>9. start[q] <= now
  BY <1>4 DEF SInv, IInv, StagesRelyOn
<1>. QED
  BY <1>4, <1>6, <1>7, <1>8, <1>9 DEF HasTokenOf

LEMMA SameTokensKept == SInv /\ SameTokens /\ [SessionsNext]_allVars => SameTokens'
<1>. SUFFICES ASSUME SInv, SameTokens, [SessionsNext]_allVars, NEW x \in S3Slot,
                     s3stage'[x] # "new", s3req'[x].genuine
     PROVE  \E q \in Slot : HasTokenOf(x, q)'
  BY DEF SameTokens
<1>1. ASSUME s3stage[x] # "new", s3req'[x] = s3req[x], s3start'[x] = s3start[x]
      PROVE  \E q \in Slot : HasTokenOf(x, q)'
  <2>1. PICK q \in Slot : HasTokenOf(x, q)
    BY <1>1 DEF SameTokens
  <2>. QED
    BY <1>1, <2>1, HasTokenStays, STSSteps DEF SInv
<1>2. ASSUME NEW p \in S3Slot, S3Client(p)
      PROVE  \E q \in Slot : HasTokenOf(x, q)'
  <2>1. PICK r \in S3Inputs!Request : S3!Arrive(p, r)
    BY <1>2, ClientSends DEF SInv
  <2>2. CASE x = p
    BY <1>2, <2>2, ClientHasToken
  <2>3. CASE x # p
    <3>1. /\ s3req \in [S3Slot -> S3!Request \cup {None}] /\ s3stage \in [S3Slot -> S3!Stage]
          /\ s3start \in [S3Slot -> 0 .. MaxTime]
      BY SMTT(60) DEF SInv, S3!IInv, S3!TypeOK
    <3>2. s3stage'[x] = s3stage[x] /\ s3req'[x] = s3req[x] /\ s3start'[x] = s3start[x]
      BY <2>1, <2>3, <3>1 DEF S3!Arrive, S3!Goto
    <3>. QED
      BY <1>1, <3>2
  <2>. QED
    BY <2>2, <2>3
<1>3. ASSUME NEW p \in S3Slot, S3Step(p)
      PROVE  \E q \in Slot : HasTokenOf(x, q)'
  BY <1>1, <1>3, S3StepIs DEF SInv
<1>4. CASE UNCHANGED s3Vars
  BY <1>1, <1>4 DEF s3Vars
<1>. QED
  BY <1>2, <1>3, <1>4 DEF SessionsNext, STSStep, allVars

LEMMA TracedBack == SInv /\ SameTokens /\ RoleAsAsked /\ IssuedForTrustedToken => Traceable
<1>. SUFFICES ASSUME SInv, SameTokens, RoleAsAsked, IssuedForTrustedToken, NEW p \in S3Slot, s3sent[p] # None
     PROVE  \E q \in Slot :
                /\ issued[q] # None /\ req[q].role = s3req[p].role
                /\ \E k \in Provider : ProviderKey[k] = req[q].key /\ req[q].iss \in {k, Iss[k]}
                /\ req[q].nbf <= now /\ start[q] < req[q].exp
                /\ start[q] <= s3start[p]
                /\ s3start[p] < issued[q].exp + IF Lenient(s3req[p]) THEN Grace ELSE 0
  BY DEF Traceable
<1>1. S3!ForwardedWasAuthentic /\ S3!StagesRelyOn(p)
  BY DEF SInv, S3!IInv
<1>2. s3req[p].genuine /\ s3start[p] < s3req[p].exp + IF Lenient(s3req[p]) THEN Grace ELSE 0
  BY <1>1 DEF S3!ForwardedWasAuthentic, S3!TokenValid, Lenient
<1>3. s3stage[p] # "new"
  BY <1>1 DEF S3!StagesRelyOn
<1>4. PICK q \in Slot : HasTokenOf(p, q)
  BY <1>2, <1>3 DEF SameTokens
<1>. QED
  BY <1>2, <1>4 DEF HasTokenOf, RoleAsAsked, IssuedForTrustedToken

(* Whatever clients, providers and policies there are, and whatever is     *)
(* forged: no backend is used but in a session that goes back to a token of*)
(* a provider for the same role (GetKeyFunc, AWSAuthN, authorizeS3Action). *)
THEOREM UsesAreTraceable == SessionsSpec => []Traceable
<1>1. SessionsInit => SameTokens
  BY DEF SessionsInit, S3!Init, SameTokens
<1>2. SessionsSpec => []SameTokens
  BY <1>1, SameTokensKept, TokensAreOfSessions, PTL DEF SessionsSpec
<1>. QED
  BY <1>2, TracedBack, TokensAreOfSessions, STSIsItself, OwnRole, OnlyTrustedGetCredentials, PTL
=============================================================================

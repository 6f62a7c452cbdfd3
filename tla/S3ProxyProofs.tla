--------------------------- MODULE S3ProxyProofs ----------------------------
(***************************************************************************)
(* Theorems about S3Proxy, for any requests, policies, backends and number *)
(* of requests served at a time: its types; that what is forwarded was     *)
(* authenticated, is what a policy allowed and goes to the backend it was  *)
(* allowed for; what is logged and counted; and what becomes of headers.   *)
(***************************************************************************)
EXTENDS S3Proxy, FiniteSetTheorems, SequenceTheorems, TLAPS

----------------------------------------------------------------------------
(* The checks                                                              *)

(* handleAuthNNormal lets a request through with a token for its access key*)
(* and a signature that matches.                                           *)
LEMMA NormalErrorIs ==
    ASSUME NEW r, NEW t
    PROVE  /\ NormalError(r, t) \in {"none", "Malformed", "InvalidSignature"}
           /\ NormalError(r, t) = "none" => /\ TokenForAccessKey(r, t, 0)
                                            /\ r.signedFor = SignedMethod(r)
BY DEF NormalError, SignatureMatches

(* The first part of handleAuthNPresigned asks for a token for the access  *)
(* key, which may be in its grace time.                                    *)
LEMMA PresignedErrorIs ==
    ASSUME NEW r, NEW t
    PROVE  /\ PresignedError(r, t) \in {"none", "Malformed", "Internal"}
           /\ PresignedError(r, t) = "none" => TokenForAccessKey(r, t, Grace)
BY DEF PresignedError

(* The second part asks for a URL that is not expired and whose signature  *)
(* matches.                                                                *)
LEMMA UrlErrorIs ==
    ASSUME NEW r, NEW query, NEW headers, NEW t
    PROVE  LET err == UrlError(r, query, headers, t) IN
           /\ err \in {"none", "InvalidSignature", "AccessDenied"}
           /\ err = "none" => ~ (r.urlExp < t) /\ r.signedFor = SignedMethod(r)
BY DEF UrlError, SignatureMatches

(* A token that is accepted later was acceptable before.                   *)
LEMMA TokenEarlier ==
    ASSUME NEW r \in Request, NEW t \in Nat, NEW s \in Nat, s <= t, NEW leeway \in Nat,
           TokenForAccessKey(r, t, leeway)
    PROVE  TokenForAccessKey(r, s, leeway)
<1>1. r.exp \in Int
  BY DEF Request
<1>2. t < r.exp + leeway => s < r.exp + leeway
  BY <1>1
<1>. QED
  BY <1>2, Zenon DEF TokenForAccessKey, TokenValid

----------------------------------------------------------------------------
(* Headers keep their type, whatever is done to them                       *)

LEMMA HeadersAre ==
    /\ Headers = [Name -> Seq(Value)]
    /\ \A v \in Value : <<v>> \in Seq(Value)
    /\ <<>> \in Seq(Value)
    /\ "proxy" \in Value
    /\ {"Content-Length", "X-Amz-Content-Sha256", "X-Amz-Date"} \subseteq Name
BY DEF Headers, Value, Name

LEMMA FirstType == \A values \in Seq(Value) : First(values) \in Seq(Value)
BY DEF First

LEMMA DelSetKeepType ==
    ASSUME NEW h \in Headers
    PROVE  /\ \A n : Del(h, n) \in Headers
           /\ \A n : \A v \in Value : Set(h, n, v) \in Headers /\ Add(h, n, v) \in Headers
           /\ \A names : Keep(h, names) \in Headers /\ Removed(h, names) \in Headers
           /\ \A removed \in Headers : ReAdd(h, removed) \in Headers
<1>1. h \in [Name -> Seq(Value)]
  BY HeadersAre
<1>2. \A n : Del(h, n) \in [Name -> Seq(Value)]
  BY <1>1, HeadersAre DEF Del
<1>3. \A n : \A v \in Value : Set(h, n, v) \in [Name -> Seq(Value)]
  BY <1>1, HeadersAre DEF Set
<1>4. \A names : Keep(h, names) \in [Name -> Seq(Value)] /\ Removed(h, names) \in [Name -> Seq(Value)]
  BY <1>1, HeadersAre, FirstType DEF Keep, Removed
<1>5. \A n : \A v \in Value : Add(h, n, v) \in [Name -> Seq(Value)]
  <2>1. \A values \in Seq(Value), v \in Value : Append(values, v) \in Seq(Value)
    OBVIOUS
  <2>. QED
    BY <1>1, <2>1 DEF Add
<1>6. \A removed \in [Name -> Seq(Value)] : ReAdd(h, removed) \in [Name -> Seq(Value)]
  BY <1>1 DEF ReAdd
<1>. QED
  BY <1>2, <1>3, <1>4, <1>5, <1>6, HeadersAre

LEMMA PreparedType ==
    ASSUME NEW h \in Headers, NEW token \in Seq(Value)
    PROVE  Prepared(h, token) \in Headers
<1>1. h \in [Name -> Seq(Value)]
  BY HeadersAre
<1>2. First(h["X-Amz-Date"]) \in Seq(Value) /\ <<"proxy">> \in Seq(Value)
  BY <1>1, HeadersAre, FirstType
<1>. QED
  BY <1>1, <1>2, HeadersAre DEF Prepared

(* A message after its query or its headers are assigned to.               *)
WithQuery(m, query) == [m EXCEPT !.query = query]
WithHeaders(m, headers) == [m EXCEPT !.headers = headers]

LEMMA MessageIs ==
    ASSUME NEW m \in Message
    PROVE  /\ m.query \in SUBSET Param /\ m.headers \in Headers
           /\ \A query \in SUBSET Param : WithQuery(m, query) \in Message
           /\ \A headers \in Headers : WithHeaders(m, headers) \in Message
BY DEF Message, WithQuery, WithHeaders

LEMMA SignedHeadersType == \A r : SignedHeaders(r) \in SUBSET Name
BY DEF SignedHeaders, Present, Name

----------------------------------------------------------------------------
(* Type correctness                                                        *)

Codes == {"Malformed", "InvalidSignature", "InvalidRegion", "AccessDenied",
          "InvalidSecurity", "Internal", "UpstreamError"}
Errors == DOMAIN Status \cup {"-"}
Statuses == {0, 200, 400, 403, 404, 500}
Upstreams == {-1, 0} \cup UpstreamStatus
Ctx == [op : Operation, region : Regions, signed : SUBSET Name, err : Errors,
        status : Statuses, upstream : Upstreams]

(* What TypeOK says of the RequestCtx and of the answer.                   *)
LEMMA CtxIs == Ctx = [op : Operation, region : Regions, signed : SUBSET Name,
                      err : DOMAIN Status \cup {"-"},
                      status : {0, 200, 400, 403, 404, 500},
                      upstream : {-1, 0} \cup UpstreamStatus]
BY Zenon DEF Ctx, Errors, Statuses, Upstreams

LEMMA CtxType == TypeOK => ctx \in [Slot -> Ctx] /\ wire \in [Slot -> Statuses]
BY CtxIs, ZenonT(60) DEF TypeOK, Statuses

(* The error codes and what they are sent as.                              *)
LEMMA StatusIs ==
    \A e \in Codes : e \in Errors /\ Status[e] \in Statuses \ {0}
BY DEF Status, Codes, Errors, Statuses

(* A RequestCtx c after it is assigned to.                                 *)
WithAnswer(c, e, s) == [c EXCEPT !.err = e, !.status = s]
WithUpstream(c, u, s) == [c EXCEPT !.upstream = u, !.status = s]
WithFailure(c, u, e, s) == [c EXCEPT !.upstream = u, !.err = e, !.status = s]
WithStatus(c, s) == [c EXCEPT !.status = s]
WithOp(c, o) == [c EXCEPT !.op = o]
WithRegion(c, g, h) == [c EXCEPT !.region = g, !.signed = h]

LEMMA WithAnswerIs ==
    \A c \in Ctx, e \in Errors, s \in Statuses :
        WithAnswer(c, e, s) \in Ctx /\ WithAnswer(c, e, s).op = c.op
BY DEF Ctx, WithAnswer

LEMMA WithUpstreamIs ==
    \A c \in Ctx, u \in Upstreams, s \in Statuses :
        WithUpstream(c, u, s) \in Ctx /\ WithUpstream(c, u, s).op = c.op
BY DEF Ctx, WithUpstream

LEMMA WithFailureIs ==
    \A c \in Ctx, u \in Upstreams, e \in Errors, s \in Statuses :
        WithFailure(c, u, e, s) \in Ctx /\ WithFailure(c, u, e, s).op = c.op
BY DEF Ctx, WithFailure

LEMMA WithOthersIs ==
    ASSUME NEW c \in Ctx
    PROVE  /\ \A s \in Statuses : WithStatus(c, s) \in Ctx /\ WithStatus(c, s).op = c.op
           /\ \A o \in Operation : WithOp(c, o) \in Ctx /\ WithOp(c, o).op = o
           /\ \A g \in Regions, h \in SUBSET Name :
                  WithRegion(c, g, h) \in Ctx /\ WithRegion(c, g, h).op = c.op
BY DEF Ctx, WithStatus, WithOp, WithRegion

(* A refusal with an error code (writeS3ErrorResponse).                    *)
LEMMA FailEffect ==
    ASSUME TypeOK, NEW q \in Slot, NEW err \in Codes, Fail(q, err)
    PROVE  /\ stage' = [stage EXCEPT ![q] = "drain"]
           /\ ctx' \in [Slot -> Ctx]
           /\ \A p \in Slot : ctx'[p].op = ctx[p].op
<1>1. ctx \in [Slot -> Ctx] /\ wire \in [Slot -> Statuses]
  BY CtxType
<1>2. ctx[q] \in Ctx /\ err \in Errors /\ Status[err] \in Statuses
  BY <1>1, StatusIs
<1>3. ctx' = [ctx EXCEPT ![q] = WithAnswer(ctx[q], err, Status[err])]
  BY DEF Fail, WithAnswer
<1>4. ctx' \in [Slot -> Ctx] /\ \A p \in Slot : ctx'[p].op = ctx[p].op
  BY <1>1, <1>2, <1>3, WithAnswerIs
<1>. QED
  BY <1>4 DEF Fail, Goto

(* A stage that succeeds, or fails with a code.                            *)
LEMMA FailOrEffect ==
    ASSUME TypeOK, NEW q \in Slot, NEW err \in Codes \cup {"none"}, NEW s \in Stage,
           FailOr(q, err, s)
    PROVE  /\ stage' = [stage EXCEPT ![q] = IF err = "none" THEN s ELSE "drain"]
           /\ ctx' \in [Slot -> Ctx] /\ wire' \in [Slot -> Statuses]
           /\ \A p \in Slot : ctx'[p].op = ctx[p].op
<1>1. CASE err = "none"
  BY <1>1, CtxType DEF FailOr, Goto
<1>2. CASE err # "none"
  BY <1>2, FailEffect, CtxType DEF FailOr
<1>. QED
  BY <1>1, <1>2

----------------------------------------------------------------------------
(* The invariant                                                           *)

(* ForwardedWasAuthentic, of one request.                                  *)
Forwarded(q) ==
    LET r == req[q] IN
    sent[q] # None =>
        /\ r.signedFor = SignedMethod(r)
        /\ r.bound \/ LegacyCredentials
        /\ TokenValid(r, start[q], IF IsPresigned(r) /\ r.op \in Read THEN Grace ELSE 0)
        /\ IsPresigned(r) => start[q] <= r.urlExp

(* What VerifyClaims adds to Authenticated.                                *)
ClaimsVerified(q) == req[q].op \in Read \/ TokenValid(req[q], start[q], 0)

LEMMA AuthorizedIsForwarded ==
    ASSUME NEW q \in Slot, Authenticated(q), ClaimsVerified(q)
    PROVE  Forwarded(q)
<1>1. CASE req[q].op \in Read
  BY <1>1 DEF Authenticated, Forwarded
<1>2. CASE req[q].op \notin Read
  BY <1>2 DEF Authenticated, Forwarded, ClaimsVerified
<1>. QED
  BY <1>1, <1>2

(* A step of one request changes nothing for the others.                   *)
LEMMA OthersRely ==
    ASSUME NEW p \in Slot, StagesRelyOn(p), Forwarded(p), UNCHANGED now,
           stage'[p] = stage[p], req'[p] = req[p], start'[p] = start[p],
           ctx'[p].op = ctx[p].op, sent'[p] = sent[p]
    PROVE  StagesRelyOn(p)' /\ Forwarded(p)'
<1>1. Authenticated(p)' <=> Authenticated(p)
  BY DEF Authenticated
<1>2. StagesRelyOn(p)'
  BY <1>1 DEF StagesRelyOn
<1>3. Forwarded(p)'
  BY DEF Forwarded
<1>. QED
  BY <1>2, <1>3

(* What a step of the handler of request q to stage s has to show.         *)
HandlerStep(q, s) ==
    /\ stage' = [stage EXCEPT ![q] = s]
    /\ ctx' \in [Slot -> Ctx] /\ wire' \in [Slot -> Statuses]
    /\ msg' \in [Slot -> Message]
    /\ metrics' \in [started : Nat, finished : Nat, failed : Nat]
    /\ \A p \in Slot \ {q} : ctx'[p].op = ctx[p].op /\ sent'[p] = sent[p]
    /\ ctx'[q].op = req[q].op
    /\ UNCHANGED <<req, start, now, policyVars>>
    /\ s = "url" => IsPresigned(req[q]) /\ TokenForAccessKey(req[q], start[q], Grace)
    /\ s \in {"authz", "policy", "proxy", "upstream"} => Authenticated(q)
    /\ s \in {"policy", "proxy", "upstream"} => ClaimsVerified(q)
    /\ sent'[q] # None => /\ sent'[q] \in Sent
                          /\ s \in {"upstream", "drain", "log", "done"}
                          /\ sent'[q] = sent[q] \/ s = "upstream"

LEMMA HandlerStepKeeps ==
    ASSUME IInv, NEW q \in Slot, NEW s \in Stage \ {"new", "route"}, stage[q] # "new",
           HandlerStep(q, s)
    PROVE  IInv'
<1>1. TypeOK'
  <2>1. \A p \in Slot : sent'[p] # None => sent'[p] \in Sent
    BY SMTT(60) DEF IInv, TypeOK, HandlerStep
  <2>2. stage' \in [Slot -> Stage]
    BY DEF IInv, TypeOK, HandlerStep
  <2>3. ctx' \in [Slot -> [op : Operation, region : Regions, signed : SUBSET Name,
                          err : DOMAIN Status \cup {"-"},
                          status : {0, 200, 400, 403, 404, 500},
                          upstream : {-1, 0} \cup UpstreamStatus]]
    <3>1. ctx' \in [Slot -> Ctx]
      BY DEF HandlerStep
    <3>. QED
      BY <3>1, CtxIs, ZenonT(60)
  <2>4. /\ msg' \in [Slot -> Message]
        /\ metrics' \in [started : Nat, finished : Nat, failed : Nat]
        /\ wire' \in [Slot -> {0, 200, 400, 403, 404, 500}]
    BY ZenonT(60) DEF HandlerStep, Statuses
  <2>5. /\ req' = req /\ start' = start /\ now' = now
        /\ policy' = policy /\ served' = served /\ changed' = changed
    BY Zenon DEF HandlerStep, policyVars
  <2>6. /\ req' \in [Slot -> Request \cup {None}] /\ start' \in [Slot -> 0 .. MaxTime]
        /\ now' \in 0 .. MaxTime
        /\ policy' \in [Role -> Policy \cup {None}]
        /\ served' \in [Role -> Policy \cup {None}] /\ changed' \in [Role -> BOOLEAN]
    BY <2>5, ZenonT(60) DEF IInv, TypeOK
  <2>. QED
    BY <2>1, <2>2, <2>3, <2>4, <2>6, ZenonT(60) DEF TypeOK
<1>2. \A p \in Slot : Forwarded(p) /\ StagesRelyOn(p)
  BY DEF IInv, ForwardedWasAuthentic, Forwarded
<1>3. \A p \in Slot \ {q} : StagesRelyOn(p)' /\ Forwarded(p)'
  BY <1>2, OthersRely DEF HandlerStep, IInv, TypeOK
<1>4. stage'[q] = s /\ req' = req /\ start' = start /\ now' = now
  BY DEF HandlerStep, IInv, TypeOK
<1>5. /\ Authenticated(q)' <=> Authenticated(q)
      /\ ClaimsVerified(q)' <=> ClaimsVerified(q)
  BY <1>4 DEF Authenticated, ClaimsVerified
<1>6. StagesRelyOn(q)'
  BY <1>2, <1>4, <1>5 DEF StagesRelyOn, HandlerStep, ClaimsVerified
<1>7. Forwarded(q)'
  <2>1. CASE sent'[q] = sent[q]
    BY <1>2, <1>4, <2>1 DEF Forwarded
  <2>2. CASE s = "upstream"
    <3>1. Authenticated(q)' /\ ClaimsVerified(q)'
      BY <1>5, <2>2 DEF HandlerStep
    <3>. QED
      BY <3>1, AuthorizedIsForwarded, PTL
  <2>3. CASE sent'[q] = None
    BY <2>3 DEF Forwarded
  <2>. QED
    BY <2>1, <2>2, <2>3 DEF HandlerStep
<1>. QED
  BY <1>1, <1>3, <1>6, <1>7 DEF IInv, ForwardedWasAuthentic, Forwarded

----------------------------------------------------------------------------
(* The stages                                                              *)

(* The regions that are looked up are regions.                             *)
LEMMA RegionTypes ==
    ASSUME NEW r \in Request
    PROVE  /\ TargetRegion(r) \in Regions
           /\ \A g \in Regions : SignatureRegion(r, g) \in Regions
<1>1. r.authorization \in Credential /\ r.credential \in Credential
  BY DEF Request
<1>2. \A headers : CredentialIn(r, headers) \in Credential
  BY <1>1, BackendsAssumption DEF CredentialIn, Credential
<1>3. \A c \in Credential, g \in Regions : RegionIn(c, g) \in Regions
  BY DEF RegionIn, Credential
<1>. QED
  BY <1>2, <1>3, BackendsAssumption DEF TargetRegion, SignatureRegion, SigningCredential

(* What the invariant says of a request whose handler runs.                *)
LEMMA Running ==
    ASSUME IInv, NEW q \in Slot, stage[q] # "new"
    PROVE  /\ req[q] \in Request /\ start[q] \in Nat /\ now \in Nat /\ start[q] <= now
           /\ ctx \in [Slot -> Ctx] /\ ctx[q] \in Ctx /\ wire \in [Slot -> Statuses]
           /\ msg \in [Slot -> Message]
           /\ metrics \in [started : Nat, finished : Nat, failed : Nat]
           /\ stage[q] # "route" => ctx[q].op = req[q].op
           /\ stage[q] = "route" => ctx[q].op = "unrouted"
           /\ stage[q] \notin {"upstream", "drain", "log", "done"} => sent[q] = None
           /\ sent[q] # None => sent[q] \in Sent
           /\ TargetRegion(req[q]) \in Regions
<1>1. TypeOK /\ StagesRelyOn(q)
  BY DEF IInv
<1>2. start[q] \in Nat /\ now \in Nat
  BY <1>1, S3ProxyAssumption DEF TypeOK
<1>3. req[q] \in Request /\ start[q] <= now
  BY <1>1 DEF StagesRelyOn
<1>4. TargetRegion(req[q]) \in Regions
  BY <1>3, RegionTypes DEF TargetRegion
<1>5. ctx \in [Slot -> Ctx] /\ wire \in [Slot -> Statuses]
  BY <1>1, CtxType
<1>6. /\ msg \in [Slot -> Message]
      /\ metrics \in [started : Nat, finished : Nat, failed : Nat]
      /\ sent[q] # None => sent[q] \in Sent
  BY <1>1 DEF TypeOK
<1>7. /\ stage[q] # "route" => ctx[q].op = req[q].op
      /\ stage[q] = "route" => ctx[q].op = "unrouted"
      /\ stage[q] \notin {"upstream", "drain", "log", "done"} => sent[q] = None
  BY <1>1 DEF StagesRelyOn
<1>. QED
  BY <1>2, <1>3, <1>4, <1>5, <1>6, <1>7

(* A stage that succeeds, or fails with a code.                            *)
LEMMA FailOrKeeps ==
    ASSUME IInv, NEW q \in Slot, NEW err \in Codes \cup {"none"},
           NEW s \in {"authz", "policy", "proxy", "upstream"},
           stage[q] \in {"url", "authz", "policy", "proxy"}, FailOr(q, err, s),
           msg' \in [Slot -> Message],
           UNCHANGED <<req, start, metrics, now, policyVars>>,
           err = "none" => Authenticated(q) /\ (s # "authz" => ClaimsVerified(q)),
           \A p \in Slot \ {q} : sent'[p] = sent[p],
           sent'[q] # None => err = "none" /\ s = "upstream" /\ sent'[q] \in Sent
    PROVE  IInv'
<1> DEFINE to == IF err = "none" THEN s ELSE "drain"
<1>1. /\ stage' = [stage EXCEPT ![q] = to]
      /\ ctx' \in [Slot -> Ctx] /\ wire' \in [Slot -> Statuses]
      /\ \A p \in Slot : ctx'[p].op = ctx[p].op
  BY FailOrEffect DEF IInv, Stage
<1>2. /\ ctx[q].op = req[q].op
      /\ metrics' \in [started : Nat, finished : Nat, failed : Nat]
  BY Running
<1>3. CASE err = "none"
  <2>1. HandlerStep(q, s)
    BY <1>1, <1>2, <1>3 DEF HandlerStep
  <2>. QED
    BY <2>1, HandlerStepKeeps DEF Stage
<1>4. CASE err # "none"
  <2>1. HandlerStep(q, "drain")
    BY <1>1, <1>2, <1>4 DEF HandlerStep
  <2>. QED
    BY <2>1, HandlerStepKeeps DEF Stage
<1>. QED
  BY <1>3, <1>4

LEMMA RegisterOperationKeeps ==
    ASSUME IInv, NEW q \in Slot, RegisterOperation(q), UNCHANGED <<now, policyVars>>
    PROVE  IInv'
<1>1. stage[q] = "route"
  BY DEF RegisterOperation
<1>2. /\ req[q].op \in Operation /\ ctx \in [Slot -> Ctx] /\ wire \in [Slot -> Statuses]
      /\ ctx[q] \in Ctx /\ ctx[q].op = "unrouted" /\ sent[q] = None
  BY <1>1, Running DEF Request
<1>3. /\ ctx' \in [Slot -> Ctx] /\ wire' \in [Slot -> Statuses]
      /\ ctx'[q].op = req[q].op /\ \A p \in Slot \ {q} : ctx'[p] = ctx[p]
  <2>0. \A c \in Ctx : ctx' = [ctx EXCEPT ![q] = c] =>
            /\ ctx' \in [Slot -> Ctx] /\ ctx'[q] = c
            /\ \A p \in Slot \ {q} : ctx'[p] = ctx[p]
    BY <1>2
  <2>1. CASE req[q].op = "unrouted"
    <3> DEFINE c == WithStatus(ctx[q], 404)
    <3>1. ctx' = [ctx EXCEPT ![q] = c] /\ Wired(q, 404)
      BY <2>1 DEF RegisterOperation, WithStatus
    <3>2. 404 \in Statuses
      BY DEF Statuses
    <3>3. c \in Ctx /\ c.op = req[q].op
      BY <1>2, <2>1, <3>2, WithOthersIs
    <3>4. wire' \in [Slot -> Statuses]
      BY <1>2, <3>1, <3>2 DEF Wired
    <3>. HIDE DEF c
    <3>. QED
      BY <2>0, <3>1, <3>3, <3>4, Zenon
  <2>2. CASE req[q].op # "unrouted"
    <3> DEFINE c == WithOp(ctx[q], req[q].op)
    <3>1. ctx' = [ctx EXCEPT ![q] = c] /\ wire' = wire
      BY <2>2 DEF RegisterOperation, WithOp
    <3>2. c \in Ctx /\ c.op = req[q].op
      BY <1>2, WithOthersIs
    <3>. HIDE DEF c
    <3>. QED
      BY <1>2, <2>0, <3>1, <3>2, Zenon
  <2>. QED
    BY <2>1, <2>2
<1>4. HandlerStep(q, "authn")
  BY <1>1, <1>2, <1>3, Running DEF RegisterOperation, HandlerStep, Goto
<1>. QED
  BY <1>1, <1>4, HandlerStepKeeps DEF Stage

LEMMA PanicKeeps ==
    ASSUME IInv, NEW q \in Slot, Panic(q), UNCHANGED <<now, policyVars>>
    PROVE  IInv'
<1>1. stage[q] \in {"authn", "proxy"}
  BY DEF Panic
<1>2. wire' \in [Slot -> Statuses]
  BY <1>1, Running DEF Panic, Statuses
<1>3. HandlerStep(q, "log")
  BY <1>1, <1>2, Running DEF Panic, HandlerStep, Goto
<1>. QED
  BY <1>1, <1>3, HandlerStepKeeps DEF Stage

LEMMA AuthNNormalKeeps ==
    ASSUME IInv, NEW q \in Slot, AuthNNormal(q), UNCHANGED <<now, policyVars>>
    PROVE  IInv'
<1> DEFINE r == req[q]
           err == NormalError(r, now)
<1>1. stage[q] = "authn" /\ ~ IsPresigned(r)
  BY DEF AuthNNormal
<1>2. err \in Codes \cup {"none"}
  BY NormalErrorIs DEF Codes
<1>3. CASE err # "none"
  <2>1. Fail(q, err) /\ err \in Codes /\ TypeOK
    BY <1>2, <1>3 DEF AuthNNormal, IInv
  <2>2. UNCHANGED <<req, msg, start, wire, sent, metrics>>
    BY <1>3 DEF AuthNNormal
  <2>3. HandlerStep(q, "drain")
    BY <1>1, <2>1, <2>2, Running, FailEffect DEF HandlerStep
  <2>. QED
    BY <1>1, <2>3, HandlerStepKeeps DEF Stage
<1>4. CASE err = "none"
  <2>1. ctx' = [ctx EXCEPT ![q] = WithRegion(ctx[q], TargetRegion(r), SignedHeaders(r))] /\ UNCHANGED wire
    BY <1>4 DEF AuthNNormal, Fail, WithRegion
  <2>2. ctx' \in [Slot -> Ctx] /\ \A p \in Slot : ctx'[p].op = ctx[p].op
    BY <1>1, <2>1, Running, WithOthersIs, SignedHeadersType
  <2>3. TokenForAccessKey(r, now, 0) /\ r.signedFor = SignedMethod(r)
    BY <1>4, NormalErrorIs
  <2>4. TokenForAccessKey(r, start[q], 0)
    BY <1>1, <2>3, Running, TokenEarlier
  <2>5. Authenticated(q)
    BY <1>1, <2>3, <2>4 DEF Authenticated, TokenForAccessKey
  <2>6. msg' \in [Slot -> Message]
    <3> DEFINE trusted == SignedHeaders(r) \cup AlwaysSign
               headers == ReAdd(Keep(msg[q].headers, trusted), Removed(msg[q].headers, trusted))
    <3>1. msg' = [msg EXCEPT ![q] = WithHeaders(@, headers)]
      BY <1>4 DEF AuthNNormal, Fail, WithHeaders
    <3>2. msg \in [Slot -> Message] /\ msg[q] \in Message
      BY <1>1, Running
    <3>3. headers \in Headers
      BY <3>2, MessageIs, DelSetKeepType
    <3>. HIDE DEF headers
    <3>. QED
      BY <3>1, <3>2, <3>3, MessageIs
  <2>7. HandlerStep(q, "authz")
    BY <1>1, <1>4, <2>1, <2>2, <2>5, <2>6, Running DEF AuthNNormal, HandlerStep, Goto
  <2>. QED
    BY <1>1, <2>7, HandlerStepKeeps DEF Stage
<1>. QED
  BY <1>3, <1>4

LEMMA AuthNPresignedKeeps ==
    ASSUME IInv, NEW q \in Slot, AuthNPresigned(q), UNCHANGED <<now, policyVars>>
    PROVE  IInv'
<1> DEFINE r == req[q]
           err == PresignedError(r, now)
<1>1. stage[q] = "authn" /\ IsPresigned(r)
  BY DEF AuthNPresigned
<1>2. err \in Codes \cup {"none"}
  BY PresignedErrorIs DEF Codes
<1>3. msg' \in [Slot -> Message]
  <2>1. msg' = [msg EXCEPT ![q] = WithQuery(@, @.query \ {"removable"})]
    BY DEF AuthNPresigned, WithQuery
  <2>2. msg \in [Slot -> Message] /\ msg[q] \in Message
    BY <1>1, Running
  <2>. QED
    BY <2>1, <2>2, MessageIs
<1>4. CASE err # "none"
  <2>1. Fail(q, err) /\ err \in Codes /\ TypeOK
    BY <1>2, <1>4 DEF AuthNPresigned, IInv
  <2>2. HandlerStep(q, "drain")
    BY <1>1, <1>3, <2>1, Running, FailEffect DEF AuthNPresigned, HandlerStep
  <2>. QED
    BY <1>1, <2>2, HandlerStepKeeps DEF Stage
<1>5. CASE err = "none"
  <2> DEFINE signed == IF r.auth = "v4" THEN SignedHeaders(r) ELSE {}
  <2>1. ctx' = [ctx EXCEPT ![q] = WithRegion(ctx[q], TargetRegion(r), signed)] /\ UNCHANGED wire
    BY <1>5 DEF AuthNPresigned, Fail, WithRegion
  <2>2. ctx' \in [Slot -> Ctx] /\ \A p \in Slot : ctx'[p].op = ctx[p].op
    <3>1. signed \in SUBSET Name
      BY <1>1, Running, SignedHeadersType
    <3>. HIDE DEF signed
    <3>. QED
      BY <1>1, <2>1, <3>1, Running, WithOthersIs
  <2>3. TokenForAccessKey(r, start[q], Grace)
    BY <1>1, <1>5, PresignedErrorIs, Running, TokenEarlier, BackendsAssumption
  <2>4. HandlerStep(q, "url")
    BY <1>1, <1>3, <1>5, <2>1, <2>2, <2>3, Running DEF AuthNPresigned, HandlerStep, Goto
  <2>. QED
    BY <1>1, <2>4, HandlerStepKeeps DEF Stage
<1>. QED
  BY <1>4, <1>5

LEMMA AuthNUrlKeeps ==
    ASSUME IInv, NEW q \in Slot, AuthNUrl(q), UNCHANGED <<now, policyVars>>
    PROVE  IInv'
<1> DEFINE r == req[q]
           err == UrlError(r, msg[q].query, msg[q].headers, now)
<1>1. /\ stage[q] = "url" /\ FailOr(q, err, "authz")
      /\ UNCHANGED <<req, start, metrics, sent>>
  BY DEF AuthNUrl
<1>2. err \in Codes \cup {"none"}
  BY UrlErrorIs DEF Codes
<1>3. msg' \in [Slot -> Message]
  <2> DEFINE h == msg[q].headers
             headers == IF err = "none" THEN Add(h, "X-Amz-Content-Sha256", "proxy") ELSE h
             query == msg[q].query \ {"HeadAsGet"}
  <2>1. msg' = [msg EXCEPT ![q] = [query |-> query, headers |-> headers]]
    BY DEF AuthNUrl
  <2>2. msg \in [Slot -> Message] /\ msg[q] \in Message
    BY <1>1, Running
  <2>3. query \in SUBSET Param /\ h \in Headers
    BY <2>2, MessageIs
  <2>4. headers \in Headers
    BY <2>3, HeadersAre, DelSetKeepType
  <2>. HIDE DEF query, headers
  <2>5. [query |-> query, headers |-> headers] \in Message
    BY <2>3, <2>4 DEF Message
  <2>. QED
    BY <2>1, <2>2, <2>5
<1>4. IsPresigned(r) /\ TokenForAccessKey(r, start[q], Grace)
  BY <1>1 DEF IInv, StagesRelyOn
<1>5. err = "none" => Authenticated(q)
  <2>1. HAVE err = "none"
  <2>2. ~ (r.urlExp < now) /\ r.signedFor = SignedMethod(r)
    BY <2>1, UrlErrorIs
  <2>3. start[q] <= r.urlExp
    BY <1>1, <2>2, Running DEF Request
  <2>. QED
    BY <1>4, <2>2, <2>3 DEF Authenticated, TokenForAccessKey
<1>6. sent[q] = None
  BY <1>1, Running
<1>. HIDE DEF err
<1>. QED
  BY <1>1, <1>2, <1>3, <1>5, <1>6, FailOrKeeps

LEMMA VerifyClaimsKeeps ==
    ASSUME IInv, NEW q \in Slot, VerifyClaims(q), UNCHANGED <<now, policyVars>>
    PROVE  IInv'
<1> DEFINE ok == ctx[q].op \in Read \/ TokenValid(req[q], now, 0)
           err == IF ok THEN "none" ELSE "InvalidSecurity"
<1>1. /\ stage[q] = "authz" /\ FailOr(q, err, "policy")
      /\ UNCHANGED <<req, msg, start, metrics, sent>>
  BY DEF VerifyClaims
<1>2. err \in Codes \cup {"none"}
  BY DEF Codes
<1>3. Authenticated(q)
  BY <1>1 DEF IInv, StagesRelyOn
<1>4. err = "none" => ClaimsVerified(q)
  <2>1. HAVE err = "none"
  <2>2. /\ ctx[q].op = req[q].op /\ req[q].exp \in Int
        /\ start[q] <= now /\ start[q] \in Nat /\ now \in Nat
    BY <1>1, Running DEF Request
  <2>3. now < req[q].exp + 0 => start[q] < req[q].exp + 0
    BY <2>2
  <2>4. req[q].op \in Read \/ TokenValid(req[q], now, 0)
    BY <2>1, <2>2
  <2>. QED
    BY <2>3, <2>4, Zenon DEF ClaimsVerified, TokenValid
<1>5. sent[q] = None /\ msg' \in [Slot -> Message]
  BY <1>1, Running
<1>. HIDE DEF err
<1>. QED
  BY <1>1, <1>2, <1>3, <1>4, <1>5, FailOrKeeps

LEMMA EvaluatePolicyKeeps ==
    ASSUME IInv, NEW q \in Slot, EvaluatePolicy(q), UNCHANGED <<now, policyVars>>
    PROVE  IInv'
<1>1. PICK p : FailOr(q, PolicyError(q, p), "proxy")
  BY DEF EvaluatePolicy
<1>2. stage[q] = "policy" /\ UNCHANGED <<req, msg, start, metrics, sent>>
  BY DEF EvaluatePolicy
<1>3. PolicyError(q, p) \in Codes \cup {"none"}
  BY DEF PolicyError, Codes
<1>4. Authenticated(q) /\ ClaimsVerified(q)
  BY <1>2 DEF IInv, StagesRelyOn, ClaimsVerified
<1>5. sent[q] = None /\ msg' \in [Slot -> Message]
  BY <1>2, Running
<1>. QED
  BY <1>1, <1>2, <1>3, <1>4, <1>5, FailOrKeeps

(* What is sent is a request for a backend.                                *)
LEMMA ToBackendType ==
    ASSUME IInv, NEW q \in Slot, stage[q] # "new", ProxyError(q) = "none"
    PROVE  ToBackend(q) \in Sent
<1> DEFINE b == Backend(ctx[q].region)
           region == SignatureRegion(req[q], ctx[q].region)
           query == msg[q].query \ SigningRemoves
           headers == Retarget(WithPayer(req[q], msg[q].headers))
           trusted == TrustedHeaders(req[q], ctx[q].signed)
           forwarded == ForwardedHeaders(headers, trusted, b)
           covered == CoveredFor(headers, trusted, b)
<1>1. ToBackend(q) = [backend |-> b, creds |-> b, region |-> region, query |-> query,
                      headers |-> forwarded, signed |-> covered]
  BY DEF ToBackend
<1>2. msg[q] \in Message /\ ctx[q] \in Ctx /\ req[q] \in Request
  BY Running
<1>3. b \in Backends
  BY BackendsAssumption DEF ProxyError, Backend
<1>4. region \in Regions
  BY <1>2, RegionTypes DEF Ctx
<1>5. query \in SUBSET Param
  BY <1>2, MessageIs
<1>6. headers \in Headers
  <2>1. WithPayer(req[q], msg[q].headers) \in Headers
    BY <1>2, MessageIs, HeadersAre, DelSetKeepType DEF WithPayer
  <2>. QED
    BY <2>1, HeadersAre, DelSetKeepType DEF Retarget
<1>. HIDE DEF headers, trusted, b, region, query
<1>7. PreparedFor(headers, trusted, b) \in Headers
  <2>1. TokenOf(b) \in Seq(Value)
    BY HeadersAre DEF TokenOf
  <2>2. Keep(headers, trusted \cup AlwaysSign) \in Headers
    BY <1>6, DelSetKeepType
  <2>. QED
    BY <2>1, <2>2, PreparedType DEF PreparedFor
<1>8. forwarded \in Headers
  BY <1>6, <1>7, HeadersAre, DelSetKeepType DEF ForwardedHeaders
<1>9. covered \in Headers
  <2>1. Covered(PreparedFor(headers, trusted, b)) \in [Name -> Seq(Value)]
    BY <1>7, HeadersAre, DelSetKeepType DEF Covered
  <2>2. headers["Content-Length"] \in Seq(Value)
    BY <1>6, HeadersAre
  <2>. QED
    BY <2>1, <2>2, HeadersAre DEF CoveredFor
<1>. HIDE DEF forwarded, covered
<1>. QED
  BY <1>1, <1>3, <1>4, <1>5, <1>8, <1>9 DEF Sent

LEMMA ForwardKeeps ==
    ASSUME IInv, NEW q \in Slot, Forward(q), UNCHANGED <<now, policyVars>>
    PROVE  IInv'
<1>1. /\ stage[q] = "proxy" /\ FailOr(q, ProxyError(q), "upstream")
      /\ UNCHANGED <<req, msg, start, metrics>>
  BY DEF Forward
<1>2. ProxyError(q) \in Codes \cup {"none"}
  BY DEF ProxyError, Codes
<1>3. Authenticated(q) /\ ClaimsVerified(q)
  BY <1>1 DEF IInv, StagesRelyOn, ClaimsVerified
<1>4. ProxyError(q) = "none" => ToBackend(q) \in Sent
  BY <1>1, Running, ToBackendType
<1>6. sent[q] = None /\ msg' \in [Slot -> Message]
  BY <1>1, Running
<1>7. /\ \A p \in Slot \ {q} : sent'[p] = sent[p]
      /\ sent'[q] # None => ProxyError(q) = "none" /\ sent'[q] \in Sent
  <2>1. CASE ProxyError(q) = "none"
    <3>1. sent' = [sent EXCEPT ![q] = ToBackend(q)]
      BY <2>1 DEF Forward
    <3>2. sent'[q] = ToBackend(q) \/ sent'[q] = sent[q]
      BY <3>1
    <3>. QED
      BY <1>4, <1>6, <2>1, <3>1, <3>2
  <2>2. CASE ProxyError(q) # "none"
    BY <1>6, <2>2 DEF Forward
  <2>. QED
    BY <2>1, <2>2
<1>. QED
  BY <1>1, <1>2, <1>3, <1>6, <1>7, FailOrKeeps

(* The exchange with the backend ends, with an answer for the client or    *)
(* with an error.                                                          *)
LEMMA ExchangeEndsKeeps ==
    ASSUME IInv, NEW q \in Slot, NEW c \in Ctx, NEW status \in Statuses,
           NEW to \in {"drain", "log"},
           stage[q] = "upstream", Goto(q, to), Wired(q, status) \/ UNCHANGED wire,
           ctx' = [ctx EXCEPT ![q] = c], c.op = ctx[q].op,
           UNCHANGED <<req, msg, start, sent, metrics, now, policyVars>>
    PROVE  IInv'
<1>1. wire' \in [Slot -> Statuses]
  BY Running DEF Wired
<1>2. /\ ctx' \in [Slot -> Ctx] /\ ctx'[q].op = req[q].op
      /\ \A p \in Slot \ {q} : ctx'[p] = ctx[p]
  BY Running
<1>3. HandlerStep(q, to)
  BY <1>1, <1>2, Running DEF HandlerStep, Goto
<1>. QED
  BY <1>3, HandlerStepKeeps DEF Stage

LEMMA AwaitedKeeps ==
    ASSUME IInv, NEW q \in Slot, Awaited(q)
    PROVE  IInv'
<1>0. UNCHANGED <<now, policyVars>>
  BY DEF Awaited
<1>1. CASE UpstreamFails(q)
  <2>1. -1 \in Upstreams /\ 500 \in Statuses /\ "UpstreamError" \in Errors
    BY StatusIs DEF Upstreams, Statuses, Codes
  <2> DEFINE c == WithFailure(ctx[q], -1, "UpstreamError", 500)
  <2>2. stage[q] = "upstream" /\ ctx' = [ctx EXCEPT ![q] = c]
    BY <1>1 DEF UpstreamFails, WithFailure
  <2>3. c \in Ctx /\ c.op = ctx[q].op
    BY <2>1, <2>2, Running, WithFailureIs
  <2>. HIDE DEF c
  <2>. QED
    BY <1>0, <1>1, <2>1, <2>2, <2>3, ExchangeEndsKeeps, ZenonT(60) DEF UpstreamFails
<1>2. ASSUME NEW s \in UpstreamStatus, UpstreamAnswers(q, s)
      PROVE  IInv'
  <2>1. s \in Upstreams /\ s \in Statuses
    BY S3ProxyAssumption DEF Upstreams, Statuses
  <2> DEFINE c == WithUpstream(ctx[q], s, s)
  <2>2. stage[q] = "upstream" /\ ctx' = [ctx EXCEPT ![q] = c]
    BY <1>2 DEF UpstreamAnswers, WithUpstream
  <2>3. c \in Ctx /\ c.op = ctx[q].op
    BY <2>1, <2>2, Running, WithUpstreamIs
  <2>. HIDE DEF c
  <2>. QED
    BY <1>0, <1>2, <2>1, <2>2, <2>3, ExchangeEndsKeeps, ZenonT(60) DEF UpstreamAnswers
<1>3. CASE WriteErrorResponse(q)
  <2>1. stage[q] = "drain"
    BY <1>3 DEF WriteErrorResponse
  <2>2. ctx[q].status \in Statuses
    BY <2>1, Running DEF Ctx
  <2>3. wire' \in [Slot -> Statuses]
    BY <1>3, <2>1, <2>2, Running DEF WriteErrorResponse, Wired
  <2>4. HandlerStep(q, "log")
    BY <1>0, <1>3, <2>1, <2>3, Running DEF WriteErrorResponse, HandlerStep, Goto
  <2>. QED
    BY <2>1, <2>4, HandlerStepKeeps DEF Stage
<1>. QED
  BY <1>1, <1>2, <1>3 DEF Awaited

LEMMA LogRequestKeeps ==
    ASSUME IInv, NEW q \in Slot, LogRequest(q), UNCHANGED <<now, policyVars>>
    PROVE  IInv'
<1>1. stage[q] = "log"
  BY DEF LogRequest
<1>2. metrics' \in [started : Nat, finished : Nat, failed : Nat]
  <2> DEFINE Counts(N) == [started : N, finished : N, failed : N]
             Counted(m, a, b) == [m EXCEPT !.finished = a, !.failed = b]
  <2>1. \A N : \A m \in Counts(N), a \in N, b \in N : Counted(m, a, b) \in Counts(N)
    OBVIOUS
  <2>2. metrics' = Counted(metrics, metrics.finished + 1, metrics.failed + 1)
    BY DEF LogRequest
  <2>3. metrics \in Counts(Nat) /\ metrics.finished + 1 \in Nat /\ metrics.failed + 1 \in Nat
    BY <1>1, Running
  <2>. HIDE DEF Counted
  <2>. QED
    BY <2>1, <2>2, <2>3, Zenon
<1>3. HandlerStep(q, "done")
  BY <1>1, <1>2, Running DEF LogRequest, HandlerStep, Goto
<1>. QED
  BY <1>1, <1>3, HandlerStepKeeps DEF Stage

----------------------------------------------------------------------------
(* The other steps                                                         *)

(* A request arrives: nothing is known of it yet.                          *)
LEMMA ArriveKeeps ==
    ASSUME IInv, NEW q \in Slot, NEW r \in Inputs, Arrive(q, r), UNCHANGED <<now, policyVars>>
    PROVE  IInv'
<1>0. TypeOK /\ stage[q] = "new" /\ now \in Nat
  BY S3ProxyAssumption DEF IInv, TypeOK, Arrive
<1>1. r \in Request /\ [query |-> r.query, headers |-> r.headers] \in Message
  BY S3ProxyAssumption DEF Request, Message
<1>2. TypeOK'
  <2>1. metrics' \in [started : Nat, finished : Nat, failed : Nat]
    BY <1>0 DEF Arrive, TypeOK
  <2>2. /\ stage' \in [Slot -> Stage] /\ req' \in [Slot -> Request \cup {None}]
        /\ msg' \in [Slot -> Message] /\ start' \in [Slot -> 0 .. MaxTime]
    BY <1>0, <1>1 DEF Arrive, Goto, TypeOK, Stage
  <2>. QED
    BY <1>0, <2>1, <2>2, ZenonT(60) DEF Arrive, TypeOK, policyVars
<1>3. \A p \in Slot : Forwarded(p) /\ StagesRelyOn(p)
  BY DEF IInv, ForwardedWasAuthentic, Forwarded
<1>4. \A p \in Slot \ {q} : StagesRelyOn(p)' /\ Forwarded(p)'
  BY <1>0, <1>3, OthersRely DEF Arrive, Goto, TypeOK
<1>5. /\ stage'[q] = "route" /\ req'[q] = r /\ start'[q] = now /\ now' = now
      /\ ctx' = ctx /\ sent' = sent
  BY <1>0 DEF Arrive, Goto, TypeOK
<1>6. sent[q] = None /\ ctx[q].op = "unrouted"
  BY <1>0, <1>3 DEF StagesRelyOn
<1>7. StagesRelyOn(q)' /\ Forwarded(q)'
  BY <1>0, <1>1, <1>5, <1>6 DEF StagesRelyOn, Forwarded
<1>. QED
  BY <1>2, <1>4, <1>7 DEF IInv, ForwardedWasAuthentic, Forwarded

(* What is known of a request stays true while time passes.                *)
LEMMA TickKeeps ==
    ASSUME IInv, Tick
    PROVE  IInv'
<1>1. TypeOK' /\ now <= now' /\ now \in Nat /\ now' \in Nat
  BY S3ProxyAssumption DEF IInv, TypeOK, Tick, reqVars, policyVars
<1>2. ForwardedWasAuthentic'
  BY DEF IInv, ForwardedWasAuthentic, Tick, reqVars
<1>3. ASSUME NEW p \in Slot
      PROVE  StagesRelyOn(p)'
  <2>1. StagesRelyOn(p) /\ (Authenticated(p)' <=> Authenticated(p))
    BY DEF IInv, Authenticated, Tick, reqVars
  <2>2. UNCHANGED reqVars /\ (stage[p] # "new" => start[p] \in Nat)
    BY Running DEF Tick
  <2>. QED
    BY <1>1, <2>1, <2>2 DEF StagesRelyOn, reqVars
<1>. QED
  BY <1>1, <1>2, <1>3 DEF IInv

LEMMA EditPoliciesKeeps ==
    ASSUME IInv, EditPolicies
    PROVE  IInv'
<1>1. TypeOK
  BY DEF IInv
<1>2. /\ policy' \in [Role -> Policy \cup {None}]
      /\ served' \in [Role -> Policy \cup {None}]
      /\ changed' \in [Role -> BOOLEAN]
  <2>1. PICK r \in Role : Policies!Edit(r) \/ Policies!Serve(r)
    BY DEF EditPolicies, Policies!Next
  <2>2. CASE Policies!Edit(r)
    BY <1>1, <2>2 DEF Policies!Edit, TypeOK
  <2>3. CASE Policies!Serve(r)
    BY <1>1, <2>3 DEF Policies!Serve, TypeOK
  <2>. QED
    BY <2>1, <2>2, <2>3
<1>3. UNCHANGED <<reqVars, metrics, now>>
  BY DEF EditPolicies
<1>4. TypeOK'
  BY <1>1, <1>2, <1>3, ZenonT(60) DEF TypeOK, reqVars
<1>5. ForwardedWasAuthentic'
  BY <1>3 DEF IInv, ForwardedWasAuthentic, reqVars
<1>6. ASSUME NEW p \in Slot
      PROVE  StagesRelyOn(p)'
  BY <1>3 DEF IInv, StagesRelyOn, Authenticated, reqVars
<1>. QED
  BY <1>4, <1>5, <1>6 DEF IInv

----------------------------------------------------------------------------
(* The theorems                                                            *)

LEMMA InitIInv == Init => IInv
<1>. SUFFICES ASSUME Init PROVE IInv
  OBVIOUS
<1>1. TypeOK
  <2>1. [op |-> "unrouted", region |-> "", signed |-> {}, err |-> "-", status |-> 0,
        upstream |-> 0] \in Ctx
    BY BackendsAssumption DEF Ctx, Operation, Method, Errors, Statuses, Upstreams
  <2>2. ctx \in [Slot -> [op : Operation, region : Regions, signed : SUBSET Name,
                         err : DOMAIN Status \cup {"-"},
                         status : {0, 200, 400, 403, 404, 500},
                         upstream : {-1, 0} \cup UpstreamStatus]]
    <3>1. ctx = [q \in Slot |-> [op |-> "unrouted", region |-> "", signed |-> {}, err |-> "-",
                                status |-> 0, upstream |-> 0]]
      BY Zenon DEF Init
    <3>2. ctx \in [Slot -> Ctx]
      BY ONLY <2>1, <3>1
    <3>. QED
      BY <3>2, CtxIs, Zenon
  <2>3. now \in 0 .. MaxTime /\ start \in [Slot -> 0 .. MaxTime]
    <3>1. 0 \in 0 .. MaxTime
      BY S3ProxyAssumption
    <3>. QED
      BY <3>1, Zenon DEF Init
  <2>4. stage \in [Slot -> Stage]
    BY DEF Init, Stage
  <2>5. /\ policy \in [Role -> Policy \cup {None}]
        /\ served \in [Role -> Policy \cup {None}] /\ changed \in [Role -> BOOLEAN]
    BY DEF Init, Policies!Init
  <2>6. wire \in [Slot -> {0, 200, 400, 403, 404, 500}]
    BY DEF Init
  <2>7. metrics \in [started : Nat, finished : Nat, failed : Nat]
    BY DEF Init
  <2>8. msg \in [Slot -> Message]
    <3>1. [query |-> {}, headers |-> NoHeaders] \in Message
      BY HeadersAre DEF Message, NoHeaders
    <3>. QED
      BY <3>1, Zenon DEF Init
  <2>9. /\ req \in [Slot -> Request \cup {None}]
        /\ \A q \in Slot : sent[q] # None => sent[q] \in Sent
    BY DEF Init
  <2>. QED
    BY <2>2, <2>3, <2>4, <2>5, <2>6, <2>7, <2>8, <2>9, ZenonT(60) DEF TypeOK
<1>2. ForwardedWasAuthentic /\ \A q \in Slot : StagesRelyOn(q)
  BY DEF Init, ForwardedWasAuthentic, StagesRelyOn
<1>. QED
  BY <1>1, <1>2 DEF IInv

LEMMA NextKeeps == IInv /\ [Next]_vars => IInv'
<1>. SUFFICES ASSUME IInv, [Next]_vars PROVE IInv'
  OBVIOUS
<1>1. ASSUME NEW q \in Slot, Client(q)
      PROVE  IInv'
  BY <1>1, ArriveKeeps DEF Client
<1>2. ASSUME NEW q \in Slot, Handle(q)
      PROVE  IInv'
  BY <1>2, RegisterOperationKeeps, PanicKeeps, AuthNNormalKeeps, AuthNPresignedKeeps,
     AuthNUrlKeeps, VerifyClaimsKeeps, EvaluatePolicyKeeps, ForwardKeeps, LogRequestKeeps
     DEF Handle
<1>3. ASSUME NEW q \in Slot, Awaited(q)
      PROVE  IInv'
  BY <1>3, AwaitedKeeps
<1>4. CASE Tick
  BY <1>4, TickKeeps
<1>5. CASE EditPolicies
  BY <1>5, EditPoliciesKeeps
<1>6. CASE UNCHANGED vars
  BY <1>6 DEF vars, reqVars, policyVars, IInv, TypeOK, ForwardedWasAuthentic,
     StagesRelyOn, Authenticated
<1>. QED
  BY <1>1, <1>2, <1>3, <1>4, <1>5, <1>6 DEF Next

(* The inductive invariant: the types, and what each stage of the          *)
(* middleware can rely on about the request it handles.                    *)
THEOREM PipelineInvariant == Spec => []IInv
BY InitIInv, NextKeeps, PTL DEF Spec

(* The variables have their types.                                         *)
THEOREM PipelineTypes == Spec => []TypeOK
<1>1. IInv => TypeOK
  BY DEF IInv
<1>. QED
  BY <1>1, PipelineInvariant, PTL

(* Whatever clients send, and however many requests are served at a time,  *)
(* justProxy only forwards requests that AWSAuthN and authorizeS3Action    *)
(* found authentic, in the sense of when they arrived.                     *)
THEOREM OnlyAuthenticForwarded == Spec => []ForwardedWasAuthentic
<1>1. IInv => ForwardedWasAuthentic
  BY DEF IInv
<1>. QED
  BY <1>1, PipelineInvariant, PTL

----------------------------------------------------------------------------
(* What is sent                                                            *)

(* What AWSAuthN remembers of the signed headers.                          *)
Remembered(r) == IF r.auth = "v1" THEN {} ELSE SignedHeaders(r)

(* What the stages carry on to justProxy: the region and the signed headers*)
(* are those of the request, and its payload hash can still be told.       *)
Carries(q) ==
    LET r == req[q] IN
    /\ stage[q] \in {"route", "authn"} => msg[q].query = r.query /\ msg[q].headers = r.headers
    /\ stage[q] = "url" => /\ IsPresigned(r)
                           /\ "removable" \notin msg[q].query /\ msg[q].headers = r.headers
    /\ stage[q] \in {"url", "authz", "policy", "proxy"} =>
            ctx[q].region = TargetRegion(r) /\ ctx[q].signed = Remembered(r)
    /\ stage[q] \in {"authz", "policy", "proxy"} =>
            /\ IsStreaming(msg[q].headers) <=> IsStreaming(r.headers)
            /\ IsPresigned(r) => msg[q].query \cap {"HeadAsGet", "removable"} = {}

(* ForwardedAsAuthorized, of one request.                                  *)
AsAuthorized(q) ==
    sent[q] # None =>
        LET r == req[q] IN
        /\ sent[q].creds = sent[q].backend
        /\ sent[q].backend = TargetRegion(r)
              \/ /\ sent[q].backend = DefaultBackend
                 /\ TargetRegion(r) \notin Backends
                 /\ TargetRegion(r) = "" \/ RegionToDefault
        /\ \/ sent[q].region = TargetRegion(r)
           \/ HasCredential(r.query) /\ sent[q].region = r.credential.region
        /\ IsStreaming(r.headers) => sent[q].backend \in Streaming
        /\ \A a \in DOMAIN AuthParams :
              sent[q].query \cap AuthParams[a] \subseteq {"Expires", "X-Amz-Expires"}
        /\ IsPresigned(r) => sent[q].query \cap {"HeadAsGet", "removable"} = {}
        /\ \A n \in {"Authorization", "X-Amz-Security-Token"} :
              sent[q].headers[n] \in {<<>>, <<"proxy">>}

(* With them, a policy that is served is in force, or marked as changed.   *)
CInv ==
    /\ DOMAIN sent = Slot
    /\ \A q \in Slot : Carries(q) /\ AsAuthorized(q)
    /\ \A r \in Role : changed[r] \/ Policies!Current(r)

(* A step of the handler of one request changes nothing for the others.    *)
LEMMA HandledAlone ==
    ASSUME IInv, DOMAIN sent = Slot, NEW q \in Slot, Handle(q) \/ Awaited(q)
    PROVE  /\ UNCHANGED <<req, policy, served, changed>> /\ DOMAIN sent' = Slot
           /\ \A p \in Slot \ {q} :
                  /\ stage'[p] = stage[p] /\ ctx'[p] = ctx[p]
                  /\ msg'[p] = msg[p] /\ sent'[p] = sent[p]
           /\ stage'[q] \in Stage
<1>0. /\ stage \in [Slot -> Stage] /\ ctx \in [Slot -> Ctx] /\ msg \in [Slot -> Message]
  BY CtxType DEF IInv, TypeOK
<1>1. UNCHANGED <<req, policy, served, changed>>
  BY ZenonT(60) DEF Handle, Awaited, WriteErrorResponse, policyVars, RegisterOperation, Panic,
     AuthNNormal, AuthNPresigned,
     AuthNUrl, VerifyClaims, EvaluatePolicy, Forward, LogRequest, UpstreamFails, UpstreamAnswers
<1>2. \E s \in Stage : stage' = [stage EXCEPT ![q] = s]
  BY ZenonT(60) DEF Handle, Awaited, WriteErrorResponse, RegisterOperation, Panic, AuthNNormal,
     AuthNPresigned, AuthNUrl, VerifyClaims, EvaluatePolicy, Forward, LogRequest, UpstreamFails,
     UpstreamAnswers, FailOr, Fail, Goto, Stage
<1>3. ctx' = ctx \/ \E c : ctx' = [ctx EXCEPT ![q] = c]
  BY ZenonT(60) DEF Handle, Awaited, WriteErrorResponse, RegisterOperation, Panic, AuthNNormal,
     AuthNPresigned, AuthNUrl, VerifyClaims, EvaluatePolicy, Forward, LogRequest, UpstreamFails,
     UpstreamAnswers, FailOr, Fail
<1>4. msg' = msg \/ \E m : msg' = [msg EXCEPT ![q] = m]
  BY DEF Handle, Awaited, WriteErrorResponse, RegisterOperation, Panic, AuthNNormal,
     AuthNPresigned, AuthNUrl, VerifyClaims, EvaluatePolicy, Forward, LogRequest, UpstreamFails,
     UpstreamAnswers
<1>5. sent' = sent \/ Forward(q)
  BY DEF Handle, Awaited, WriteErrorResponse, RegisterOperation, Panic, AuthNNormal,
     AuthNPresigned, AuthNUrl, VerifyClaims, EvaluatePolicy, LogRequest, UpstreamFails,
     UpstreamAnswers
<1>6. DOMAIN sent' = Slot /\ \A p \in Slot \ {q} : sent'[p] = sent[p]
  <2>1. CASE sent' = sent
    BY <2>1
  <2>2. CASE Forward(q)
    <3>1. sent' = sent \/ sent' = [sent EXCEPT ![q] = ToBackend(q)]
      BY <2>2 DEF Forward
    <3>. QED
      BY <3>1
  <2>. QED
    BY <1>5, <2>1, <2>2
<1>7. \A p \in Slot \ {q} : ctx'[p] = ctx[p]
  BY <1>0, <1>3
<1>8. \A p \in Slot \ {q} : msg'[p] = msg[p]
  BY <1>0, <1>4
<1>9. stage'[q] \in Stage /\ \A p \in Slot \ {q} : stage'[p] = stage[p]
  BY <1>0, <1>2
<1>. QED
  BY <1>1, <1>6, <1>7, <1>8, <1>9

(* The payload hash can be told from what is put back after a check ...    *)
LEMMA ReAddKeepsStreaming ==
    ASSUME NEW h \in Headers, NEW names, AlwaysSign \subseteq names
    PROVE  IsStreaming(ReAdd(Keep(h, names), Removed(h, names))) <=> IsStreaming(h)
<1> DEFINE n == "X-Amz-Content-Sha256"
           g == ReAdd(Keep(h, names), Removed(h, names))
<1>1. n \in Name /\ n \in names /\ h[n] \in Seq(Value)
  BY HeadersAre DEF AlwaysSign
<1>2. g[n] = h[n] \o <<>>
  BY <1>1 DEF ReAdd, Keep, Removed
<1>3. \A v \in Seq(Value) : v \o <<>> = v
  OBVIOUS
<1>. HIDE DEF g
<1>4. IsStreaming(g) <=> IsStreaming(h)
  BY <1>1, <1>2, <1>3 DEF IsStreaming
<1>. QED
  BY <1>4 DEF g

(* ... and if the hash of an empty body is added.                          *)
LEMMA AddKeepsStreaming ==
    ASSUME NEW h \in Headers
    PROVE  IsStreaming(Add(h, "X-Amz-Content-Sha256", "proxy")) <=> IsStreaming(h)
<1> DEFINE n == "X-Amz-Content-Sha256"
<1>1. n \in Name /\ h[n] \in Seq(Value) /\ h \in [Name -> Seq(Value)]
  BY HeadersAre
<1>2. Add(h, n, "proxy")[n] = Append(h[n], "proxy")
  BY <1>1 DEF Add
<1>3. \A v \in Seq(Value) : First(Append(v, "proxy")) = <<"streaming">> <=> First(v) = <<"streaming">>
  <2> SUFFICES ASSUME NEW v \in Seq(Value)
               PROVE  First(Append(v, "proxy")) = <<"streaming">> <=> First(v) = <<"streaming">>
    OBVIOUS
  <2>1. Append(v, "proxy") # <<>>
    OBVIOUS
  <2>2. CASE v = <<>>
    <3>1. Head(Append(v, "proxy")) = "proxy"
      BY <2>2
    <3>. QED
      BY <2>1, <2>2, <3>1 DEF First
  <2>3. CASE v # <<>>
    <3>1. Head(Append(v, "proxy")) = Head(v)
      BY <2>3
    <3>. QED
      BY <2>1, <2>3, <3>1 DEF First
  <2>. QED
    BY <2>2, <2>3
<1>. QED
  BY <1>1, <1>2, <1>3 DEF IsStreaming

(* Of the client's authentication nothing is left in the headers.          *)
LEMMA AuthenticationReplaced ==
    ASSUME NEW h \in Headers, NEW trusted, NEW b
    PROVE  \A n \in {"Authorization", "X-Amz-Security-Token"} :
               ForwardedHeaders(Retarget(h), trusted, b)[n] \in {<<>>, <<"proxy">>}
<1> DEFINE g == Retarget(h)
           names == trusted \cup AlwaysSign
           k == Keep(g, names)
           p == PreparedFor(g, trusted, b)
           f == ForwardedHeaders(g, trusted, b)
<1>1. /\ {"Authorization", "X-Amz-Security-Token"} \subseteq Name
      /\ "Authorization" \in names
  BY DEF Name, AlwaysSign
<1>2. g["X-Amz-Security-Token"] = <<>> /\ g["Authorization"] = <<>>
  BY <1>1, HeadersAre DEF Retarget, Set, Del
<1>. HIDE DEF g, names
<1>3. k["X-Amz-Security-Token"] = <<>> /\ DOMAIN k = Name
  BY <1>1, <1>2 DEF Keep
<1>4. p["X-Amz-Security-Token"] \in {<<>>, <<"proxy">>} /\ DOMAIN p = Name
  <2>1. p = Prepared(k, TokenOf(b))
    BY DEF PreparedFor, names
  <2>. HIDE DEF p, k
  <2>. QED
    BY <1>1, <1>3, <2>1 DEF Prepared, TokenOf
<1>5. \A n \in Name : f[n] = Set(p, "Authorization", "proxy")[n] \o Removed(g, names)[n]
  BY DEF ForwardedHeaders, ReAdd, names
<1>6. Removed(g, names)["Authorization"] = <<>> /\ Removed(g, names)["X-Amz-Security-Token"] = <<>>
  BY <1>1, <1>2 DEF Removed, First
<1>. HIDE DEF p, f
<1>7. /\ Set(p, "Authorization", "proxy")["Authorization"] = <<"proxy">>
      /\ Set(p, "Authorization", "proxy")["X-Amz-Security-Token"] = p["X-Amz-Security-Token"]
  BY <1>1, <1>4 DEF Set
<1>8. <<>> \o <<>> = <<>> /\ <<"proxy">> \o <<>> = <<"proxy">>
  OBVIOUS
<1>9. f["Authorization"] = <<"proxy">>
  BY <1>1, <1>5, <1>6, <1>7, <1>8
<1>10. f["X-Amz-Security-Token"] \in {<<>>, <<"proxy">>}
  BY <1>1, <1>4, <1>5, <1>6, <1>7, <1>8
<1>. QED
  BY <1>9, <1>10 DEF f, g

LEMMA OthersCarry ==
    ASSUME NEW p \in Slot, Carries(p), AsAuthorized(p),
           stage'[p] = stage[p], req'[p] = req[p], msg'[p] = msg[p],
           ctx'[p] = ctx[p], sent'[p] = sent[p]
    PROVE  Carries(p)' /\ AsAuthorized(p)'
BY DEF Carries, AsAuthorized

(* What is sent goes where the policy was asked about.                     *)
LEMMA ToBackendAuthorized ==
    ASSUME IInv, NEW q \in Slot, stage[q] = "proxy", Carries(q), ProxyError(q) = "none",
           UNCHANGED req, sent'[q] = ToBackend(q)
    PROVE  AsAuthorized(q)'
<1> DEFINE r == req[q]
           b == Backend(ctx[q].region)
           h == WithPayer(r, msg[q].headers)
           trusted == TrustedHeaders(r, ctx[q].signed)
<1>1. /\ sent'[q].backend = b /\ sent'[q].creds = b
      /\ sent'[q].region = SignatureRegion(r, ctx[q].region)
      /\ sent'[q].query = msg[q].query \ SigningRemoves
      /\ sent'[q].headers = ForwardedHeaders(Retarget(h), trusted, b)
  BY DEF ToBackend
<1>2. /\ ctx[q].region = TargetRegion(r)
      /\ IsStreaming(msg[q].headers) <=> IsStreaming(r.headers)
      /\ IsPresigned(r) => msg[q].query \cap {"HeadAsGet", "removable"} = {}
  BY DEF Carries
<1>3. r \in Request /\ msg[q] \in Message
  BY Running
<1>4. \/ b = TargetRegion(r)
      \/ /\ b = DefaultBackend /\ TargetRegion(r) \notin Backends
         /\ TargetRegion(r) = "" \/ RegionToDefault
  BY <1>2 DEF ProxyError, Backend
<1>5. \/ SignatureRegion(r, ctx[q].region) = TargetRegion(r)
      \/ HasCredential(r.query) /\ SignatureRegion(r, ctx[q].region) = r.credential.region
  <2>1. NoHeaders["Authorization"] = <<>>
    BY DEF NoHeaders, Name
  <2>. QED
    BY <1>2, <2>1 DEF SignatureRegion, SigningCredential, CredentialIn, RegionIn
<1>6. IsStreaming(r.headers) => b \in Streaming
  BY <1>2 DEF ProxyError
<1>7. \A a \in DOMAIN AuthParams :
          (msg[q].query \ SigningRemoves) \cap AuthParams[a] \subseteq {"Expires", "X-Amz-Expires"}
  BY DEF SigningRemoves, AuthParams
<1>8. h \in Headers
  BY <1>3, MessageIs, HeadersAre, DelSetKeepType DEF WithPayer
<1>. HIDE DEF h, trusted, b
<1>9. \A n \in {"Authorization", "X-Amz-Security-Token"} : sent'[q].headers[n] \in {<<>>, <<"proxy">>}
  BY <1>1, <1>8, AuthenticationReplaced
<1>. HIDE DEF r
<1>10. req'[q] = r
  BY DEF r
<1>11. IsPresigned(r) => sent'[q].query \cap {"HeadAsGet", "removable"} = {}
  BY <1>1, <1>2
<1>12. \A a \in DOMAIN AuthParams :
           sent'[q].query \cap AuthParams[a] \subseteq {"Expires", "X-Amz-Expires"}
  BY <1>1, <1>7
<1>13. /\ sent'[q].creds = sent'[q].backend
       /\ \/ sent'[q].region = TargetRegion(r)
          \/ HasCredential(r.query) /\ sent'[q].region = r.credential.region
       /\ IsStreaming(r.headers) => sent'[q].backend \in Streaming
  BY <1>1, <1>5, <1>6
<1>14. \/ sent'[q].backend = TargetRegion(r)
       \/ /\ sent'[q].backend = DefaultBackend /\ TargetRegion(r) \notin Backends
          /\ TargetRegion(r) = "" \/ RegionToDefault
  BY <1>1, <1>4
<1>. QED
  BY <1>9, <1>10, <1>11, <1>12, <1>13, <1>14, Zenon DEF AsAuthorized

(* The checks leave what Carries says.                                     *)
LEMMA AuthNNormalCarries ==
    ASSUME IInv, NEW q \in Slot, AuthNNormal(q), Carries(q)
    PROVE  Carries(q)'
<1> DEFINE r == req[q]
           trusted == SignedHeaders(r) \cup AlwaysSign
           h == msg[q].headers
           g == ReAdd(Keep(h, trusted), Removed(h, trusted))
<1>1. /\ stage[q] = "authn" /\ ~ IsPresigned(r) /\ req' = req
      /\ stage \in [Slot -> Stage] /\ msg \in [Slot -> Message] /\ ctx \in [Slot -> Ctx]
  BY CtxType DEF AuthNNormal, IInv, TypeOK
<1>2. r \in Request /\ msg[q] \in Message /\ ctx[q] \in Ctx
  BY <1>1, Running
<1>3. CASE NormalError(r, now) # "none"
  <2>1. stage'[q] = "drain"
    BY <1>1, <1>3 DEF AuthNNormal, Fail, Goto
  <2>. QED
    BY <2>1 DEF Carries
<1>4. CASE NormalError(r, now) = "none"
  <2>1. /\ stage'[q] = "authz"
        /\ ctx'[q] = WithRegion(ctx[q], TargetRegion(r), SignedHeaders(r))
        /\ msg'[q] = WithHeaders(msg[q], g)
    BY <1>1, <1>4 DEF AuthNNormal, Fail, Goto, WithRegion, WithHeaders
  <2>2. ctx'[q].region = TargetRegion(r) /\ ctx'[q].signed = SignedHeaders(r)
    BY <1>2, <2>1 DEF WithRegion, Ctx
  <2>3. msg'[q].headers = g
    BY <1>2, <2>1 DEF WithHeaders, Message
  <2>4. IsStreaming(g) <=> IsStreaming(r.headers)
    BY <1>1, <1>2, MessageIs, ReAddKeepsStreaming DEF Carries
  <2>5. Remembered(r) = SignedHeaders(r)
    BY <1>1 DEF Remembered, IsPresigned
  <2>. HIDE DEF g, r
  <2>6. req'[q] = r
    BY <1>1 DEF r
  <2>. QED
    BY <1>1, <2>1, <2>2, <2>3, <2>4, <2>5, <2>6 DEF Carries
<1>. QED
  BY <1>3, <1>4

LEMMA AuthNPresignedCarries ==
    ASSUME IInv, NEW q \in Slot, AuthNPresigned(q), Carries(q)
    PROVE  Carries(q)'
<1> DEFINE r == req[q]
           signed == IF r.auth = "v4" THEN SignedHeaders(r) ELSE {}
<1>1. /\ stage[q] = "authn" /\ IsPresigned(r) /\ req' = req
      /\ stage \in [Slot -> Stage] /\ msg \in [Slot -> Message] /\ ctx \in [Slot -> Ctx]
  BY CtxType DEF AuthNPresigned, IInv, TypeOK
<1>2. r \in Request /\ msg[q] \in Message /\ ctx[q] \in Ctx
  BY <1>1, Running
<1>3. CASE PresignedError(r, now) # "none"
  <2>1. stage'[q] = "drain"
    BY <1>1, <1>3 DEF AuthNPresigned, Fail, Goto
  <2>. QED
    BY <2>1 DEF Carries
<1>4. CASE PresignedError(r, now) = "none"
  <2>1. /\ stage'[q] = "url"
        /\ ctx'[q] = WithRegion(ctx[q], TargetRegion(r), signed)
        /\ msg'[q] = WithQuery(msg[q], msg[q].query \ {"removable"})
    BY <1>1, <1>4 DEF AuthNPresigned, Fail, Goto, WithRegion, WithQuery
  <2>2. ctx'[q].region = TargetRegion(r) /\ ctx'[q].signed = signed
    BY <1>2, <2>1 DEF WithRegion, Ctx
  <2>3. msg'[q].headers = msg[q].headers /\ "removable" \notin msg'[q].query
    BY <1>2, <2>1 DEF WithQuery, Message
  <2>4. Remembered(r) = signed
    BY <1>1 DEF Remembered, IsPresigned
  <2>5. msg[q].headers = r.headers
    BY <1>1 DEF Carries
  <2>. HIDE DEF signed, r
  <2>6. req'[q] = r
    BY <1>1 DEF r
  <2>. QED
    BY <1>1, <2>1, <2>2, <2>3, <2>4, <2>5, <2>6 DEF Carries
<1>. QED
  BY <1>3, <1>4

LEMMA AuthNUrlCarries ==
    ASSUME IInv, NEW q \in Slot, AuthNUrl(q), Carries(q)
    PROVE  Carries(q)'
<1> DEFINE r == req[q]
           err == UrlError(r, msg[q].query, msg[q].headers, now)
           g == Add(msg[q].headers, "X-Amz-Content-Sha256", "proxy")
<1>1. /\ stage[q] = "url" /\ req' = req /\ FailOr(q, err, "authz")
      /\ stage \in [Slot -> Stage] /\ msg \in [Slot -> Message]
  BY DEF AuthNUrl, IInv, TypeOK
<1>2. r \in Request /\ msg[q] \in Message
  BY <1>1, Running
<1>3. CASE err # "none"
  <2>1. stage'[q] = "drain"
    BY <1>1, <1>3 DEF FailOr, Fail, Goto
  <2>. QED
    BY <2>1 DEF Carries
<1>4. CASE err = "none"
  <2>1. stage'[q] = "authz" /\ ctx' = ctx
    BY <1>1, <1>4 DEF FailOr, Goto
  <2>2. msg'[q].query = msg[q].query \ {"HeadAsGet"} /\ msg'[q].headers = g
    BY <1>1, <1>4 DEF AuthNUrl
  <2>3. IsStreaming(g) <=> IsStreaming(r.headers)
    BY <1>1, <1>2, MessageIs, AddKeepsStreaming DEF Carries
  <2>4. /\ "removable" \notin msg[q].query
        /\ ctx[q].region = TargetRegion(r) /\ ctx[q].signed = Remembered(r)
    BY <1>1 DEF Carries
  <2>. HIDE DEF g, r
  <2>5. req'[q] = r
    BY <1>1 DEF r
  <2>. QED
    BY <1>1, <2>1, <2>2, <2>3, <2>4, <2>5 DEF Carries
<1>. QED
  BY <1>3, <1>4

(* Every step of the handler keeps what is carried on ...                  *)
LEMMA HandleCarries ==
    ASSUME IInv, DOMAIN sent = Slot, NEW q \in Slot, Handle(q), Carries(q), AsAuthorized(q)
    PROVE  Carries(q)' /\ AsAuthorized(q)'
<1>0. stage \in [Slot -> Stage] /\ ctx \in [Slot -> Ctx]
  BY CtxType DEF IInv, TypeOK
<1>1. ASSUME sent' = sent
      PROVE  AsAuthorized(q)'
  BY <1>1, HandledAlone DEF AsAuthorized
<1>2. ASSUME stage'[q] \in {"drain", "log", "done", "upstream"}
      PROVE  Carries(q)'
  BY <1>2 DEF Carries
<1>3. CASE RegisterOperation(q)
  <2>1. /\ stage[q] = "route" /\ stage'[q] = "authn"
        /\ UNCHANGED <<req, msg, sent>>
    BY <1>0, <1>3 DEF RegisterOperation, Goto
  <2>. QED
    BY <1>1, <2>1 DEF Carries
<1>4. CASE Panic(q) \/ LogRequest(q)
  BY <1>0, <1>1, <1>2, <1>4 DEF Panic, LogRequest, Goto
<1>5. CASE AuthNNormal(q)
  BY <1>1, <1>5, AuthNNormalCarries DEF AuthNNormal
<1>6. CASE AuthNPresigned(q)
  BY <1>1, <1>6, AuthNPresignedCarries DEF AuthNPresigned
<1>7. CASE AuthNUrl(q)
  BY <1>1, <1>7, AuthNUrlCarries DEF AuthNUrl
<1>8. CASE VerifyClaims(q) \/ EvaluatePolicy(q)
  <2>1. PICK err, s : stage[q] \in {"authz", "policy"} /\ s \in {"policy", "proxy"} /\ FailOr(q, err, s)
    BY <1>8 DEF VerifyClaims, EvaluatePolicy
  <2>2. UNCHANGED <<req, msg, sent>>
    BY <1>8 DEF VerifyClaims, EvaluatePolicy
  <2>3. CASE Fail(q, err)
    BY <1>0, <1>1, <1>2, <2>2, <2>3 DEF Fail, Goto
  <2>4. CASE Goto(q, s) /\ UNCHANGED ctx
    BY <1>0, <1>1, <2>1, <2>2, <2>4 DEF Carries, Goto
  <2>. QED
    BY <2>1, <2>3, <2>4 DEF FailOr
<1>9. CASE Forward(q)
  <2>1. stage[q] = "proxy" /\ req' = req /\ stage'[q] \in {"drain", "upstream"}
    BY <1>0, <1>9 DEF Forward, FailOr, Fail, Goto
  <2>2. CASE ProxyError(q) = "none"
    <3>1. sent'[q] = ToBackend(q)
      BY <1>9, <2>2 DEF Forward
    <3>. QED
      BY <1>2, <2>1, <2>2, <3>1, ToBackendAuthorized
  <2>3. CASE ProxyError(q) # "none"
    BY <1>1, <1>2, <1>9, <2>1, <2>3 DEF Forward
  <2>. QED
    BY <2>2, <2>3
<1>. QED
  BY <1>3, <1>4, <1>5, <1>6, <1>7, <1>8, <1>9 DEF Handle

(* ... and nothing else touches it.                                        *)
LEMMA NextCarries ==
    ASSUME IInv, CInv, [Next]_vars
    PROVE  CInv'
<1>1. ASSUME UNCHANGED <<req, stage, ctx, msg, sent>>
      PROVE  DOMAIN sent' = Slot /\ \A p \in Slot : Carries(p)' /\ AsAuthorized(p)'
  BY <1>1, ZenonT(60) DEF CInv, Carries, AsAuthorized
<1>2. ASSUME UNCHANGED policyVars
      PROVE  \A r \in Role : changed'[r] \/ Policies!Current(r)'
  BY <1>2 DEF CInv, policyVars, Policies!Current
<1>3. ASSUME NEW q \in Slot, Handle(q) \/ Awaited(q)
      PROVE  CInv'
  <2>1. /\ DOMAIN sent' = Slot /\ UNCHANGED <<req, policy, served, changed>>
        /\ \A p \in Slot \ {q} :
              /\ stage'[p] = stage[p] /\ ctx'[p] = ctx[p]
              /\ msg'[p] = msg[p] /\ sent'[p] = sent[p]
    BY <1>3, HandledAlone DEF CInv
  <2>2. \A p \in Slot \ {q} : Carries(p)' /\ AsAuthorized(p)'
    BY <2>1, OthersCarry DEF CInv
  <2>3. Carries(q)' /\ AsAuthorized(q)'
    <3>1. CASE Handle(q)
      BY <3>1, HandleCarries DEF CInv
    <3>2. CASE Awaited(q)
      <4>1. (Goto(q, "log") \/ Goto(q, "drain")) /\ UNCHANGED <<req, sent>>
        BY <3>2 DEF Awaited, WriteErrorResponse, UpstreamFails, UpstreamAnswers
      <4>2. stage'[q] \in {"log", "drain"}
        BY <4>1 DEF Goto, IInv, TypeOK
      <4>. QED
        BY <4>1, <4>2 DEF Carries, AsAuthorized, CInv
    <3>. QED
      BY <1>3, <3>1, <3>2
  <2>4. \A r \in Role : changed'[r] \/ Policies!Current(r)'
    BY <1>2, <2>1 DEF policyVars
  <2>. QED
    BY <2>1, <2>2, <2>3, <2>4 DEF CInv
<1>4. ASSUME NEW q \in Slot, Client(q)
      PROVE  CInv'
  <2>1. PICK r \in Inputs : Arrive(q, r)
    BY <1>4 DEF Client
  <2>2. stage[q] = "new" /\ sent[q] = None /\ UNCHANGED <<ctx, sent, policyVars>>
    BY <1>4, <2>1 DEF Client, Arrive, IInv, StagesRelyOn
  <2>3. /\ stage'[q] = "route" /\ req'[q] = r
        /\ msg'[q] = [query |-> r.query, headers |-> r.headers]
        /\ \A p \in Slot \ {q} : stage'[p] = stage[p] /\ req'[p] = req[p] /\ msg'[p] = msg[p]
    BY <2>1 DEF Arrive, Goto, IInv, TypeOK
  <2>4. \A p \in Slot \ {q} : Carries(p)' /\ AsAuthorized(p)'
    BY <2>2, <2>3, OthersCarry DEF CInv
  <2>5. Carries(q)'
    <3>1. msg'[q].query = req'[q].query /\ msg'[q].headers = req'[q].headers
      BY <2>3
    <3>. QED
      BY <2>3, <3>1 DEF Carries
  <2>6. AsAuthorized(q)'
    BY <2>2 DEF AsAuthorized
  <2>. QED
    BY <1>2, <2>2, <2>4, <2>5, <2>6 DEF CInv
<1>5. CASE Tick \/ UNCHANGED vars
  BY <1>1, <1>2, <1>5 DEF CInv, Tick, vars, reqVars
<1>6. CASE EditPolicies
  <2>1. PICK r \in Role : Policies!Edit(r) \/ Policies!Serve(r)
    BY <1>6 DEF EditPolicies, Policies!Next
  <2>2. changed'[r] \/ Policies!Current(r)'
    BY <2>1 DEF Policies!Edit, Policies!Serve
  <2>3. \A s \in Role \ {r} : policy'[s] = policy[s] /\ served'[s] = served[s] /\ changed'[s] = changed[s]
    BY <2>1 DEF Policies!Edit, Policies!Serve, IInv, TypeOK
  <2>4. \A s \in Role : changed'[s] \/ Policies!Current(s)'
    BY <2>2, <2>3 DEF CInv, Policies!Current
  <2>. QED
    BY <1>1, <1>6, <2>4 DEF CInv, EditPolicies, reqVars
<1>. QED
  BY <1>3, <1>4, <1>5, <1>6 DEF Next

LEMMA InitCarries == Init => CInv
BY ZenonT(60) DEF Init, CInv, Carries, AsAuthorized, Policies!Init, Policies!Current

(* Both invariants of the pipeline.                                        *)
THEOREM CarriedInvariant == Spec => [](IInv /\ CInv)
<1>1. IInv /\ CInv /\ [Next]_vars => CInv'
  BY NextCarries
<1>. QED
  BY <1>1, InitCarries, PipelineInvariant, PTL DEF Spec

(* What justProxy sends goes to the backend of the region the policy was   *)
(* asked about, with the credentials of that backend, and with nothing of  *)
(* the authentication of the client, for any backends and requests.        *)
THEOREM ForwardedOnlyAsAuthorized == Spec => []ForwardedAsAuthorized
<1>1. CInv => ForwardedAsAuthorized
  BY DEF CInv, AsAuthorized, ForwardedAsAuthorized
<1>. QED
  BY <1>1, CarriedInvariant, PTL

(* The policy a request passes by, if no change of it is pending.          *)
LEMMA PassesByPolicy ==
    ASSUME IInv, CInv, [Next]_vars, NEW q \in Slot, stage[q] = "policy", stage'[q] = "proxy",
           ~ changed[req[q].role]
    PROVE  LET p == policy[req[q].role] IN
           /\ p # None /\ p \notin Broken
           /\ req[q].op \in DOMAIN IamAction
           /\ <<IamAction[req[q].op], TargetRegion(req[q])>> \in Grants[p]
<1>1. stage \in [Slot -> Stage]
  BY DEF IInv, TypeOK
<1>2. PICK s \in Slot : Handle(s) \/ Awaited(s) \/ Client(s)
  <2>1. \E s \in Slot : Handle(s) \/ Awaited(s) \/ Client(s)
    BY DEF Next, Tick, EditPolicies, vars, reqVars
  <2>. QED
    BY <2>1
<1>3. s = q
  <2>1. CASE Client(s)
    BY <1>1, <2>1 DEF Client, Arrive, Goto
  <2>2. CASE Handle(s) \/ Awaited(s)
    BY <2>2, HandledAlone DEF CInv
  <2>. QED
    BY <1>2, <2>1, <2>2
<1>4. EvaluatePolicy(q)
  BY <1>1, <1>2, <1>3 DEF Client, Arrive, Awaited, WriteErrorResponse, UpstreamFails,
     UpstreamAnswers, Handle,
     RegisterOperation, Panic, AuthNNormal, AuthNPresigned, AuthNUrl, VerifyClaims, Forward,
     LogRequest
<1>5. PICK p \in Answers(req[q].role) : FailOr(q, PolicyError(q, p), "proxy")
  BY <1>4 DEF EvaluatePolicy
<1>6. PolicyError(q, p) = "none"
  BY <1>1, <1>5 DEF FailOr, Fail, Goto
<1>7. p # None /\ p \notin Broken /\ ctx[q].op \in DOMAIN IamAction
      /\ <<IamAction[ctx[q].op], ctx[q].region>> \in Grants[p]
  BY <1>6 DEF PolicyError
<1>8. ctx[q].op = req[q].op /\ ctx[q].region = TargetRegion(req[q])
  BY DEF IInv, StagesRelyOn, CInv, Carries
<1>9. p = policy[req[q].role]
  <2>1. req[q].role \in Role
    BY Running DEF Request
  <2>. QED
    BY <1>5, <2>1 DEF CInv, Policies!Current, Answers
<1>. QED
  BY <1>7, <1>8, <1>9, Zenon

(* Whenever policies are edited, authorizeS3Action only lets a request pass*)
(* by a policy in force that allows it, unless the change of that policy   *)
(* is still to be dealt with.                                              *)
THEOREM OnlyCurrentPolicyAllows == Spec => AllowedByCurrentPolicy
<1>1. IInv /\ CInv /\ [Next]_vars =>
        [\A q \in Slot :
          stage[q] = "policy" /\ stage'[q] = "proxy" =>
              LET p == policy[req[q].role] IN
              \/ changed[req[q].role]
              \/ /\ p # None /\ p \notin Broken
                 /\ req[q].op \in DOMAIN IamAction
                 /\ <<IamAction[req[q].op], TargetRegion(req[q])>> \in Grants[p]]_vars
  BY PassesByPolicy
<1>. QED
  BY <1>1, CarriedInvariant, PTL DEF Spec, AllowedByCurrentPolicy

(* justProxy refuses what was authorized only because of the backend, or as*)
(* no URL there can be made and signed: the signed headers that it needs   *)
(* were remembered, of every kind of request.                              *)
THEOREM OnlyBackendsRefuse == Spec => RefusedForBackendOnly
<1>1. ASSUME IInv, CInv, [Next]_vars, NEW q \in Slot, stage[q] = "proxy", stage'[q] = "drain"
      PROVE  LET b == Backend(TargetRegion(req[q])) IN
             \/ b = NoBackend \/ ~ req[q].sendable
             \/ IsStreaming(req[q].headers) /\ b \notin Streaming
  <2>0. stage \in [Slot -> Stage]
    BY <1>1 DEF IInv, TypeOK
  <2>1. \E s \in Slot : Handle(s) \/ Awaited(s) \/ Client(s)
    BY <1>1 DEF Next, Tick, EditPolicies, vars, reqVars
  <2>2. PICK s \in Slot : Handle(s) \/ Awaited(s) \/ Client(s)
    BY <2>1
  <2>3. s = q
    <3>1. CASE Client(s)
      BY <1>1, <2>0, <3>1 DEF Client, Arrive, Goto
    <3>2. CASE Handle(s) \/ Awaited(s)
      BY <1>1, <3>2, HandledAlone DEF CInv
    <3>. QED
      BY <2>2, <3>1, <3>2
  <2>4. Forward(q)
    BY <1>1, <2>0, <2>2, <2>3 DEF Client, Arrive, Awaited, WriteErrorResponse, UpstreamFails,
       UpstreamAnswers, Handle,
       RegisterOperation, Panic, Goto, AuthNNormal, AuthNPresigned, AuthNUrl, VerifyClaims,
       EvaluatePolicy, LogRequest
  <2>5. ProxyError(q) # "none"
    BY <1>1, <2>0, <2>4 DEF Forward, FailOr, Goto
  <2>6. /\ ctx[q].region = TargetRegion(req[q]) /\ ctx[q].signed = Remembered(req[q])
        /\ IsStreaming(msg[q].headers) <=> IsStreaming(req[q].headers)
    BY <1>1 DEF CInv, Carries
  <2>7. TrustedHeaders(req[q], ctx[q].signed) # {}
    BY <2>6 DEF TrustedHeaders, Remembered, SignedHeaders, IsPresigned
  <2>. QED
    BY <2>5, <2>6, <2>7 DEF ProxyError
<1>2. IInv /\ CInv /\ [Next]_vars =>
        [\A q \in Slot :
          stage[q] = "proxy" /\ stage'[q] = "drain" =>
              LET b == Backend(TargetRegion(req[q])) IN
              \/ b = NoBackend \/ ~ req[q].sendable
              \/ IsStreaming(req[q].headers) /\ b \notin Streaming]_vars
  BY <1>1
<1>. QED
  BY <1>2, CarriedInvariant, PTL DEF Spec, RefusedForBackendOnly

----------------------------------------------------------------------------
(* The log and the metrics                                                 *)

(* What the log of a request says, and what it rests on while the request  *)
(* is handled: neither the RequestCtx nor the client has an outcome yet,   *)
(* unless no route matched, and such a request gets no further than to its *)
(* policy; then there is an error, which is still to be sent.              *)
Logged(q) ==
    /\ stage[q] \in {"new", "route"} => wire[q] = 0
    /\ stage[q] \notin {"drain", "log", "done"} => ctx[q].upstream = 0 /\ ctx[q].err = "-"
    /\ stage[q] \notin {"log", "done"} /\ ctx[q].op # "unrouted" => wire[q] = 0
    /\ stage[q] = "drain" =>
        /\ ctx[q].err # "-" /\ ctx[q].status = Status[ctx[q].err]
        /\ ctx[q].upstream = 0 <=> sent[q] = None
        /\ ctx[q].upstream < 0 <=> ctx[q].err = "UpstreamError"
        /\ ~ ctx[q].upstream > 0
    /\ stage[q] \in {"proxy", "upstream"} => ctx[q].op # "unrouted"
    /\ stage[q] = "upstream" => sent[q] # None
    /\ stage[q] \in {"log", "done"} =>
        /\ ctx[q].upstream = 0 <=> sent[q] = None
        /\ ctx[q].upstream < 0 <=> ctx[q].err = "UpstreamError"
        /\ ctx[q].upstream > 0 => ctx[q].err = "-" /\ wire[q] = ctx[q].upstream
        /\ ctx[q].err # "-" /\ ctx[q].op # "unrouted" => wire[q] = Status[ctx[q].err]

LEMMA OthersLog ==
    ASSUME NEW p \in Slot, Logged(p), stage'[p] = stage[p], ctx'[p] = ctx[p],
           wire'[p] = wire[p], sent'[p] = sent[p]
    PROVE  Logged(p)'
BY DEF Logged

(* A check that fails tells so.                                            *)
LEMMA FailLogs ==
    ASSUME IInv, NEW q \in Slot, Logged(q), NEW err \in Codes \ {"UpstreamError"}, Fail(q, err),
           stage[q] \notin {"new", "upstream", "drain", "log", "done"}, sent'[q] = sent[q],
           wire'[q] = wire[q]
    PROVE  Logged(q)'
<1>1. /\ stage \in [Slot -> Stage] /\ ctx \in [Slot -> Ctx] /\ wire \in [Slot -> Statuses]
      /\ ctx[q] \in Ctx /\ sent[q] = None
  BY Running DEF IInv, TypeOK
<1>2. stage'[q] = "drain" /\ ctx'[q] = WithAnswer(ctx[q], err, Status[err])
  BY <1>1 DEF Fail, Goto, WithAnswer
<1>3. /\ ctx'[q].err = err /\ ctx'[q].op = ctx[q].op /\ ctx'[q].upstream = ctx[q].upstream
      /\ ctx'[q].status = Status[err]
  BY <1>1, <1>2 DEF WithAnswer, Ctx
<1>4. err # "-"
  BY DEF Codes
<1>5. ctx[q].upstream = 0 /\ err # "UpstreamError" /\ (ctx[q].op # "unrouted" => wire[q] = 0)
  BY DEF Logged
<1>. QED
  BY <1>1, <1>2, <1>3, <1>4, <1>5 DEF Logged

(* One that succeeds leaves that to the next stage.                        *)
LEMMA PassLogs ==
    ASSUME IInv, NEW q \in Slot, Logged(q), NEW s \in Stage \ {"new", "route", "drain", "log", "done"},
           Goto(q, s), stage[q] \notin {"drain", "log", "done"}, wire'[q] = wire[q],
           ctx'[q].op = ctx[q].op, ctx'[q].err = ctx[q].err, ctx'[q].upstream = ctx[q].upstream,
           s \in {"proxy", "upstream"} => ctx[q].op # "unrouted",
           s = "upstream" => sent'[q] # None
    PROVE  Logged(q)'
<1>1. stage'[q] = s
  BY DEF Goto, IInv, TypeOK
<1>. QED
  BY <1>1 DEF Logged

LEMMA FailOrLogs ==
    ASSUME IInv, NEW q \in Slot, Logged(q), NEW err \in (Codes \ {"UpstreamError"}) \cup {"none"},
           NEW s \in {"authz", "policy", "proxy"}, FailOr(q, err, s),
           stage[q] \notin {"new", "upstream", "drain", "log", "done"}, sent'[q] = sent[q],
           err = "none" /\ s = "proxy" => ctx[q].op # "unrouted"
    PROVE  Logged(q)'
<1>1. CASE err # "none" /\ Fail(q, err) /\ UNCHANGED wire
  BY <1>1, FailLogs
<1>2. CASE err = "none" /\ Goto(q, s) /\ UNCHANGED <<ctx, wire>>
  BY <1>2, PassLogs DEF Stage
<1>. QED
  BY <1>1, <1>2 DEF FailOr

LEMMA RegisterOperationLogs ==
    ASSUME IInv, NEW q \in Slot, Logged(q), RegisterOperation(q)
    PROVE  Logged(q)'
<1>1. /\ stage[q] = "route" /\ Goto(q, "authn") /\ UNCHANGED sent
      /\ stage \in [Slot -> Stage] /\ ctx \in [Slot -> Ctx] /\ wire \in [Slot -> Statuses]
  BY CtxType DEF RegisterOperation, IInv, TypeOK
<1>2. ctx[q] \in Ctx /\ ctx[q].op = "unrouted" /\ stage'[q] = "authn"
  BY <1>1, Running DEF Goto
<1>3. ctx[q].upstream = 0 /\ ctx[q].err = "-"
  BY <1>1 DEF Logged
<1>. wire[q] = 0
  BY <1>1 DEF Logged
<1>4. CASE req[q].op = "unrouted"
  <2>1. ctx'[q] = WithStatus(ctx[q], 404)
    BY <1>1, <1>4 DEF RegisterOperation, WithStatus
  <2>2. ctx'[q].op = "unrouted" /\ ctx'[q].upstream = 0 /\ ctx'[q].err = "-"
    BY <1>2, <1>3, <2>1 DEF WithStatus, Ctx
  <2>. QED
    BY <1>2, <2>2 DEF Logged
<1>5. CASE req[q].op # "unrouted"
  <2>1. ctx'[q] = WithOp(ctx[q], req[q].op) /\ wire' = wire
    BY <1>1, <1>5 DEF RegisterOperation, WithOp
  <2>2. ctx'[q].upstream = 0 /\ ctx'[q].err = "-"
    BY <1>2, <1>3, <2>1 DEF WithOp, Ctx
  <2>. QED
    BY <1>2, <2>1, <2>2 DEF Logged
<1>. QED
  BY <1>4, <1>5

LEMMA AuthNNormalLogs ==
    ASSUME IInv, NEW q \in Slot, Logged(q), AuthNNormal(q)
    PROVE  Logged(q)'
<1> DEFINE r == req[q]
           err == NormalError(r, now)
<1>1. stage[q] = "authn" /\ UNCHANGED sent
  BY DEF AuthNNormal
<1>2. CASE err # "none"
  <2>1. Fail(q, err) /\ UNCHANGED wire /\ err \in Codes \ {"UpstreamError"}
    BY <1>2, NormalErrorIs DEF AuthNNormal, Codes
  <2>. QED
    BY <1>1, <2>1, FailLogs
<1>3. CASE err = "none"
  <2>1. /\ Goto(q, "authz") /\ UNCHANGED wire
        /\ ctx' = [ctx EXCEPT ![q] = WithRegion(ctx[q], TargetRegion(r), SignedHeaders(r))]
    BY <1>3 DEF AuthNNormal, Fail, WithRegion
  <2>2. ctx'[q] = WithRegion(ctx[q], TargetRegion(r), SignedHeaders(r)) /\ ctx[q] \in Ctx
    BY <1>1, <2>1, Running
  <2>3. ctx'[q].op = ctx[q].op /\ ctx'[q].err = ctx[q].err /\ ctx'[q].upstream = ctx[q].upstream
    BY <2>2 DEF WithRegion, Ctx
  <2>. QED
    BY <1>1, <2>1, <2>3, PassLogs DEF Stage
<1>. QED
  BY <1>2, <1>3

LEMMA AuthNPresignedLogs ==
    ASSUME IInv, NEW q \in Slot, Logged(q), AuthNPresigned(q)
    PROVE  Logged(q)'
<1> DEFINE r == req[q]
           err == PresignedError(r, now)
           signed == IF r.auth = "v4" THEN SignedHeaders(r) ELSE {}
<1>1. stage[q] = "authn" /\ UNCHANGED sent
  BY DEF AuthNPresigned
<1>2. CASE err # "none"
  <2>1. Fail(q, err) /\ UNCHANGED wire /\ err \in Codes \ {"UpstreamError"}
    BY <1>2, PresignedErrorIs DEF AuthNPresigned, Codes
  <2>. QED
    BY <1>1, <2>1, FailLogs
<1>3. CASE err = "none"
  <2>1. /\ Goto(q, "url") /\ UNCHANGED wire
        /\ ctx' = [ctx EXCEPT ![q] = WithRegion(ctx[q], TargetRegion(r), signed)]
    BY <1>3 DEF AuthNPresigned, Fail, WithRegion
  <2>2. ctx'[q] = WithRegion(ctx[q], TargetRegion(r), signed) /\ ctx[q] \in Ctx
    BY <1>1, <2>1, Running
  <2>3. ctx'[q].op = ctx[q].op /\ ctx'[q].err = ctx[q].err /\ ctx'[q].upstream = ctx[q].upstream
    BY <2>2 DEF WithRegion, Ctx
  <2>. QED
    BY <1>1, <2>1, <2>3, PassLogs DEF Stage
<1>. QED
  BY <1>2, <1>3

(* The checks whose outcome is FailOr                                      *)
LEMMA ChecksLog ==
    ASSUME IInv, NEW q \in Slot, Logged(q), AuthNUrl(q) \/ VerifyClaims(q) \/ EvaluatePolicy(q)
    PROVE  Logged(q)'
<1>1. CASE AuthNUrl(q)
  <2> DEFINE err == UrlError(req[q], msg[q].query, msg[q].headers, now)
  <2>1. stage[q] = "url" /\ FailOr(q, err, "authz") /\ UNCHANGED sent
    BY <1>1 DEF AuthNUrl
  <2>2. err \in (Codes \ {"UpstreamError"}) \cup {"none"}
    BY UrlErrorIs DEF Codes
  <2>. HIDE DEF err
  <2>. QED
    BY <2>1, <2>2, FailOrLogs
<1>2. CASE VerifyClaims(q)
  <2>1. PICK err \in {"none", "InvalidSecurity"} : FailOr(q, err, "policy")
    BY <1>2 DEF VerifyClaims
  <2>2. stage[q] = "authz" /\ UNCHANGED sent
    BY <1>2 DEF VerifyClaims
  <2>3. err \in (Codes \ {"UpstreamError"}) \cup {"none"}
    BY <2>1 DEF Codes
  <2>. QED
    BY <2>1, <2>2, <2>3, FailOrLogs
<1>3. CASE EvaluatePolicy(q)
  <2>1. PICK p : FailOr(q, PolicyError(q, p), "proxy")
    BY <1>3 DEF EvaluatePolicy
  <2>2. stage[q] = "policy" /\ UNCHANGED sent
    BY <1>3 DEF EvaluatePolicy
  <2>3. PolicyError(q, p) \in (Codes \ {"UpstreamError"}) \cup {"none"}
    BY DEF PolicyError, Codes
  <2>4. PolicyError(q, p) = "none" => ctx[q].op # "unrouted"
    BY DEF PolicyError, IamAction, Read
  <2>. QED
    BY <2>1, <2>2, <2>3, <2>4, FailOrLogs
<1>. QED
  BY <1>1, <1>2, <1>3

LEMMA ForwardLogs ==
    ASSUME IInv, DOMAIN sent = Slot, NEW q \in Slot, Logged(q), Forward(q)
    PROVE  Logged(q)'
<1>1. stage[q] = "proxy" /\ FailOr(q, ProxyError(q), "upstream")
  BY DEF Forward
<1>2. CASE ProxyError(q) = "none"
  <2>1. sent'[q] = ToBackend(q)
    BY <1>2 DEF Forward
  <2>2. sent'[q] # None
    BY <1>1, <1>2, <2>1, ToBackendType, NoneAssumption
  <2>3. Goto(q, "upstream") /\ UNCHANGED <<ctx, wire>>
    BY <1>1, <1>2 DEF FailOr
  <2>4. ctx[q].op # "unrouted"
    BY <1>1 DEF Logged
  <2>. QED
    BY <1>1, <2>2, <2>3, <2>4, PassLogs DEF Stage
<1>3. CASE ProxyError(q) # "none"
  <2>1. Fail(q, ProxyError(q)) /\ UNCHANGED <<sent, wire>>
    BY <1>1, <1>3 DEF FailOr, Forward
  <2>2. ProxyError(q) \in Codes \ {"UpstreamError"}
    BY <1>3 DEF ProxyError, Codes
  <2>. QED
    BY <1>1, <2>1, <2>2, FailLogs
<1>. QED
  BY <1>2, <1>3

(* Here the request is known to be sent, and the client gets what is       *)
(* logged, or the answer to the error that is.                             *)
LEMMA UpstreamLogs ==
    ASSUME IInv, NEW q \in Slot, Logged(q), Awaited(q)
    PROVE  Logged(q)'
<1>0. /\ stage \in [Slot -> Stage] /\ ctx \in [Slot -> Ctx] /\ wire \in [Slot -> Statuses]
      /\ UNCHANGED sent
  BY CtxType, ZenonT(60) DEF IInv, TypeOK, Awaited, WriteErrorResponse, UpstreamFails, UpstreamAnswers
<1>1. ASSUME stage[q] = "upstream"
      PROVE  ctx[q] \in Ctx /\ sent'[q] # None /\ wire[q] = 0 /\ ctx[q].err = "-"
  BY <1>0, <1>1 DEF Logged
<1>2. CASE UpstreamFails(q)
  <2>1. ctx'[q] = WithFailure(ctx[q], -1, "UpstreamError", 500)
    BY <1>0, <1>2 DEF UpstreamFails, WithFailure
  <2>2. stage[q] = "upstream" /\ stage'[q] = "drain" /\ wire' = wire
    BY <1>0, <1>2 DEF UpstreamFails, Goto
  <2>3. ctx'[q].upstream = -1 /\ ctx'[q].err = "UpstreamError" /\ ctx'[q].status = 500
    BY <1>1, <2>1, <2>2 DEF WithFailure, Ctx
  <2>. QED
    BY <1>1, <2>2, <2>3 DEF Logged, Status
<1>3. ASSUME NEW s \in UpstreamStatus, UpstreamAnswers(q, s)
      PROVE  Logged(q)'
  <2>1. ctx'[q] = WithUpstream(ctx[q], s, s) /\ s > 0 /\ s \in Int
    BY <1>0, <1>3, S3ProxyAssumption DEF UpstreamAnswers, WithUpstream
  <2>2. stage[q] = "upstream" /\ stage'[q] = "log"
    BY <1>0, <1>3 DEF UpstreamAnswers, Goto
  <2>3. ctx'[q].upstream = s /\ ctx'[q].err = "-"
    BY <1>1, <2>1, <2>2 DEF WithUpstream, Ctx
  <2>4. wire'[q] = s
    BY <1>0, <1>1, <1>3, <2>2 DEF UpstreamAnswers, Wired
  <2>. QED
    BY <1>1, <2>1, <2>2, <2>3, <2>4 DEF Logged
<1>4. CASE WriteErrorResponse(q)
  <2>1. stage[q] = "drain" /\ stage'[q] = "log" /\ ctx' = ctx
    BY <1>0, <1>4 DEF WriteErrorResponse, Goto
  <2>2. ctx[q].op # "unrouted" => wire'[q] = Status[ctx[q].err]
    BY <1>0, <1>4, <2>1 DEF WriteErrorResponse, Wired, Logged
  <2>. QED
    BY <1>0, <2>1, <2>2 DEF Logged
<1>. QED
  BY <1>2, <1>3, <1>4 DEF Awaited

LEMMA HandleLogs ==
    ASSUME IInv, DOMAIN sent = Slot, NEW q \in Slot, Logged(q), Handle(q)
    PROVE  Logged(q)'
<1>0. /\ stage \in [Slot -> Stage] /\ ctx \in [Slot -> Ctx] /\ wire \in [Slot -> Statuses]
  BY CtxType DEF IInv, TypeOK
<1>1. CASE Panic(q)
  <2>1. stage[q] \in {"authn", "proxy"} /\ stage'[q] = "log" /\ wire'[q] = 0 /\ UNCHANGED <<ctx, sent>>
    BY <1>0, <1>1 DEF Panic, Goto
  <2>2. sent[q] = None
    BY <2>1, Running
  <2>. QED
    BY <2>1, <2>2 DEF Logged
<1>2. CASE LogRequest(q)
  <2>1. stage[q] = "log" /\ stage'[q] = "done" /\ UNCHANGED <<ctx, wire, sent>>
    BY <1>0, <1>2 DEF LogRequest, Goto
  <2>. QED
    BY <2>1 DEF Logged
<1>. QED
  BY <1>1, <1>2, RegisterOperationLogs, AuthNNormalLogs, AuthNPresignedLogs, ChecksLog,
     ForwardLogs
     DEF Handle

LInv == \A q \in Slot : Logged(q)

LEMMA NextLogs ==
    ASSUME IInv, CInv, LInv, [Next]_vars
    PROVE  LInv'
<1>0. /\ stage \in [Slot -> Stage] /\ ctx \in [Slot -> Ctx] /\ wire \in [Slot -> Statuses]
  BY CtxType DEF IInv, TypeOK
<1>1. ASSUME UNCHANGED <<stage, ctx, wire, sent>>
      PROVE  LInv'
  BY <1>1 DEF LInv, Logged
<1>2. ASSUME NEW q \in Slot, Handle(q) \/ Awaited(q)
      PROVE  LInv'
  <2>1. \A p \in Slot \ {q} : stage'[p] = stage[p] /\ ctx'[p] = ctx[p] /\ sent'[p] = sent[p]
    BY <1>2, HandledAlone, SMTT(60) DEF CInv
  <2>2. wire' = wire \/ \E s : wire' = [wire EXCEPT ![q] = s]
    BY <1>2, ZenonT(60) DEF Handle, Awaited, WriteErrorResponse, RegisterOperation, Panic,
       AuthNNormal, AuthNPresigned,
       AuthNUrl, VerifyClaims, EvaluatePolicy, Forward, LogRequest, UpstreamFails,
       UpstreamAnswers, FailOr, Fail, Wired
  <2>3. \A p \in Slot \ {q} : wire'[p] = wire[p]
    BY <1>0, <2>2
  <2>4. \A p \in Slot \ {q} : Logged(p)'
    BY <2>1, <2>3, OthersLog DEF LInv
  <2>5. Logged(q)'
    BY <1>2, HandleLogs, UpstreamLogs DEF LInv, CInv
  <2>. QED
    BY <2>4, <2>5 DEF LInv
<1>3. ASSUME NEW q \in Slot, Client(q)
      PROVE  LInv'
  <2>1. PICK r \in Inputs : Arrive(q, r)
    BY <1>3 DEF Client
  <2>2. stage[q] = "new" /\ stage'[q] = "route" /\ UNCHANGED <<ctx, wire, sent>>
    BY <1>0, <2>1 DEF Arrive, Goto
  <2>3. \A p \in Slot \ {q} : stage'[p] = stage[p]
    BY <1>0, <2>1 DEF Arrive, Goto
  <2>4. \A p \in Slot \ {q} : Logged(p)'
    BY <2>2, <2>3, OthersLog DEF LInv
  <2>5. Logged(q)'
    BY <2>2 DEF Logged, LInv
  <2>. QED
    BY <2>4, <2>5 DEF LInv
<1>. QED
  BY <1>1, <1>2, <1>3 DEF Next, Tick, EditPolicies, vars, reqVars

LEMMA LogInvariant == Spec => [](IInv /\ CInv /\ LInv)
<1>1. Init => LInv
  <2> SUFFICES ASSUME Init, NEW q \in Slot PROVE Logged(q)
    BY DEF LInv
  <2>1. stage[q] = "new" /\ wire[q] = 0 /\ ctx[q].upstream = 0 /\ ctx[q].err = "-"
    BY DEF Init
  <2>. QED
    BY <2>1 DEF Logged
<1>2. IInv /\ CInv /\ LInv /\ [Next]_vars => LInv'
  BY NextLogs
<1>. QED
  BY <1>1, <1>2, CarriedInvariant, PTL DEF Spec

(* The log of a request tells what became of it, however it is answered:   *)
(* LogMiddleware logs the upstream status if and only if something was     *)
(* sent upstream, and the error that the client got.                       *)
THEOREM LogIsTrue == Spec => []LogTellsOutcome
<1>1. LInv => LogTellsOutcome
  BY DEF LInv, Logged, LogTellsOutcome
<1>. QED
  BY <1>1, LogInvariant, PTL

(* The requests that are being served                                      *)
Active == {q \in Slot : stage[q] \notin {"new", "done"}}

(* Requests are counted when LogMiddleware starts, and once more in what it*)
(* deferred, so that they are counted twice even if the handler panics.    *)
THEOREM MetricsCount ==
    ASSUME IsFiniteSet(Slot)
    PROVE  Spec => []MetricsAgree
<1>1. Init => MetricsAgree
  <2> SUFFICES ASSUME Init PROVE MetricsAgree
    OBVIOUS
  <2>1. Active = {} /\ metrics.started = 0 /\ metrics.finished = 0
    BY DEF Init, Active
  <2>. QED
    BY <2>1, FS_EmptySet DEF MetricsAgree, Active
<1>2. IInv /\ CInv /\ MetricsAgree /\ [Next]_vars => MetricsAgree'
  <2> SUFFICES ASSUME IInv, CInv, MetricsAgree, [Next]_vars PROVE MetricsAgree'
    OBVIOUS
  <2>1. /\ stage \in [Slot -> Stage] /\ metrics \in [started : Nat, finished : Nat, failed : Nat]
        /\ IsFiniteSet(Active) /\ metrics.started - metrics.finished = Cardinality(Active)
        /\ Cardinality(Active) \in Nat
    BY FS_Subset, FS_CardinalityType DEF IInv, TypeOK, MetricsAgree, Active
  <2>2. ASSUME Active' = Active, UNCHANGED metrics
        PROVE  MetricsAgree'
    BY <2>1, <2>2 DEF MetricsAgree, Active
  <2>3. ASSUME NEW q \in Slot, Client(q)
        PROVE  MetricsAgree'
    <3>1. /\ stage[q] = "new" /\ stage' = [stage EXCEPT ![q] = "route"]
          /\ metrics' = [metrics EXCEPT !.started = @ + 1]
      BY <2>3 DEF Client, Arrive, Goto
    <3>2. Active' = Active \cup {q} /\ q \notin Active
      BY <2>1, <3>1 DEF Active
    <3>3. Cardinality(Active') = Cardinality(Active) + 1
      BY <2>1, <3>2, FS_AddElement
    <3>4. metrics'.started = metrics.started + 1 /\ metrics'.finished = metrics.finished
      BY <2>1, <3>1
    <3>5. metrics'.started - metrics'.finished = Cardinality(Active')
      BY <2>1, <3>3, <3>4
    <3>. QED
      BY <3>5 DEF MetricsAgree, Active
  <2>4. ASSUME NEW q \in Slot, LogRequest(q)
        PROVE  MetricsAgree'
    <3>1. /\ stage[q] = "log" /\ stage' = [stage EXCEPT ![q] = "done"]
          /\ metrics' = [metrics EXCEPT !.finished = @ + 1, !.failed = @ + 1]
      BY <2>4 DEF LogRequest, Goto
    <3>2. Active' = Active \ {q} /\ q \in Active
      BY <2>1, <3>1 DEF Active
    <3>3. Cardinality(Active') = Cardinality(Active) - 1
      BY <2>1, <3>2, FS_RemoveElement
    <3>4. metrics'.started = metrics.started /\ metrics'.finished = metrics.finished + 1
      BY <2>1, <3>1
    <3>5. metrics'.started - metrics'.finished = Cardinality(Active')
      BY <2>1, <3>3, <3>4
    <3>. QED
      BY <3>5 DEF MetricsAgree, Active
  <2>5. ASSUME NEW q \in Slot, Handle(q) \/ Awaited(q), ~ LogRequest(q)
        PROVE  MetricsAgree'
    <3>1. /\ metrics' = metrics /\ stage[q] \notin {"new", "done"}
          /\ \E s \in Stage \ {"new", "done"} : stage' = [stage EXCEPT ![q] = s]
      BY <2>5 DEF Handle, Awaited, WriteErrorResponse, RegisterOperation, Panic, AuthNNormal,
         AuthNPresigned, AuthNUrl,
         VerifyClaims, EvaluatePolicy, Forward, UpstreamFails, UpstreamAnswers, FailOr, Fail,
         Goto, Stage
    <3>2. Active' = Active
      BY <2>1, <3>1 DEF Active
    <3>. QED
      BY <2>2, <3>1, <3>2
  <2>6. CASE Tick \/ EditPolicies \/ UNCHANGED vars
    BY <2>2, <2>6 DEF Tick, EditPolicies, vars, reqVars, Active
  <2>. QED
    BY <2>3, <2>4, <2>5, <2>6 DEF Next
<1>. QED
  BY <1>1, <1>2, CarriedInvariant, PTL DEF Spec

----------------------------------------------------------------------------
(* What becomes of a request, once and for all                             *)

(* How far the handler of a request has got.                               *)
Rank == [new |-> 0, route |-> 1, authn |-> 2, url |-> 3, authz |-> 4, policy |-> 5, proxy |-> 6,
         upstream |-> 7, drain |-> 8, log |-> 9, done |-> 10]

(* A handler never goes back to a stage it has been through; what it has   *)
(* sent to a backend or answered it does not send or answer again, unless a*)
(* panic closes the connection; and the request it works on stays the one  *)
(* that arrived (AWSAuthN, justProxy).                                     *)
OnlyForward ==
    [][\A q \in Slot :
          /\ stage'[q] # stage[q] => Rank[stage'[q]] > Rank[stage[q]]
          /\ stage[q] # "new" => req'[q] = req[q] /\ start'[q] = start[q]
          /\ sent[q] # None => sent'[q] = sent[q]
          /\ wire[q] # 0 => wire'[q] = wire[q] \/ (wire'[q] = 0 /\ MayPanic(req[q]))]_vars

(* A request for which the client has been answered, as by the router if no*)
(* route matched, is not sent to a backend any more, nor one for which an  *)
(* error has been noted (RegisterOperation, justProxy).                    *)
OnlyUnansweredSent ==
    [][\A q \in Slot :
          sent[q] = None /\ sent'[q] # None =>
              wire[q] = 0 /\ ctx[q].err = "-" /\ ctx[q].op # "unrouted"]_vars

(* When its handler has ended, the client of a request has been answered,  *)
(* unless the handler may have panicked on its Credential.  With the       *)
(* fairness of FairSpec, which is left to TLC, this and OnlyForward make   *)
(* Answered (writeS3ErrorResponse).                                        *)
EndsAnswered ==
    \A q \in Slot : stage[q] \in {"log", "done"} /\ ~ MayPanic(req[q]) => wire[q] # 0

(* Where a step of a handler, or the answer of a backend, leads to.        *)
LEMMA StageMoves ==
    ASSUME IInv, NEW q \in Slot, Handle(q) \/ Awaited(q)
    PROVE  /\ UNCHANGED <<req, start>>
           /\ stage[q] # "new" /\ Rank[stage'[q]] > Rank[stage[q]]
           /\ \A p \in Slot \ {q} : stage'[p] = stage[p]
<1>1. stage \in [Slot -> Stage]
  BY DEF IInv, TypeOK
<1>2. UNCHANGED <<req, start>>
  BY ZenonT(60) DEF Handle, Awaited, WriteErrorResponse, RegisterOperation, Panic, AuthNNormal,
     AuthNPresigned, AuthNUrl, VerifyClaims, EvaluatePolicy, Forward, LogRequest, UpstreamFails,
     UpstreamAnswers
<1>3. \/ stage[q] = "route" /\ Goto(q, "authn")
      \/ stage[q] = "authn" /\ \E s \in {"url", "authz", "drain", "log"} : Goto(q, s)
      \/ stage[q] = "url" /\ \E s \in {"authz", "drain"} : Goto(q, s)
      \/ stage[q] = "authz" /\ \E s \in {"policy", "drain"} : Goto(q, s)
      \/ stage[q] = "policy" /\ \E s \in {"proxy", "drain"} : Goto(q, s)
      \/ stage[q] = "proxy" /\ \E s \in {"upstream", "drain", "log"} : Goto(q, s)
      \/ stage[q] = "upstream" /\ \E s \in {"drain", "log"} : Goto(q, s)
      \/ stage[q] = "drain" /\ Goto(q, "log")
      \/ stage[q] = "log" /\ Goto(q, "done")
  BY ZenonT(60) DEF Handle, Awaited, WriteErrorResponse, RegisterOperation, Panic, AuthNNormal,
     AuthNPresigned, AuthNUrl, VerifyClaims, EvaluatePolicy, Forward, LogRequest, UpstreamFails,
     UpstreamAnswers, FailOr, Fail
<1>. QED
  BY <1>1, <1>2, <1>3 DEF Goto, Stage, Rank

(* A check that succeeds or fails, of a request that is not through yet.   *)
Outcome(q) == wire' = wire /\ \E s \in Stage \ {"log", "done"} : Goto(q, s)

LEMMA FailOrIsOutcome ==
    ASSUME NEW q \in Slot, NEW err \in Codes \cup {"none"}, NEW s \in Stage \ {"log", "done"},
           FailOr(q, err, s)
    PROVE  Outcome(q)
BY Zenon DEF FailOr, Fail, Outcome, Stage

(* How each step of a handler ends: only the router answers and goes on.   *)
LEMMA Outcomes ==
    ASSUME NEW q \in Slot, Handle(q)
    PROVE  \/ Panic(q) \/ LogRequest(q)
           \/ Wired(q, 404) /\ Goto(q, "authn")
           \/ Outcome(q)
<1>1. CASE RegisterOperation(q)
  BY <1>1 DEF RegisterOperation, Outcome, Stage
<1>2. CASE AuthNNormal(q)
  <2>1. NormalError(req[q], now) \in Codes \cup {"none"}
    BY NormalErrorIs DEF Codes
  <2>. QED
    BY <1>2, <2>1, Zenon DEF AuthNNormal, Fail, Outcome, Stage
<1>3. CASE AuthNPresigned(q)
  <2>1. PresignedError(req[q], now) \in Codes \cup {"none"}
    BY PresignedErrorIs DEF Codes
  <2>. QED
    BY <1>3, <2>1, Zenon DEF AuthNPresigned, Fail, Outcome, Stage
<1>4. CASE AuthNUrl(q)
  <2>1. UrlError(req[q], msg[q].query, msg[q].headers, now) \in Codes \cup {"none"}
    BY UrlErrorIs DEF Codes
  <2>. QED
    BY <1>4, <2>1, FailOrIsOutcome DEF AuthNUrl, Stage
<1>5. CASE VerifyClaims(q)
  <2>1. PICK err \in {"none", "InvalidSecurity"} : FailOr(q, err, "policy")
    BY <1>5 DEF VerifyClaims
  <2>. QED
    BY <2>1, FailOrIsOutcome DEF Codes, Stage
<1>6. CASE EvaluatePolicy(q)
  <2>1. PICK p : FailOr(q, PolicyError(q, p), "proxy")
    BY <1>6 DEF EvaluatePolicy
  <2>2. PolicyError(q, p) \in Codes \cup {"none"}
    BY DEF PolicyError, Codes
  <2>. QED
    BY <2>1, <2>2, FailOrIsOutcome DEF Stage
<1>7. CASE Forward(q)
  <2>1. ProxyError(q) \in Codes \cup {"none"} /\ FailOr(q, ProxyError(q), "upstream")
    BY <1>7 DEF Forward, ProxyError, Codes
  <2>. QED
    BY <2>1, FailOrIsOutcome DEF Stage
<1>. QED
  BY <1>1, <1>2, <1>3, <1>4, <1>5, <1>6, <1>7, Zenon DEF Handle

(* Handlers only panic on a Credential.                                    *)
LEMMA PanicMay ==
    ASSUME NEW q \in Slot, Panic(q)
    PROVE  MayPanic(req[q])
BY DEF Panic, Panics, ProxyPanics, SigningCredential, CredentialIn, MayPanic

(* What a step does to the answer of its request: WriteHeader sends the    *)
(* first status only, and who goes on to the log has written one.          *)
LEMMA WireMoves ==
    ASSUME IInv, LInv, NEW q \in Slot, Handle(q) \/ Awaited(q)
    PROVE  /\ \A p \in Slot \ {q} : wire'[p] = wire[p]
           /\ wire[q] # 0 => wire'[q] = wire[q] \/ (wire'[q] = 0 /\ MayPanic(req[q]))
           /\ stage'[q] = "log" /\ ~ MayPanic(req[q]) => wire'[q] # 0
           /\ stage'[q] = "done" => stage[q] = "log" /\ wire'[q] = wire[q]
<1>1. stage \in [Slot -> Stage] /\ wire \in [Slot -> Statuses]
  BY CtxType DEF IInv, TypeOK
<1>2. CASE Panic(q)
  BY <1>1, <1>2, PanicMay DEF Panic, Goto
<1>3. CASE LogRequest(q)
  BY <1>1, <1>3 DEF LogRequest, Goto
<1>4. ASSUME NEW s \in Statuses, Wired(q, s)
      PROVE  /\ \A p \in Slot \ {q} : wire'[p] = wire[p]
             /\ wire[q] # 0 => wire'[q] = wire[q]
             /\ s # 0 => wire'[q] # 0
  BY <1>1, <1>4 DEF Wired
<1>5. ASSUME NEW s, Goto(q, s)
      PROVE  stage'[q] = s
  BY <1>1, <1>5 DEF Goto
<1>6. ASSUME NEW s \in Statuses, Wired(q, s), s # 0, Goto(q, "log")
      PROVE  /\ \A p \in Slot \ {q} : wire'[p] = wire[p]
             /\ wire[q] # 0 => wire'[q] = wire[q]
             /\ stage'[q] = "log" /\ wire'[q] # 0
  BY <1>4, <1>5, <1>6
<1>7. CASE Outcome(q)
  BY <1>5, <1>7 DEF Outcome
<1>8. CASE Wired(q, 404) /\ Goto(q, "authn")
  <2>1. 404 \in Statuses
    BY DEF Statuses
  <2>. QED
    BY <1>4, <1>5, <1>8, <2>1
<1>9. CASE Awaited(q)
  <2>1. CASE UpstreamFails(q)
    BY <1>5, <2>1 DEF UpstreamFails
  <2>3. CASE WriteErrorResponse(q)
    <3>1. ctx[q].err \in Codes /\ ctx[q].status = Status[ctx[q].err]
      BY <2>3, CtxType DEF WriteErrorResponse, LInv, Logged, IInv, TypeOK, Ctx, Codes, Status
    <3>. QED
      BY <1>6, <2>3, <3>1, StatusIs DEF WriteErrorResponse
  <2>2. ASSUME NEW s \in UpstreamStatus, UpstreamAnswers(q, s)
        PROVE  Goto(q, "log") /\ Wired(q, s) /\ s \in Statuses /\ s # 0
    BY <2>2, S3ProxyAssumption DEF UpstreamAnswers, Statuses
  <2>. QED
    BY <1>6, <1>9, <2>1, <2>2, <2>3 DEF Awaited
<1>. QED
  BY <1>2, <1>3, <1>7, <1>8, <1>9, Outcomes

(* Other steps leave requests that have arrived alone.                     *)
LEMMA OtherSteps ==
    ASSUME IInv, [Next]_vars, ~ \E q \in Slot : Handle(q) \/ Awaited(q)
    PROVE  /\ UNCHANGED <<ctx, wire, sent>>
           /\ \A q \in Slot :
                  \/ stage'[q] = stage[q] /\ req'[q] = req[q] /\ start'[q] = start[q]
                  \/ stage[q] = "new" /\ stage'[q] = "route"
<1>1. CASE UNCHANGED reqVars
  BY <1>1 DEF reqVars
<1>2. ASSUME NEW q \in Slot, Client(q)
      PROVE  /\ UNCHANGED <<ctx, wire, sent>>
             /\ \A p \in Slot :
                    \/ stage'[p] = stage[p] /\ req'[p] = req[p] /\ start'[p] = start[p]
                    \/ stage[p] = "new" /\ stage'[p] = "route"
  BY <1>2 DEF Client, Arrive, Goto, IInv, TypeOK
<1>. QED
  BY <1>1, <1>2 DEF Next, Tick, EditPolicies, vars

(* The answer of a request, however it was handled: writeS3ErrorResponse,  *)
(* or the copy of the backend's in justProxy.                              *)
THEOREM EndIsAnswer == Spec => []EndsAnswered
<1>1. Init => EndsAnswered
  BY DEF Init, EndsAnswered
<1>2. IInv /\ LInv /\ EndsAnswered /\ [Next]_vars => EndsAnswered'
  <2> SUFFICES ASSUME IInv, LInv, EndsAnswered, [Next]_vars,
                      NEW p \in Slot, stage'[p] \in {"log", "done"}, ~ MayPanic(req'[p])
               PROVE  wire'[p] # 0
    BY DEF EndsAnswered
  <2>1. ASSUME stage'[p] = stage[p], req'[p] = req[p], wire'[p] = wire[p]
        PROVE  wire'[p] # 0
    BY <2>1 DEF EndsAnswered
  <2>2. ASSUME NEW q \in Slot, Handle(q) \/ Awaited(q)
        PROVE  wire'[p] # 0
    <3>1. CASE p # q
      BY <2>1, <2>2, <3>1, StageMoves, WireMoves
    <3>2. CASE p = q
      <4>1. req' = req
        BY <2>2, StageMoves
      <4>2. CASE stage'[p] = "log"
        BY <2>2, <3>2, <4>1, <4>2, WireMoves
      <4>3. CASE stage'[p] = "done"
        BY <2>2, <3>2, <4>1, <4>3, WireMoves DEF EndsAnswered
      <4>. QED
        BY <4>2, <4>3
    <3>. QED
      BY <3>1, <3>2
  <2>3. CASE ~ \E q \in Slot : Handle(q) \/ Awaited(q)
    BY <2>1, <2>3, OtherSteps
  <2>. QED
    BY <2>2, <2>3
<1>. QED
  BY <1>1, <1>2, LogInvariant, PTL DEF Spec

(* What a step changes of what has been sent: Forward sends, once.         *)
LEMMA SentMoves ==
    ASSUME IInv, CInv, NEW q \in Slot, Handle(q) \/ Awaited(q)
    PROVE  /\ \A p \in Slot \ {q} : sent'[p] = sent[p]
           /\ sent[q] # None => sent'[q] = sent[q]
           /\ sent'[q] = sent[q] \/ stage[q] = "proxy" 
<1>1. stage[q] # "new" /\ (sent' = sent \/ Forward(q))
  BY ZenonT(60), StageMoves DEF Handle, Awaited, WriteErrorResponse, RegisterOperation, Panic,
     AuthNNormal, AuthNPresigned,
     AuthNUrl, VerifyClaims, EvaluatePolicy, LogRequest, UpstreamFails, UpstreamAnswers
<1>2. Forward(q) => stage[q] = "proxy" /\ sent[q] = None
  BY <1>1, Running DEF Forward
<1>. QED
  BY <1>1, <1>2, HandledAlone DEF CInv

(* The handlers of requests go forward, whatever other requests do.        *)
THEOREM HandlersGoForward == Spec => OnlyForward
<1>1. ASSUME IInv, CInv, LInv, [Next]_vars, NEW p \in Slot
      PROVE  /\ stage'[p] # stage[p] => Rank[stage'[p]] > Rank[stage[p]]
             /\ stage[p] # "new" => req'[p] = req[p] /\ start'[p] = start[p]
             /\ sent[p] # None => sent'[p] = sent[p]
             /\ wire[p] # 0 => wire'[p] = wire[p] \/ (wire'[p] = 0 /\ MayPanic(req[p]))
  <2>1. ASSUME NEW q \in Slot, Handle(q) \/ Awaited(q)
        PROVE  /\ stage'[p] # stage[p] => Rank[stage'[p]] > Rank[stage[p]]
               /\ req' = req /\ start' = start
               /\ sent[p] # None => sent'[p] = sent[p]
               /\ wire[p] # 0 => wire'[p] = wire[p] \/ (wire'[p] = 0 /\ MayPanic(req[p]))
    <3>1. CASE p # q
      BY <1>1, <2>1, <3>1, StageMoves, WireMoves, SentMoves
    <3>2. CASE p = q
      BY <1>1, <2>1, <3>2, StageMoves, WireMoves, SentMoves
    <3>. QED
      BY <3>1, <3>2
  <2>2. CASE ~ \E q \in Slot : Handle(q) \/ Awaited(q)
    BY <1>1, <2>2, OtherSteps DEF Rank
  <2>. QED
    BY <2>1, <2>2
<1>2. IInv /\ CInv /\ LInv /\ [Next]_vars =>
        [\A q \in Slot :
          /\ stage'[q] # stage[q] => Rank[stage'[q]] > Rank[stage[q]]
          /\ stage[q] # "new" => req'[q] = req[q] /\ start'[q] = start[q]
          /\ sent[q] # None => sent'[q] = sent[q]
          /\ wire[q] # 0 => wire'[q] = wire[q] \/ (wire'[q] = 0 /\ MayPanic(req[q]))]_vars
  BY <1>1
<1>. QED
  BY <1>2, LogInvariant, PTL DEF Spec, OnlyForward

(* A backend is not asked what the client has already been told.           *)
THEOREM AnsweredIsNotSent == Spec => OnlyUnansweredSent
<1>1. ASSUME IInv, CInv, LInv, [Next]_vars, NEW p \in Slot, sent[p] = None, sent'[p] # None
      PROVE  wire[p] = 0 /\ ctx[p].err = "-" /\ ctx[p].op # "unrouted"
  <2>1. stage[p] = "proxy"
    BY <1>1, OtherSteps, SentMoves
  <2>. QED
    BY <1>1, <2>1 DEF LInv, Logged
<1>2. IInv /\ CInv /\ LInv /\ [Next]_vars =>
        [\A q \in Slot :
          sent[q] = None /\ sent'[q] # None =>
              wire[q] = 0 /\ ctx[q].err = "-" /\ ctx[q].op # "unrouted"]_vars
  BY <1>1
<1>. QED
  BY <1>2, LogInvariant, PTL DEF Spec, OnlyUnansweredSent

----------------------------------------------------------------------------
(* Headers                                                                 *)

(* The headers of a request once it is authenticated, as reTargetRequest   *)
(* has them, and those that may be signed for a backend.                   *)
Checked(r) ==
    IF r.auth = "header"
    THEN ReAdd(Keep(r.headers, SignedHeaders(r) \cup AlwaysSign),
               Removed(r.headers, SignedHeaders(r) \cup AlwaysSign))
    ELSE Add(r.headers, "X-Amz-Content-Sha256", "proxy")

Retargeted(r) == Retarget(WithPayer(r, Checked(r)))
Trusted(r) == TrustedHeaders(r, Remembered(r))
Kept(r) == Trusted(r) \cup AlwaysSign

(* What a signature in such a request is known to cover, once it matches.  *)
Matches(r) ==
    /\ CoveredByCheck(r, r.headers) = r.signed
    /\ r.auth = "header" => r.headers["Authorization"] # <<>>

LEMMA Values ==
    /\ \A v \in Seq(Value) : v \o <<>> = v /\ <<>> \o v = v
    /\ \A v \in Seq(Value) : First(v) \in Seq(Value) /\ First(First(v)) = First(v)
    /\ \A v \in Seq(Value) : First(v) = <<>> <=> v = <<>>
    /\ \A v \in Seq(Value) : v # <<>> => Head(v) \in Value /\ Head(First(v)) = Head(v) /\ Len(v) > 0
                                         /\ v[1] = Head(v) /\ Len(v) \in Nat
    /\ \A v \in Seq(Value) : Append(v, "proxy") \in Seq(Value) /\ Append(v, "proxy") # <<>>
    /\ \A v \in Seq(Value) : v # <<>> => Head(Append(v, "proxy")) = Head(v)
    /\ \A v \in Seq(Value) : v # <<>> /\ Len(v) <= 1 => First(v) = v
    /\ <<>> \in Seq(Value) /\ <<"proxy">> \in Seq(Value) /\ <<"proxy">> # <<>>
<1>1. \A v \in Seq(Value) : v \o <<>> = v /\ <<>> \o v = v
  OBVIOUS
<1>2. \A v \in Seq(Value) : First(v) \in Seq(Value) /\ First(First(v)) = First(v)
  BY DEF First
<1>3. \A v \in Seq(Value) : First(v) = <<>> <=> v = <<>>
  BY DEF First
<1>4. \A v \in Seq(Value) : v # <<>> => Head(v) \in Value /\ Head(First(v)) = Head(v) /\ Len(v) > 0
                                         /\ v[1] = Head(v) /\ Len(v) \in Nat
  BY DEF First
<1>5. \A v \in Seq(Value) : Append(v, "proxy") \in Seq(Value) /\ Append(v, "proxy") # <<>>
  BY HeadersAre
<1>6. \A v \in Seq(Value) : v # <<>> => Head(Append(v, "proxy")) = Head(v)
  OBVIOUS
<1>7. \A v \in Seq(Value) : v # <<>> /\ Len(v) <= 1 => First(v) = v
  <2> SUFFICES ASSUME NEW v \in Seq(Value), v # <<>>, Len(v) <= 1 PROVE First(v) = v
    OBVIOUS
  <2>1. Len(v) > 0 /\ Len(v) \in Nat
    BY <1>4
  <2>4. \A k \in Nat : k > 0 /\ k <= 1 => k = 1
    OBVIOUS
  <2>5. Len(v) = 1
    BY <2>1, <2>4, Zenon
  <2>2. Len(<<Head(v)>>) = 1 /\ <<Head(v)>>[1] = v[1] /\ <<Head(v)>> \in Seq(Value)
    OBVIOUS
  <2>3. <<Head(v)>> = v
    BY <2>2, <2>5, SeqEqual
  <2>. QED
    BY <2>3 DEF First
<1>8. <<>> \in Seq(Value) /\ <<"proxy">> \in Seq(Value) /\ <<"proxy">> # <<>>
  BY HeadersAre
<1>. QED
  BY <1>1, <1>2, <1>3, <1>4, <1>5, <1>6, <1>7, <1>8

(* Header by header: after authentication,                                 *)
LEMMA CheckedAt ==
    ASSUME NEW r \in Request, NEW n \in Name
    PROVE  /\ r.headers[n] \in Seq(Value)
           /\ r.auth = "header" =>
                Checked(r)[n] = IF n \in SignedHeaders(r) \cup AlwaysSign THEN r.headers[n]
                                ELSE First(r.headers[n])
           /\ r.auth # "header" =>
                Checked(r)[n] = IF n = "X-Amz-Content-Sha256" THEN Append(r.headers[n], "proxy")
                                ELSE r.headers[n]
           /\ Checked(r) \in Headers
<1>1. r.headers \in [Name -> Seq(Value)]
  BY HeadersAre DEF Request
<1>2. r.auth = "header" => Checked(r)[n] = IF n \in SignedHeaders(r) \cup AlwaysSign THEN r.headers[n]
                                           ELSE First(r.headers[n])
  BY <1>1, Values DEF Checked, ReAdd, Keep, Removed
<1>3. r.auth # "header" =>
        Checked(r)[n] = IF n = "X-Amz-Content-Sha256" THEN Append(r.headers[n], "proxy") ELSE r.headers[n]
  BY <1>1, HeadersAre DEF Checked, Add
<1>4. Checked(r) \in Headers
  BY <1>1, HeadersAre, DelSetKeepType DEF Checked
<1>. QED
  BY <1>1, <1>2, <1>3, <1>4

(* for the backend before it is signed,                                    *)
LEMMA RetargetedAt ==
    ASSUME NEW r \in Request, NEW n \in Name
    PROVE  /\ Retargeted(r)[n] =
                IF n \in {"Authorization", "X-Amz-Security-Token"} THEN <<>>
                ELSE IF n = "Host" \/ (r.payer /\ n = "X-Amz-Request-Payer") THEN <<"proxy">>
                ELSE Checked(r)[n]
           /\ Retargeted(r) \in Headers
<1> DEFINE h == WithPayer(r, Checked(r))
<1>1. Checked(r) \in Headers /\ Checked(r) \in [Name -> Seq(Value)]
  BY CheckedAt, HeadersAre
<1>2. h \in Headers
  BY <1>1, DelSetKeepType, HeadersAre DEF WithPayer
<1>7. h[n] = IF r.payer /\ n = "X-Amz-Request-Payer" THEN <<"proxy">> ELSE Checked(r)[n]
  BY <1>1 DEF WithPayer, Set
<1>. HIDE DEF h
<1>3. h \in [Name -> Seq(Value)]
  BY <1>2, HeadersAre
<1>4. Retarget(h)[n] = IF n \in {"Authorization", "X-Amz-Security-Token"} THEN <<>>
                       ELSE IF n = "Host" THEN <<"proxy">> ELSE h[n]
  BY <1>3, HeadersAre DEF Retarget, Set, Del, Name
<1>5. Retarget(h) \in Headers
  BY <1>2, HeadersAre, DelSetKeepType DEF Retarget
<1>6. Retargeted(r) = Retarget(h)
  BY DEF Retargeted, h
<1>. QED
  BY <1>4, <1>5, <1>6, <1>7 DEF Name

(* What is sent for a request that was authenticated                       *)
SentHeaders(r, b) == ForwardedHeaders(Retargeted(r), Trusted(r), b)
SentSigned(r, b) == CoveredFor(Retargeted(r), Trusted(r), b)

(* when it is signed, what the signature covers, and as it is sent.        *)
LEMMA SentAt ==
    ASSUME NEW r \in Request, NEW b, NEW n \in Name
    PROVE  LET h == Retargeted(r)[n]
               p == PreparedFor(Retargeted(r), Trusted(r), b)[n]
           IN  /\ p = IF n = "X-Amz-Date" THEN IF n \in Kept(r) /\ h # <<>> THEN First(h) ELSE <<"proxy">>
                      ELSE IF n = "X-Amz-Security-Token" /\ b \in WithToken THEN <<"proxy">>
                      ELSE IF n \in Kept(r) THEN h ELSE <<>>
               /\ p \in Seq(Value)
               /\ SentHeaders(r, b)[n] = (IF n = "Authorization" THEN <<"proxy">> ELSE p)
                                            \o (IF n \in Kept(r) THEN <<>> ELSE First(h))
               /\ SentSigned(r, b)[n] = IF n = "Content-Length" THEN h
                                        ELSE IF n = "Authorization" THEN <<>> ELSE p
<1> DEFINE h == Retargeted(r)
           trusted == Trusted(r)
           keep == Kept(r)
           k == Keep(h, keep)
           g == PreparedFor(h, trusted, b)
<1>0. h \in Headers /\ keep = trusted \cup AlwaysSign
  BY RetargetedAt DEF Kept
<1>11. SentHeaders(r, b) = ForwardedHeaders(h, trusted, b) /\ SentSigned(r, b) = CoveredFor(h, trusted, b)
  BY DEF SentHeaders, SentSigned
<1>. HIDE DEF h, trusted, keep
<1>1. h \in [Name -> Seq(Value)] /\ k \in [Name -> Seq(Value)] /\ k \in Headers
  BY <1>0, HeadersAre, DelSetKeepType
<1>2. k[n] = IF n \in keep THEN h[n] ELSE <<>>
  BY DEF Keep
<1>3. g = Prepared(k, TokenOf(b))
  BY <1>0 DEF PreparedFor
<1>4. TokenOf(b) \in Seq(Value) /\ (TokenOf(b) = <<"proxy">> <=> b \in WithToken)
      /\ (TokenOf(b) = <<>> <=> b \notin WithToken)
  BY Values DEF TokenOf
<1>. HIDE DEF k
<1>5. g[n] = IF n = "X-Amz-Date" THEN IF k[n] = <<>> THEN <<"proxy">> ELSE First(k[n])
             ELSE IF n = "X-Amz-Security-Token" /\ b \in WithToken THEN <<"proxy">>
             ELSE k[n]
  BY <1>1, <1>3, <1>4 DEF Prepared, Name
<1>6. g \in Headers /\ g \in [Name -> Seq(Value)]
  BY <1>1, <1>3, <1>4, PreparedType, HeadersAre
<1>7. ForwardedHeaders(h, trusted, b)[n]
        = (IF n = "Authorization" THEN <<"proxy">> ELSE g[n]) \o (IF n \in keep THEN <<>> ELSE First(h[n]))
  <2>1. ForwardedHeaders(h, trusted, b)[n] = Set(g, "Authorization", "proxy")[n] \o Removed(h, keep)[n]
    BY <1>0 DEF ForwardedHeaders, ReAdd
  <2>. HIDE DEF g
  <2>. QED
    BY <1>6, <2>1 DEF Set, Removed
<1>8. CoveredFor(h, trusted, b)[n]
        = IF n = "Content-Length" THEN h[n] ELSE IF n = "Authorization" THEN <<>> ELSE g[n]
  <2>1. CoveredFor(h, trusted, b) = [Covered(g) EXCEPT !["Content-Length"] = h["Content-Length"]]
    BY DEF CoveredFor
  <2>. HIDE DEF g
  <2>. QED
    BY <1>6, <2>1, HeadersAre DEF Covered, Del
<1>9. g[n] = IF n = "X-Amz-Date"
             THEN IF n \in keep /\ h[n] # <<>> THEN First(h[n]) ELSE <<"proxy">>
             ELSE IF n = "X-Amz-Security-Token" /\ b \in WithToken THEN <<"proxy">>
             ELSE IF n \in keep THEN h[n] ELSE <<>>
  BY <1>2, <1>5
<1>10. g[n] \in Seq(Value)
  BY <1>6
<1>. HIDE DEF g
<1>. QED
  BY <1>7, <1>8, <1>9, <1>10, <1>11 DEF g, h, trusted, keep

(* What a signature that matches covers, header by header.                 *)
LEMMA SignedAt ==
    ASSUME NEW r \in Request, Matches(r), NEW n \in Name
    PROVE  LET h == r.headers[n]
               keep == SignedHeaders(r) \cup AlwaysSign
           IN  /\ r.auth = "header" =>
                    /\ r.signed["X-Amz-Date"] # <<>>
                    /\ n \notin {"Authorization", "X-Amz-Security-Token"} =>
                         r.signed[n] =
                            IF n = "X-Amz-Date"
                            THEN IF n \in keep /\ h # <<>> THEN First(h) ELSE <<"proxy">>
                            ELSE IF n \in keep THEN h ELSE <<>>
               /\ r.auth = "v4" /\ n # "Authorization" =>
                    /\ r.signed[n] \in {<<>>, h}
                    /\ n \in AlwaysSign \cup {"Content-Length"} => r.signed[n] = h
               /\ r.auth = "v1" =>
                    r.signed[n] = IF n \in {"X-Amz-Date", "X-Amz-Content-Sha256", "X-Amz-Request-Payer"}
                                  THEN h ELSE <<>>
<1> DEFINE keep == SignedHeaders(r) \cup AlwaysSign
           k == Keep(r.headers, keep)
           token == First(r.headers["X-Amz-Security-Token"])
<1>1. r.headers \in [Name -> Seq(Value)] /\ r.headers \in Headers /\ "X-Amz-Date" \in Name
  BY HeadersAre DEF Request
<1>2. k \in [Name -> Seq(Value)] /\ \A m \in Name : k[m] = IF m \in keep THEN r.headers[m] ELSE <<>>
  BY <1>1, HeadersAre DEF Keep
<1>3. ASSUME r.auth = "header"
      PROVE  /\ r.signed["X-Amz-Date"] # <<>>
             /\ n \notin {"Authorization", "X-Amz-Security-Token"} =>
                    r.signed[n] = IF n = "X-Amz-Date"
                                  THEN IF n \in keep /\ r.headers[n] # <<>> THEN First(r.headers[n])
                                       ELSE <<"proxy">>
                                  ELSE IF n \in keep THEN r.headers[n] ELSE <<>>
  <2>1. r.signed = Del(Prepared(k, token), "Authorization")
    BY <1>3 DEF Matches, CoveredByCheck, CoveredByHeader, Covered
  <2>. HIDE DEF k, token
  <2>2. \A m \in Name \ {"Authorization", "X-Amz-Security-Token"} :
            r.signed[m] = IF m = "X-Amz-Date" THEN IF k[m] = <<>> THEN <<"proxy">> ELSE First(k[m])
                          ELSE k[m]
    BY <1>2, <2>1 DEF Del, Prepared
  <2>3. \A m \in Name \ {"Authorization", "X-Amz-Security-Token"} :
            r.signed[m] = IF m = "X-Amz-Date"
                          THEN IF m \in keep /\ r.headers[m] # <<>> THEN First(r.headers[m]) ELSE <<"proxy">>
                          ELSE IF m \in keep THEN r.headers[m] ELSE <<>>
    BY <1>2, <2>2
  <2>. HIDE DEF keep
  <2>4. r.signed["X-Amz-Date"] # <<>>
    BY <1>1, <2>3, Values
  <2>. QED
    BY <2>3, <2>4
<1>4. r.auth = "v4" /\ n # "Authorization" =>
         /\ r.signed[n] \in {<<>>, r.headers[n]}
         /\ n \in AlwaysSign \cup {"Content-Length"} => r.signed[n] = r.headers[n]
  BY DEF Matches, CoveredByCheck, CoveredByUrl, Covered, Del, Keep
<1>5. r.auth = "v1" => r.signed[n] = IF n \in {"X-Amz-Date", "X-Amz-Content-Sha256", "X-Amz-Request-Payer"}
                                     THEN r.headers[n] ELSE <<>>
  BY DEF Matches, CoveredByCheck, CoveredByOldUrl, Keep
<1>. QED
  BY <1>3, <1>4, <1>5

(* Of what is taken out nothing was signed, and all that was is kept.      *)
LEMMA TrustedIs ==
    ASSUME NEW r \in Request, Matches(r), NEW n \in Name
    PROVE  /\ r.auth = "header" => Kept(r) = SignedHeaders(r) \cup AlwaysSign
           /\ r.auth = "header" => (n \in Kept(r) <=> n \in AlwaysSign \/ r.signed[n] # <<>>)
           /\ r.auth = "v4" /\ n \in Kept(r) => n \in AlwaysSign \/ r.signed[n] # <<>>
           /\ r.auth = "v1" => Kept(r) = AlwaysSign
           /\ r.auth \in {"header", "v4", "v1"}
<1>1. r.auth \in {"header", "v4", "v1"}
  BY DEF Request, AuthParams
<1>2. SignedHeaders(r) # {} /\ "Host" \in AlwaysSign
  BY DEF SignedHeaders, AlwaysSign
<1>3. r.auth \in {"header", "v4"} => Trusted(r) = SignedHeaders(r)
  BY <1>2 DEF Trusted, TrustedHeaders, Remembered
<1>4. r.auth = "v1" => Trusted(r) = {"Host"}
  BY DEF Trusted, TrustedHeaders, Remembered, IsPresigned
<1>5. n \in SignedHeaders(r) => n = "Host" \/ r.signed[n] # <<>>
  BY DEF SignedHeaders, Present
<1>6. r.auth = "header" /\ r.signed[n] # <<>> => n \in SignedHeaders(r)
  BY DEF Matches, SignedHeaders, Present
<1>. QED
  BY <1>1, <1>2, <1>3, <1>4, <1>5, <1>6 DEF Kept

(* The headers net/http hands to the proxy: it has moved Host elsewhere,   *)
(* and refuses a request with different lengths.                           *)
FromServer(r) == r.headers["Host"] = <<>> /\ Len(r.headers["Content-Length"]) <= 1

(* SentAsSigned,                                                           *)
LEMMA SignedIsSent ==
    ASSUME NEW r \in Request, FromServer(r), Matches(r), NEW b,
           NEW n \in Present(SentSigned(r, b))
    PROVE  \/ SentHeaders(r, b)[n] = SentSigned(r, b)[n]
           \/ n = "X-Amz-Date" /\ IsPresigned(r) /\ n \in Present(r.headers)
<1> DEFINE h == Retargeted(r)
           p == PreparedFor(h, Trusted(r), b)[n]
           s == SentHeaders(r, b)[n]
           c == SentSigned(r, b)[n]
<1>0. n \in Name /\ c # <<>> /\ h \in Headers
  BY RetargetedAt DEF Present
<1>1. /\ p = IF n = "X-Amz-Date" THEN IF n \in Kept(r) /\ h[n] # <<>> THEN First(h[n]) ELSE <<"proxy">>
             ELSE IF n = "X-Amz-Security-Token" /\ b \in WithToken THEN <<"proxy">>
             ELSE IF n \in Kept(r) THEN h[n] ELSE <<>>
      /\ p \in Seq(Value)
      /\ s = (IF n = "Authorization" THEN <<"proxy">> ELSE p)
                \o (IF n \in Kept(r) THEN <<>> ELSE First(h[n]))
      /\ c = IF n = "Content-Length" THEN h[n] ELSE IF n = "Authorization" THEN <<>> ELSE p
  BY <1>0, SentAt
<1>2. /\ h[n] = IF n \in {"Authorization", "X-Amz-Security-Token"} THEN <<>>
                ELSE IF n = "Host" \/ (r.payer /\ n = "X-Amz-Request-Payer") THEN <<"proxy">>
                ELSE Checked(r)[n]
      /\ h[n] \in Seq(Value)
  BY <1>0, RetargetedAt, HeadersAre
<1>3. "Host" \in Kept(r) /\ r.auth \in {"header", "v4", "v1"}
  BY <1>0, TrustedIs DEF Kept, AlwaysSign
<1>. HIDE DEF h, p, s, c
<1>4. CASE n \in Kept(r) \/ h[n] = <<>>
  <2>1. (IF n \in Kept(r) THEN <<>> ELSE First(h[n])) = <<>>
    BY <1>2, <1>4, Values
  <2>2. n # "Authorization"
    BY <1>0, <1>1
  <2>3. s = p
    BY <1>1, <2>1, <2>2, Values
  <2>4. c = p
    BY <1>0, <1>1, <1>4, <2>2
  <2>. QED
    BY <2>3, <2>4 DEF s, c
<1>5. CASE n \notin Kept(r) /\ h[n] # <<>> /\ n = "Content-Length"
  <2>1. s = First(h[n]) /\ c = h[n]
    BY <1>1, <1>2, <1>5, Values
  <2>2. Len(h[n]) <= 1
    <3>1. h[n] = Checked(r)[n]
      BY <1>2, <1>5
    <3>2. Len(r.headers[n]) <= 1
      BY <1>5 DEF FromServer
    <3>3. h[n] = r.headers[n] \/ h[n] = First(r.headers[n])
      BY <1>0, <1>3, <1>5, <3>1, CheckedAt
    <3>4. Len(First(r.headers[n])) <= 1
      BY DEF First
    <3>. QED
      BY <3>2, <3>3, <3>4
  <2>3. First(h[n]) = h[n]
    BY <1>2, <1>5, <2>2, Values
  <2>. QED
    BY <2>1, <2>3 DEF s, c
<1>6. CASE n \notin Kept(r) /\ h[n] # <<>> /\ n # "Content-Length"
  <2>1. n = "X-Amz-Date"
    BY <1>0, <1>1, <1>2, <1>6
  <2>2. r.auth # "header"
    BY <1>0, <1>6, <2>1, TrustedIs, SignedAt
  <2>3. r.headers[n] # <<>>
    BY <1>0, <1>2, <1>6, <2>1, <2>2, CheckedAt
  <2>. QED
    BY <1>0, <1>3, <2>1, <2>2, <2>3 DEF IsPresigned, Present
<1>. QED
  BY <1>4, <1>5, <1>6

(* OnlyTrustedIsSigned,                                                    *)
LEMMA TrustedIsSigned ==
    ASSUME NEW r \in Request, Matches(r), NEW b,
           NEW n \in Present(SentSigned(r, b)) \ {"Content-Length"}
    PROVE  SentSigned(r, b)[n]
               \in {<<"proxy">>, r.signed[n], First(r.signed[n]), Append(r.signed[n], "proxy")}
<1> DEFINE h == Retargeted(r)
           p == PreparedFor(h, Trusted(r), b)[n]
           c == SentSigned(r, b)[n]
<1>0. n \in Name /\ c # <<>> /\ h \in Headers /\ n # "Content-Length"
  BY RetargetedAt DEF Present
<1>1. /\ p = IF n = "X-Amz-Date" THEN IF n \in Kept(r) /\ h[n] # <<>> THEN First(h[n]) ELSE <<"proxy">>
             ELSE IF n = "X-Amz-Security-Token" /\ b \in WithToken THEN <<"proxy">>
             ELSE IF n \in Kept(r) THEN h[n] ELSE <<>>
      /\ c = IF n = "Content-Length" THEN h[n] ELSE IF n = "Authorization" THEN <<>> ELSE p
  BY <1>0, SentAt, ZenonT(60)
<1>2. h[n] = IF n \in {"Authorization", "X-Amz-Security-Token"} THEN <<>>
             ELSE IF n = "Host" \/ (r.payer /\ n = "X-Amz-Request-Payer") THEN <<"proxy">>
             ELSE Checked(r)[n]
  BY <1>0, RetargetedAt
<1>. HIDE DEF h, p, c
<1>3. c = p /\ n # "Authorization"
  BY <1>0, <1>1
<1>4. CASE p = <<"proxy">>
  BY <1>3, <1>4 DEF c
<1>5. CASE p # <<"proxy">>
  <2>1. /\ n \in Kept(r) /\ h[n] # <<>> /\ n # "X-Amz-Security-Token"
        /\ p = IF n = "X-Amz-Date" THEN First(h[n]) ELSE h[n]
    BY <1>0, <1>1, <1>2, <1>3, <1>5
  <2>2. h[n] = Checked(r)[n] \/ (h[n] = <<"proxy">> /\ n # "X-Amz-Date")
    BY <1>2, <1>3, <2>1
  <2>3. h[n] = Checked(r)[n]
    BY <1>5, <2>1, <2>2
  <2>4. CASE r.auth = "header"
    <3>1. n \in SignedHeaders(r) \cup AlwaysSign
      BY <1>0, <2>1, <2>4, TrustedIs
    <3>2. h[n] = r.headers[n]
      BY <1>0, <2>3, <2>4, <3>1, CheckedAt
    <3>3. r.signed[n] = p
      BY <1>0, <1>3, <2>1, <2>4, <3>1, <3>2, SignedAt
    <3>. QED
      BY <1>3, <3>3 DEF c
  <2>5. CASE r.auth \in {"v4", "v1"}
    <3>1. n \in AlwaysSign => n \in {"X-Amz-Content-Sha256", "X-Amz-Request-Payer"}
      BY <1>2, <1>3, <2>1, <1>5 DEF AlwaysSign
    <3>2. n \in AlwaysSign \/ (r.auth = "v4" /\ r.signed[n] # <<>>)
      BY <1>0, <2>1, <2>5, TrustedIs
    <3>3. r.signed[n] = r.headers[n]
      BY <1>0, <1>3, <2>5, <3>1, <3>2, SignedAt
    <3>4. h[n] \in {r.headers[n], Append(r.headers[n], "proxy")}
      BY <1>0, <2>3, <2>5, CheckedAt
    <3>5. n = "X-Amz-Date" => h[n] = r.headers[n]
      BY <1>0, <2>3, <2>5, CheckedAt
    <3>. QED
      BY <1>3, <2>1, <3>3, <3>4, <3>5 DEF c
  <2>. QED
    BY <1>0, <2>4, <2>5, TrustedIs
<1>. QED
  BY <1>4, <1>5

LEMMA LastIsThere ==
    ASSUME NEW p \in Seq(Value), NEW v \in Value
    PROVE  Len(p) + 1 \in DOMAIN (p \o <<v>>) /\ (p \o <<v>>)[Len(p) + 1] = v
OBVIOUS

(* and HeadersKept, of what is sent for a request.                         *)
LEMMA HeadersAreKept ==
    ASSUME NEW r \in Request, FromServer(r), Matches(r), NEW b,
           NEW n \in Name, n \notin Replaced(r)
    PROVE  IF r.auth = "header" /\ n \in Present(r.signed) THEN SentHeaders(r, b)[n] = r.signed[n]
           ELSE r.headers[n] # <<>> =>
                   \E i \in DOMAIN SentHeaders(r, b)[n] : SentHeaders(r, b)[n][i] = Head(r.headers[n])
<1> DEFINE h == Retargeted(r)[n]
           p == PreparedFor(Retargeted(r), Trusted(r), b)[n]
           s == SentHeaders(r, b)[n]
           x == r.headers[n]
<1>0. /\ n \in Name /\ n \notin {"Authorization", "X-Amz-Security-Token"}
      /\ ~ (r.payer /\ n = "X-Amz-Request-Payer")
  BY DEF Replaced
<1>7. /\ p = IF n = "X-Amz-Date" THEN IF n \in Kept(r) /\ h # <<>> THEN First(h) ELSE <<"proxy">>
             ELSE IF n = "X-Amz-Security-Token" /\ b \in WithToken THEN <<"proxy">>
             ELSE IF n \in Kept(r) THEN h ELSE <<>>
      /\ p \in Seq(Value)
      /\ s = (IF n = "Authorization" THEN <<"proxy">> ELSE p)
                \o (IF n \in Kept(r) THEN <<>> ELSE First(h))
  <2>1. /\ p = IF n = "X-Amz-Date" THEN IF n \in Kept(r) /\ h # <<>> THEN First(h) ELSE <<"proxy">>
               ELSE IF n = "X-Amz-Security-Token" /\ b \in WithToken THEN <<"proxy">>
               ELSE IF n \in Kept(r) THEN h ELSE <<>>
        /\ p \in Seq(Value)
        /\ s = (IF n = "Authorization" THEN <<"proxy">> ELSE p)
                  \o (IF n \in Kept(r) THEN <<>> ELSE First(h))
        /\ SentSigned(r, b)[n] = IF n = "Content-Length" THEN h
                                 ELSE IF n = "Authorization" THEN <<>> ELSE p
    BY SentAt, ZenonT(60)
  <2>. QED
    BY <2>1
<1>2. h = (IF n = "Host" THEN <<"proxy">> ELSE Checked(r)[n]) /\ h \in Seq(Value)
  <2>1. Retargeted(r) \in [Name -> Seq(Value)]
    BY <1>0, RetargetedAt, HeadersAre
  <2>. QED
    BY <1>0, <2>1, RetargetedAt
<1>3. x \in Seq(Value) /\ (n = "Host" => x = <<>>) /\ r.auth \in {"header", "v4", "v1"}
  BY <1>0, CheckedAt, TrustedIs DEF FromServer
<1>. HIDE DEF h, p, s, x
<1>1. /\ p = IF n = "X-Amz-Date" THEN IF n \in Kept(r) /\ h # <<>> THEN First(h) ELSE <<"proxy">>
             ELSE IF n \in Kept(r) THEN h ELSE <<>>
      /\ p \in Seq(Value)
      /\ s = p \o (IF n \in Kept(r) THEN <<>> ELSE First(h))
  BY <1>0, <1>7
<1>4. n \in Kept(r) => s = p
  BY <1>1, Values
<1>5. ASSUME r.auth = "header", n \in Present(r.signed)
      PROVE  s = r.signed[n]
  <2>1. r.signed[n] # <<>> /\ n \in Kept(r) /\ n \in SignedHeaders(r) \cup AlwaysSign
    BY <1>0, <1>5, TrustedIs DEF Present
  <2>2. r.signed[n] = IF n = "X-Amz-Date" THEN IF x # <<>> THEN First(x) ELSE <<"proxy">> ELSE x
    BY <1>0, <1>5, <2>1, SignedAt DEF x
  <2>3. n # "Host"
    BY <1>3, <2>1, <2>2
  <2>4. h = x
    BY <1>0, <1>2, <1>5, <2>1, <2>3, CheckedAt DEF x
  <2>. QED
    BY <1>1, <1>4, <2>1, <2>2, <2>4
<1>6. ASSUME x # <<>>, ~ (r.auth = "header" /\ n \in Present(r.signed))
      PROVE  \E i \in DOMAIN s : s[i] = Head(x)
  <2>1. h # <<>> /\ h \in Seq(Value) /\ Head(h) = Head(x)
    <3>1. n # "Host"
      BY <1>3, <1>6
    <3>2. h \in {x, First(x), Append(x, "proxy")}
      BY <1>0, <1>2, <1>3, <3>1, CheckedAt DEF x
    <3>. QED
      BY <1>2, <1>3, <1>6, <3>2, Values
  <2>2. CASE n \in Kept(r) /\ n # "X-Amz-Date"
    <3>1. s = h
      BY <1>1, <1>4, <2>2
    <3>2. Len(h) > 0 /\ Len(h) \in Nat /\ h[1] = Head(h)
      BY <2>1, Values
    <3>3. 1 \in DOMAIN h
      BY <2>1, <3>2
    <3>. QED
      BY <2>1, <3>1, <3>2, <3>3
  <2>3. CASE n \notin Kept(r)
    <3>1. s = p \o <<Head(x)>> /\ Head(x) \in Value
      BY <1>1, <1>3, <1>6, <2>1, <2>3, Values DEF First
    <3>2. Len(p) + 1 \in DOMAIN s /\ s[Len(p) + 1] = Head(x)
      BY <1>1, <3>1, LastIsThere
    <3>. QED
      BY <3>2
  <2>4. CASE n \in Kept(r) /\ n = "X-Amz-Date"
    <3>1. s = <<Head(x)>>
      BY <1>1, <1>4, <2>1, <2>4 DEF First
    <3>. QED
      BY <3>1
  <2>. QED
    BY <2>2, <2>3, <2>4
<1>. QED
  BY <1>5, <1>6 DEF s, x

(* What the stages carry on of the headers: what the signature covered,    *)
(* and the headers as they were checked.                                   *)
CarriesHeaders(q) ==
    LET r == req[q] IN
    /\ stage[q] # "new" => r \in Inputs
    /\ stage[q] \in {"authz", "policy", "proxy"} =>
            Matches(r) /\ msg[q].headers = Checked(r)
    /\ sent[q] # None =>
            /\ r \in Inputs /\ Matches(r)
            /\ \E b \in Backends : /\ sent[q].headers = SentHeaders(r, b)
                                   /\ sent[q].signed = SentSigned(r, b)

HInv == \A q \in Slot : CarriesHeaders(q)

LEMMA HandleCarriesHeaders ==
    ASSUME IInv, CInv, NEW q \in Slot, Handle(q), CarriesHeaders(q)
    PROVE  CarriesHeaders(q)'
<1> DEFINE r == req[q]
<1>0. /\ stage \in [Slot -> Stage] /\ msg \in [Slot -> Message] /\ req' = req
      /\ Carries(q)
  BY HandledAlone DEF IInv, TypeOK, CInv
<1>r. stage[q] # "new"
  BY DEF Handle, RegisterOperation, Panic, AuthNNormal, AuthNPresigned, AuthNUrl, VerifyClaims,
     EvaluatePolicy, Forward, LogRequest
<1>1. r \in Request /\ msg[q] \in Message /\ r \in Inputs
  BY <1>0, <1>r, Running DEF CarriesHeaders
<1>2. ASSUME sent' = sent, stage'[q] \notin {"new", "authz", "policy", "proxy"}
      PROVE  CarriesHeaders(q)'
  BY <1>0, <1>1, <1>2 DEF CarriesHeaders
<1>3. CASE RegisterOperation(q) \/ Panic(q) \/ LogRequest(q)
  BY <1>0, <1>2, <1>3 DEF RegisterOperation, Panic, LogRequest, Goto
<1>4. CASE AuthNNormal(q)
  <2> DEFINE trusted == SignedHeaders(r) \cup AlwaysSign
             g == ReAdd(Keep(msg[q].headers, trusted), Removed(msg[q].headers, trusted))
  <2>1. stage[q] = "authn" /\ ~ IsPresigned(r) /\ sent' = sent
    BY <1>4 DEF AuthNNormal
  <2>2. CASE NormalError(r, now) # "none"
    <3>1. stage'[q] = "drain"
      BY <1>0, <1>4, <2>2 DEF AuthNNormal, Fail, Goto
    <3>. QED
      BY <1>2, <2>1, <3>1
  <2>3. CASE NormalError(r, now) = "none"
    <3>1. Matches(r)
      BY <2>3 DEF NormalError, SignatureMatches, Matches
    <3>2. r.auth = "header" /\ msg[q].headers = r.headers
      BY <1>0, <1>1, <2>1 DEF IsPresigned, Request, AuthParams, Carries
    <3>3. msg'[q] = WithHeaders(msg[q], g)
      BY <1>0, <1>4, <2>3 DEF AuthNNormal, Fail, WithHeaders
    <3>4. msg'[q].headers = g
      BY <1>1, <3>3 DEF WithHeaders, Message
    <3>5. g = Checked(r)
      BY <3>2 DEF Checked
    <3>. HIDE DEF g
    <3>. QED
      BY <1>0, <1>1, <2>1, <3>1, <3>4, <3>5 DEF CarriesHeaders
  <2>. QED
    BY <2>2, <2>3
<1>5. CASE AuthNPresigned(q)
  <2>1. stage'[q] \in {"drain", "url"} /\ sent' = sent
    BY <1>0, <1>5 DEF AuthNPresigned, Fail, Goto
  <2>. QED
    BY <1>2, <2>1
<1>6. CASE AuthNUrl(q)
  <2> DEFINE err == UrlError(r, msg[q].query, msg[q].headers, now)
             g == Add(msg[q].headers, "X-Amz-Content-Sha256", "proxy")
  <2>1. stage[q] = "url" /\ sent' = sent /\ FailOr(q, err, "authz")
    BY <1>6 DEF AuthNUrl
  <2>2. CASE err # "none"
    <3>1. stage'[q] = "drain"
      BY <1>0, <2>1, <2>2 DEF FailOr, Fail, Goto
    <3>. QED
      BY <1>2, <2>1, <3>1
  <2>3. CASE err = "none"
    <3>1. IsPresigned(r) /\ msg[q].headers = r.headers
      BY <1>0, <2>1 DEF Carries
    <3>2. Matches(r)
      BY <2>3, <3>1 DEF UrlError, SignatureMatches, Matches, IsPresigned
    <3>3. msg'[q].headers = g
      BY <1>0, <1>6, <2>3 DEF AuthNUrl
    <3>4. g = Checked(r)
      BY <3>1 DEF Checked, IsPresigned
    <3>. HIDE DEF g, err
    <3>. QED
      BY <1>0, <1>1, <2>1, <3>2, <3>3, <3>4 DEF CarriesHeaders
  <2>. QED
    BY <2>2, <2>3
<1>7. CASE VerifyClaims(q) \/ EvaluatePolicy(q)
  <2>1. stage[q] \in {"authz", "policy"} /\ UNCHANGED <<req, msg, sent>>
    BY <1>7 DEF VerifyClaims, EvaluatePolicy
  <2>2. stage'[q] # "new"
    BY <1>0, <1>7 DEF VerifyClaims, EvaluatePolicy, FailOr, Fail, Goto
  <2>. QED
    BY <1>1, <2>1, <2>2 DEF CarriesHeaders
<1>8. CASE Forward(q)
  <2>1. stage[q] = "proxy" /\ stage'[q] \in {"drain", "upstream"}
    BY <1>0, <1>8 DEF Forward, FailOr, Fail, Goto
  <2>2. CASE ProxyError(q) # "none"
    BY <1>2, <1>8, <2>1, <2>2 DEF Forward
  <2>3. CASE ProxyError(q) = "none"
    <3> DEFINE b == Backend(ctx[q].region)
               h == Retarget(WithPayer(r, msg[q].headers))
               trusted == TrustedHeaders(r, ctx[q].signed)
    <3>1. sent'[q] = ToBackend(q)
      BY <1>8, <2>3 DEF Forward, CInv
    <3>2. /\ sent'[q].headers = ForwardedHeaders(h, trusted, b)
          /\ sent'[q].signed = CoveredFor(h, trusted, b)
      BY <3>1 DEF ToBackend
    <3>3. /\ msg[q].headers = Checked(r) /\ ctx[q].signed = Remembered(r)
          /\ Matches(r)
      BY <1>0, <2>1 DEF CarriesHeaders, Carries
    <3>4. h = Retargeted(r) /\ trusted = Trusted(r)
      BY <3>3 DEF Retargeted, Trusted
    <3>5. b \in Backends
      BY <2>3, BackendsAssumption DEF ProxyError, Backend
    <3>. HIDE DEF h, trusted, b
    <3>6. sent'[q].headers = SentHeaders(r, b) /\ sent'[q].signed = SentSigned(r, b)
      BY <3>2, <3>4 DEF SentHeaders, SentSigned
    <3>. QED
      BY <1>0, <1>1, <2>1, <3>3, <3>5, <3>6 DEF CarriesHeaders
  <2>. QED
    BY <2>2, <2>3
<1>. QED
  BY <1>3, <1>4, <1>5, <1>6, <1>7, <1>8 DEF Handle

LEMMA OthersCarryHeaders ==
    ASSUME NEW p \in Slot, CarriesHeaders(p), stage'[p] = stage[p], req'[p] = req[p],
           msg'[p] = msg[p], sent'[p] = sent[p]
    PROVE  CarriesHeaders(p)'
BY DEF CarriesHeaders

LEMMA NextCarriesHeaders ==
    ASSUME IInv, CInv, HInv, [Next]_vars
    PROVE  HInv'
<1>0. stage \in [Slot -> Stage] /\ req \in [Slot -> Request \cup {None}] /\ msg \in [Slot -> Message]
  BY DEF IInv, TypeOK
<1>1. ASSUME UNCHANGED <<stage, req, msg, sent>>
      PROVE  HInv'
  BY <1>1 DEF HInv, CarriesHeaders
<1>2. ASSUME NEW q \in Slot, Handle(q) \/ Awaited(q)
      PROVE  HInv'
  <2>1. req' = req /\ \A p \in Slot \ {q} : stage'[p] = stage[p] /\ msg'[p] = msg[p] /\ sent'[p] = sent[p]
    BY <1>2, HandledAlone DEF CInv
  <2>2. \A p \in Slot \ {q} : CarriesHeaders(p)'
    BY <2>1, OthersCarryHeaders DEF HInv
  <2>3. CASE Awaited(q)
    <3>1. /\ stage[q] \in {"upstream", "drain"} /\ (Goto(q, "drain") \/ Goto(q, "log"))
          /\ UNCHANGED <<req, msg, sent>>
      BY <2>3 DEF Awaited, WriteErrorResponse, UpstreamFails, UpstreamAnswers
    <3>2. stage'[q] \in {"drain", "log"}
      BY <1>0, <3>1 DEF Goto
    <3>. QED
      BY <2>2, <3>1, <3>2 DEF HInv, CarriesHeaders
  <2>. QED
    BY <1>2, <2>2, <2>3, HandleCarriesHeaders DEF HInv
<1>3. ASSUME NEW q \in Slot, Client(q)
      PROVE  HInv'
  <2>1. PICK r \in Inputs : Arrive(q, r)
    BY <1>3 DEF Client
  <2>2. /\ stage'[q] = "route" /\ req'[q] = r /\ sent' = sent /\ sent[q] = None
        /\ \A p \in Slot \ {q} : stage'[p] = stage[p] /\ req'[p] = req[p] /\ msg'[p] = msg[p]
    BY <1>0, <2>1 DEF Arrive, Goto, IInv, StagesRelyOn
  <2>3. \A p \in Slot \ {q} : CarriesHeaders(p)'
    BY <2>2, OthersCarryHeaders DEF HInv
  <2>4. CarriesHeaders(q)'
    BY <2>2 DEF CarriesHeaders
  <2>. QED
    BY <2>3, <2>4 DEF HInv
<1>. QED
  BY <1>1, <1>2, <1>3 DEF Next, Tick, EditPolicies, vars, reqVars

LEMMA HeadersInvariant == Spec => [](IInv /\ HInv)
<1>1. Init => HInv
  BY DEF Init, HInv, CarriesHeaders
<1>2. IInv /\ CInv /\ HInv /\ [Next]_vars => HInv'
  BY NextCarriesHeaders
<1>. QED
  BY <1>1, <1>2, CarriedInvariant, PTL DEF Spec

(* Of the headers, only what the client signed or the proxy has added is   *)
(* signed with the credentials of a backend (TemporaryRemoveUntrusted-     *)
(* Headers), whichever headers a request has, the length excepted.         *)
THEOREM BackendSignsOnlyTrusted == Spec => []OnlyTrustedIsSigned
<1>1. HInv => OnlyTrustedIsSigned
  <2> SUFFICES ASSUME HInv, NEW q \in Slot, sent[q] # None,
                      NEW n \in Present(sent[q].signed) \ {"Content-Length"}
               PROVE  sent[q].signed[n] \in {<<"proxy">>, req[q].signed[n], First(req[q].signed[n]),
                                            Append(req[q].signed[n], "proxy")}
    BY DEF OnlyTrustedIsSigned
  <2>1. /\ req[q] \in Request /\ Matches(req[q])
        /\ \E b \in Backends : sent[q].signed = SentSigned(req[q], b)
    BY S3ProxyAssumption DEF HInv, CarriesHeaders
  <2>. QED
    BY <2>1, TrustedIsSigned
<1>. QED
  BY <1>1, HeadersInvariant, PTL

(* What is sent has the headers that its signature for the backend says,   *)
(* of all requests that net/http hands to the proxy.                       *)
THEOREM BackendGetsWhatIsSigned ==
    ASSUME \A r \in Inputs : FromServer(r)
    PROVE  Spec => []SentAsSigned
<1>1. HInv => SentAsSigned
  <2> SUFFICES ASSUME HInv, NEW q \in Slot, sent[q] # None, NEW n \in Present(sent[q].signed)
               PROVE  \/ sent[q].headers[n] = sent[q].signed[n]
                      \/ n = "X-Amz-Date" /\ IsPresigned(req[q]) /\ n \in Present(req[q].headers)
    BY DEF SentAsSigned
  <2>1. /\ req[q] \in Request /\ FromServer(req[q])
        /\ Matches(req[q])
    BY S3ProxyAssumption DEF HInv, CarriesHeaders
  <2>2. PICK b \in Backends : /\ sent[q].headers = SentHeaders(req[q], b)
                              /\ sent[q].signed = SentSigned(req[q], b)
    BY DEF HInv, CarriesHeaders
  <2>. QED
    BY <2>1, <2>2, SignedIsSent
<1>. QED
  BY <1>1, HeadersInvariant, PTL

(* Taking headers out and putting them back loses none of them, twice: what*)
(* was signed in a header arrives as it was signed, the first value of the *)
(* others arrives.                                                         *)
THEOREM NoHeaderIsLost ==
    ASSUME \A r \in Inputs : FromServer(r)
    PROVE  Spec => []HeadersKept
<1>1. HInv => HeadersKept
  <2> SUFFICES ASSUME HInv, NEW q \in Slot, sent[q] # None, NEW n \in Name \ Replaced(req[q])
               PROVE  IF req[q].auth = "header" /\ n \in Present(req[q].signed)
                      THEN sent[q].headers[n] = req[q].signed[n]
                      ELSE req[q].headers[n] # <<>> =>
                             \E i \in DOMAIN sent[q].headers[n] :
                                 sent[q].headers[n][i] = Head(req[q].headers[n])
    BY DEF HeadersKept
  <2>1. /\ req[q] \in Request /\ FromServer(req[q])
        /\ Matches(req[q])
    BY S3ProxyAssumption DEF HInv, CarriesHeaders
  <2>2. PICK b \in Backends : sent[q].headers = SentHeaders(req[q], b)
    BY DEF HInv, CarriesHeaders
  <2>. QED
    BY <2>1, <2>2, HeadersAreKept
<1>. QED
  BY <1>1, HeadersInvariant, PTL

=============================================================================

------------------------------ MODULE S3Proxy ------------------------------
(***************************************************************************)
(* The S3 proxy: requests that go through the middleware of newS3Server    *)
(* (aws/service/s3/server.go) to justProxy, and the answers that go back   *)
(* through LogMiddleware (middleware/observability.go).  Several requests  *)
(* are served at a time, time passes between any two steps, and the        *)
(* policies they are judged by are edited meanwhile: what they see of them *)
(* is PolicyRegister, which PolicyCache implements.  Where the handler     *)
(* waits for others it may wait for ever: for a backend (its client has no *)
(* timeout), and for the rest of the body of a request it refuses.         *)
(***************************************************************************)
EXTENDS S3Request

CONSTANTS
    Slot,           \* the requests, by name
    Inputs,         \* what clients may send
    Policy,         \* contents of policy files
    Grants,         \* the <<action, region>> pairs a policy allows, see PolicyLanguage
    Broken,         \* the policies that cannot be executed or evaluated
    None,           \* no policy, nothing sent
    UpstreamStatus, \* what a backend may answer
    MaxTime         \* bound on the clock

ASSUME S3ProxyAssumption ==
    /\ Inputs \subseteq Request
    /\ None \notin Policy /\ Broken \subseteq Policy
    /\ Grants \in [Policy -> SUBSET ({"s3:GetObject", "s3:PutObject"} \X Regions)]
    /\ UpstreamStatus \subseteq {200, 403, 404, 500}
    /\ MaxTime \in Nat

VARIABLES
    stage,    \* where the handler of a request is
    req,      \* the request as it arrived
    msg,      \* its query and headers by now
    start,    \* RequestCtx.Time
    ctx,      \* the rest of the RequestCtx
    wire,     \* the status line sent to the client, 0 before
    sent,     \* what was sent to a backend, or None
    metrics,  \* the counters of observability.go
    now,      \* the clock
    policy, served, changed   \* the policies, see PolicyRegister

reqVars == <<stage, req, msg, start, ctx, wire, sent>>
policyVars == <<policy, served, changed>>
vars == <<reqVars, metrics, now, policyVars>>

Policies == INSTANCE PolicyRegister

Stage == {"new", "route", "authn", "url", "authz", "policy", "proxy", "upstream", "drain",
          "log", "done"}

(* Error codes and their HTTP status (s3ErrCodes); none is written "-".    *)
Status == [Malformed |-> 400, InvalidSignature |-> 400, InvalidRegion |-> 400,
           AccessDenied |-> 403, InvalidSecurity |-> 403,
           Internal |-> 500, UpstreamError |-> 500]

Message == [query : SUBSET Param, headers : Headers]

Sent == [backend : Backends, creds : Backends, region : Regions, query : SUBSET Param,
         headers : Headers, signed : Headers]

(* "Nothing sent" is nothing that can be sent.                             *)
ASSUME NoneAssumption == None \notin Sent

(* Types: in particular the log only has the statuses and errors there are.*)
TypeOK ==
    /\ stage \in [Slot -> Stage]
    /\ req \in [Slot -> Request \cup {None}]
    /\ msg \in [Slot -> Message]
    /\ start \in [Slot -> 0 .. MaxTime]
    /\ ctx \in [Slot -> [op : Operation, region : Regions, signed : SUBSET Name,
                         err : DOMAIN Status \cup {"-"},
                         status : {0, 200, 400, 403, 404, 500},
                         upstream : {-1, 0} \cup UpstreamStatus]]
    /\ wire \in [Slot -> {0, 200, 400, 403, 404, 500}]
    /\ \A q \in Slot : sent[q] # None => sent[q] \in Sent
    /\ metrics \in [started : Nat, finished : Nat, failed : Nat]
    /\ now \in 0 .. MaxTime
    /\ policy \in [Role -> Policy \cup {None}]
    /\ served \in [Role -> Policy \cup {None}]
    /\ changed \in [Role -> BOOLEAN]

Init ==
    /\ stage = [q \in Slot |-> "new"]
    /\ req = [q \in Slot |-> None]
    /\ msg = [q \in Slot |-> [query |-> {}, headers |-> NoHeaders]]
    /\ start = [q \in Slot |-> 0]
    /\ ctx = [q \in Slot |-> [op |-> "unrouted", region |-> "", signed |-> {}, err |-> "-",
                              status |-> 0, upstream |-> 0]]
    /\ wire = [q \in Slot |-> 0]
    /\ sent = [q \in Slot |-> None]
    /\ metrics = [started |-> 0, finished |-> 0, failed |-> 0]
    /\ now = 0
    /\ Policies!Init
    /\ served = [r \in Role |-> None]

----------------------------------------------------------------------------
(* Moving on, and answering                                                *)

Goto(q, s) == stage' = [stage EXCEPT ![q] = s]

(* WriteHeader: the tracking writer remembers the last status, net/http    *)
(* sends the first.                                                        *)
Wired(q, status) == wire' = [wire EXCEPT ![q] = IF @ = 0 THEN status ELSE @]

(* writeS3ErrorResponse, which first reads what is left of the body of the *)
(* request (makeSafeToWrite) ...                                           *)
Fail(q, err) ==
    /\ ctx' = [ctx EXCEPT ![q] = [@ EXCEPT !.err = err, !.status = Status[err]]]
    /\ Goto(q, "drain")

(* ... and writes its answer when that has come, or the client has left.   *)
(* All handlers return then.                                               *)
WriteErrorResponse(q) ==
    /\ stage[q] = "drain"
    /\ Wired(q, ctx[q].status)
    /\ Goto(q, "log")
    /\ UNCHANGED <<req, msg, start, ctx, sent, metrics>>

(* A stage that may fail goes on to stage s if it does not.                *)
FailOr(q, err, s) ==
    /\ \/ err # "none" /\ Fail(q, err)
       \/ err = "none" /\ Goto(q, s) /\ UNCHANGED ctx
    /\ UNCHANGED wire

----------------------------------------------------------------------------
(* The middleware                                                          *)

(* LogMiddleware: the request gets its RequestCtx and is counted.          *)
Arrive(q, r) ==
    /\ stage[q] = "new"
    /\ req' = [req EXCEPT ![q] = r]
    /\ msg' = [msg EXCEPT ![q] = [query |-> r.query, headers |-> r.headers]]
    /\ start' = [start EXCEPT ![q] = now]
    /\ metrics' = [metrics EXCEPT !.started = @ + 1]
    /\ Goto(q, "route")
    /\ UNCHANGED <<ctx, wire, sent>>

(* RegisterOperation: if no route matches the router answers, and the      *)
(* request goes on all the same.                                           *)
RegisterOperation(q) ==
    LET op == req[q].op IN
    /\ stage[q] = "route"
    /\ \/ /\ op = "unrouted"
          /\ ctx' = [ctx EXCEPT ![q].status = 404]
          /\ Wired(q, 404)
       \/ /\ op # "unrouted"
          /\ ctx' = [ctx EXCEPT ![q].op = op]
          /\ UNCHANGED wire
    /\ Goto(q, "authn")
    /\ UNCHANGED <<req, msg, start, sent, metrics>>

(* Not the code: a failed check returns without writing a response.        *)
AuthNNormalSilent(q) ==
    LET r == req[q]
        err == NormalError(r, now) IN
    /\ stage[q] = "authn" /\ ~ Panics(r, now) /\ ~ IsPresigned(r)
    /\ Goto(q, IF err = "none" THEN "authz" ELSE "log")
    /\ ctx' = [ctx EXCEPT ![q] = [@ EXCEPT !.region = TargetRegion(r), !.signed = SignedHeaders(r)]]
    /\ UNCHANGED <<req, msg, start, wire, sent, metrics>>

(* Not the code: the signed headers are not remembered.                    *)
AuthNNormalForgets(q) ==
    LET r == req[q]
        err == NormalError(r, now) IN
    /\ stage[q] = "authn" /\ ~ Panics(r, now) /\ ~ IsPresigned(r)
    /\ \/ err # "none" /\ Fail(q, err)
       \/ /\ err = "none" /\ Goto(q, "authz")
          /\ ctx' = [ctx EXCEPT ![q] = [@ EXCEPT !.region = TargetRegion(r)]]
    /\ UNCHANGED <<req, msg, start, wire, sent, metrics>>

(* handleAuthNNormal.  The region and the signed headers are only looked at*)
(* when this succeeds; of the headers that were not signed one value each  *)
(* is put back after the check.                                            *)
AuthNNormal(q) ==
    LET r == req[q]
        err == NormalError(r, now)
        trusted == SignedHeaders(r) \cup AlwaysSign IN
    /\ stage[q] = "authn" /\ ~ Panics(r, now) /\ ~ IsPresigned(r)
    /\ \/ err # "none" /\ Fail(q, err) /\ UNCHANGED msg
       \/ /\ err = "none" /\ Goto(q, "authz")
          /\ ctx' = [ctx EXCEPT ![q] = [@ EXCEPT !.region = TargetRegion(r),
                                                !.signed = SignedHeaders(r)]]
          /\ msg' = [msg EXCEPT ![q].headers = ReAdd(Keep(@, trusted), Removed(@, trusted))]
    /\ UNCHANGED <<req, start, wire, sent, metrics>>

(* handleAuthNPresigned, which reads the clock twice.  It takes out of the *)
(* query the removable parameters before it looks at the signature ...     *)
AuthNPresigned(q) ==
    LET r == req[q]
        err == PresignedError(r, now) IN
    /\ stage[q] = "authn" /\ ~ Panics(r, now) /\ IsPresigned(r)
    /\ msg' = [msg EXCEPT ![q].query = @ \ {"removable"}]
    /\ \/ err # "none" /\ Fail(q, err)
       \/ /\ err = "none" /\ Goto(q, "url")
          /\ ctx' = [ctx EXCEPT ![q] = [@ EXCEPT
                        !.region = TargetRegion(r),
                        !.signed = IF r.auth = "v4" THEN SignedHeaders(r) ELSE {}]]
    /\ UNCHANGED <<req, start, wire, sent, metrics>>

(* ... and x-proxy-head-as-get in the end.  A presigned request goes on    *)
(* with the hash of an empty body.                                         *)
AuthNUrl(q) ==
    LET err == UrlError(req[q], msg[q].query, msg[q].headers, now) IN
    /\ stage[q] = "url"
    /\ FailOr(q, err, "authz")
    /\ msg' = [msg EXCEPT ![q] =
                  [query |-> @.query \ {"HeadAsGet"},
                   headers |-> IF err = "none" THEN Add(@.headers, "X-Amz-Content-Sha256", "proxy")
                               ELSE @.headers]]
    /\ UNCHANGED <<req, start, sent, metrics>>

(* Not the code: the grace time holds for every operation.                 *)
VerifyClaimsLeniently(q) ==
    /\ stage[q] = "authz"
    /\ LET ok == ctx[q].op \in Read \/ TokenValid(req[q], now, Grace)
       IN  FailOr(q, IF ok THEN "none" ELSE "InvalidSecurity", "policy")
    /\ UNCHANGED <<req, msg, start, sent, metrics>>

(* authorizeS3Action reads the token again, for reads without verifying    *)
(* it: they have a grace time, which this is not told of.                  *)
VerifyClaims(q) ==
    /\ stage[q] = "authz"
    /\ LET ok == ctx[q].op \in Read \/ TokenValid(req[q], now, 0)
       IN  FailOr(q, IF ok THEN "none" ELSE "InvalidSecurity", "policy")
    /\ UNCHANGED <<req, msg, start, sent, metrics>>

(* GetPolicy answers from memory or, if nothing is served, with the policy,*)
(* or fails while that is being changed.                                   *)
Answers(role) ==
    {policy[role]} \cup ({served[role]} \ {None}) \cup IF changed[role] THEN {None} ELSE {}

(* Not the code: an unsupported operation needs no actions, and no actions *)
(* are allowed.                                                            *)
PolicyErrorNoActions(q, p) ==
    IF p \in {None} \cup Broken THEN "Internal"
    ELSE IF ctx[q].op \notin DOMAIN IamAction THEN "none"
    ELSE IF <<IamAction[ctx[q].op], ctx[q].region>> \notin Grants[p] THEN "AccessDenied"
    ELSE "none"

(* The policy is executed, the actions of the request are determined, and  *)
(* all of them have to be allowed.                                         *)
PolicyError(q, p) ==
    LET r == req[q] IN
    IF p \in {None} \cup Broken \/ ctx[q].op \notin DOMAIN IamAction THEN "Internal"
    ELSE IF <<IamAction[ctx[q].op], ctx[q].region>> \notin Grants[p] THEN "AccessDenied"
    ELSE "none"

EvaluatePolicy(q) ==
    /\ stage[q] = "policy"
    /\ \E p \in Answers(req[q].role) : FailOr(q, PolicyError(q, p), "proxy")
    /\ UNCHANGED <<req, msg, start, sent, metrics>>

----------------------------------------------------------------------------
(* justProxy                                                               *)

(* Not the code: errInvalidBackendErr is not checked.                      *)
ProxyErrorUnchecked(q) ==
    IF IsStreaming(msg[q].headers) /\ Backend(ctx[q].region) \notin Streaming THEN "Internal"
    ELSE "none"

(* The errors of reTargetRequest, a streaming request to a backend that    *)
(* cannot take it, and one whose signed headers are not known.             *)
ProxyError(q) ==
    LET b == Backend(ctx[q].region) IN
    IF b = NoBackend THEN "InvalidRegion"
    ELSE IF ~ req[q].sendable THEN "Internal"
    ELSE IF IsStreaming(msg[q].headers) /\ b \notin Streaming THEN "Internal"
    ELSE IF TrustedHeaders(req[q], ctx[q].signed) = {} THEN "Internal"
    ELSE "none"

(* The Credential its signature is to be made for is asked for its region. *)
ProxyPanics(q) == ProxyError(q) = "none" /\ SigningCredential(req[q]).shape = "short"

(* The handler panics: net/http recovers and closes the connection, and the*)
(* deferred functions of LogMiddleware run.                                *)
Panic(q) ==
    /\ \/ stage[q] = "authn" /\ Panics(req[q], now)
       \/ stage[q] = "proxy" /\ ProxyPanics(q)
    /\ wire' = [wire EXCEPT ![q] = 0]
    /\ Goto(q, "log")
    /\ UNCHANGED <<req, msg, start, ctx, sent, metrics>>

(* The request as it is sent, after ForceRequesterPays and reTargetRequest *)
ToBackend(q) ==
    LET b == Backend(ctx[q].region)
        headers == Retarget(WithPayer(req[q], msg[q].headers))
        trusted == TrustedHeaders(req[q], ctx[q].signed)
    IN  [backend |-> b, creds |-> b, region |-> SignatureRegion(req[q], ctx[q].region),
         query |-> msg[q].query \ SigningRemoves,
         headers |-> ForwardedHeaders(headers, trusted, b),
         signed |-> CoveredFor(headers, trusted, b)]

Forward(q) ==
    /\ stage[q] = "proxy" /\ ~ ProxyPanics(q)
    /\ FailOr(q, ProxyError(q), "upstream")
    /\ sent' = IF ProxyError(q) = "none" THEN [sent EXCEPT ![q] = ToBackend(q)] ELSE sent
    /\ UNCHANGED <<req, msg, start, metrics>>

(* The backend answers, or the exchange fails (also when the client leaves);*)
(* the client of justProxy has no timeout.                                 *)
UpstreamAnswers(q, s) ==
    /\ stage[q] = "upstream"
    /\ ctx' = [ctx EXCEPT ![q] = [@ EXCEPT !.upstream = s, !.status = s]]
    /\ Wired(q, s)
    /\ Goto(q, "log")
    /\ UNCHANGED <<req, msg, start, sent, metrics>>

(* Not the code: SetUpstreamHTTPStatus is left out.                        *)
UpstreamFailsUnnoticed(q) ==
    /\ stage[q] = "upstream"
    /\ Fail(q, "UpstreamError")
    /\ UNCHANGED <<req, msg, start, wire, sent, metrics>>

UpstreamFails(q) ==
    /\ stage[q] = "upstream"
    /\ ctx' = [ctx EXCEPT ![q] = [@ EXCEPT !.upstream = -1, !.err = "UpstreamError", !.status = 500]]
    /\ Goto(q, "drain")
    /\ UNCHANGED <<req, msg, start, wire, sent, metrics>>

(* Not the code: the metrics are not deferred, so that a panic skips them. *)
LogRequestUndeferred(q) ==
    /\ stage[q] = "log"
    /\ metrics' = IF wire[q] = 0 THEN metrics
                  ELSE [metrics EXCEPT !.finished = @ + 1, !.failed = @ + 1]
    /\ Goto(q, "done")
    /\ UNCHANGED <<req, msg, start, ctx, wire, sent>>

(* The deferred functions of LogMiddleware: the metrics, then the log.     *)
(* RequestCtx.Error is never nil, so that each request counts as failed.   *)
LogRequest(q) ==
    /\ stage[q] = "log"
    /\ metrics' = [metrics EXCEPT !.finished = @ + 1, !.failed = @ + 1]
    /\ Goto(q, "done")
    /\ UNCHANGED <<req, msg, start, ctx, wire, sent>>

----------------------------------------------------------------------------
Handle(q) ==
    /\ UNCHANGED <<now, policyVars>>
    /\ \/ RegisterOperation(q)
       \/ Panic(q) \/ AuthNNormal(q) \/ AuthNPresigned(q) \/ AuthNUrl(q)
       \/ VerifyClaims(q) \/ EvaluatePolicy(q)
       \/ Forward(q)
       \/ LogRequest(q)

Client(q) == (\E r \in Inputs : Arrive(q, r)) /\ UNCHANGED <<now, policyVars>>

(* What the handler waits for: the backend and the client                  *)
Awaited(q) ==
    /\ \/ UpstreamFails(q) \/ \E s \in UpstreamStatus : UpstreamAnswers(q, s)
       \/ WriteErrorResponse(q)
    /\ UNCHANGED <<now, policyVars>>

Tick == now < MaxTime /\ now' = now + 1 /\ UNCHANGED <<reqVars, metrics, policyVars>>

EditPolicies == Policies!Next /\ UNCHANGED <<reqVars, metrics, now>>

Next ==
    \/ \E q \in Slot : Client(q) \/ Handle(q) \/ Awaited(q)
    \/ Tick
    \/ EditPolicies

Spec == Init /\ [][Next]_vars

(* The goroutine of a request runs on; clients, backends and whoever edits *)
(* the policies may stop at any time.                                      *)
FairSpec == Spec /\ \A q \in Slot : WF_vars(Handle(q))

----------------------------------------------------------------------------
(* Properties                                                              *)

(* What was forwarded had been authenticated when it arrived: signed with  *)
(* the secret of its access key, with a token for that key that was not    *)
(* expired, or, if it is a read from a presigned URL, within its grace     *)
(* time, and the URL not expired (AWSAuthN, authorizeS3Action).            *)
ForwardedWasAuthentic ==
    \A q \in Slot : sent[q] # None =>
        LET r == req[q] IN
        /\ r.signedFor = SignedMethod(r)
        /\ r.bound \/ LegacyCredentials
        /\ TokenValid(r, start[q], IF IsPresigned(r) /\ r.op \in Read THEN Grace ELSE 0)
        /\ IsPresigned(r) => start[q] <= r.urlExp

(* The strengthening of ForwardedWasAuthentic: what each stage can rely on.*)
Authenticated(q) ==
    LET r == req[q] IN
    /\ r.signedFor = SignedMethod(r)
    /\ r.bound \/ LegacyCredentials
    /\ TokenValid(r, start[q], IF IsPresigned(r) THEN Grace ELSE 0)
    /\ IsPresigned(r) => start[q] <= r.urlExp

StagesRelyOn(q) ==
    /\ stage[q] # "new" => req[q] \in Request /\ start[q] <= now
    /\ stage[q] \in {"new", "route"} => ctx[q].op = "unrouted"
    /\ stage[q] \notin {"new", "route"} => ctx[q].op = req[q].op
    /\ stage[q] = "url" => IsPresigned(req[q]) /\ TokenForAccessKey(req[q], start[q], Grace)
    /\ stage[q] \in {"authz", "policy", "proxy", "upstream"} => Authenticated(q)
    /\ stage[q] \in {"policy", "proxy", "upstream"}
          => req[q].op \in Read \/ TokenValid(req[q], start[q], 0)
    /\ sent[q] # None => stage[q] \in {"upstream", "drain", "log", "done"}

IInv == TypeOK /\ ForwardedWasAuthentic /\ \A q \in Slot : StagesRelyOn(q)

(* A request is only let through by a policy that is in force: one that    *)
(* allows its action in the region it is for, unless a change of the policy*)
(* of its role is still to be dealt with, or was missed by the cache       *)
(* (authorizeS3Action; see PolicyRegister).                                *)
AllowedByCurrentPolicy ==
    [][\A q \in Slot :
          stage[q] = "policy" /\ stage'[q] = "proxy" =>
              LET p == policy[req[q].role] IN
              \/ changed[req[q].role]
              \/ /\ p # None /\ p \notin Broken
                 /\ req[q].op \in DOMAIN IamAction
                 /\ <<IamAction[req[q].op], TargetRegion(req[q])>> \in Grants[p]]_vars

(* What is sent goes, with the credentials of that backend, to the backend *)
(* of the region the policy was asked about, or to the default one if the  *)
(* region names none and that is configured (getBackendConfig).  It is     *)
(* signed for that region too, which need not be the one of the backend, or*)
(* for one that the client has written in its query (SignWithCreds).  It   *)
(* carries no client's authentication of any kind but an expiry time.      *)
ForwardedAsAuthorized ==
    \A q \in Slot : sent[q] # None =>
        LET r == req[q] IN
        /\ sent[q].creds = sent[q].backend
        /\ sent[q].backend = TargetRegion(r)
              \/ /\ sent[q].backend = DefaultBackend
                 /\ TargetRegion(r) \notin Backends
                 /\ TargetRegion(r) = "" \/ RegionToDefault
        /\ \/ sent[q].region = TargetRegion(r)
           \/ HasCredential(r.query) /\ sent[q].region = r.credential.region
        /\ IsStreaming(r.headers) => sent[q].backend \in Streaming
        /\ \A a \in DOMAIN AuthParams :
              sent[q].query \cap AuthParams[a] \subseteq {"Expires", "X-Amz-Expires"}
        /\ IsPresigned(r) => sent[q].query \cap {"HeadAsGet", "removable"} = {}
        /\ \A n \in {"Authorization", "X-Amz-Security-Token"} :
              sent[q].headers[n] \in {<<>>, <<"proxy">>}

(* The headers arrive at the backend as the signature for it says, though  *)
(* some are put back after it is calculated (justProxy).  The exception is *)
(* the date of a presigned request, which may have one in its headers, too.*)
SentAsSigned ==
    \A q \in Slot : sent[q] # None =>
        \A n \in Present(sent[q].signed) :
            \/ sent[q].headers[n] = sent[q].signed[n]
            \/ n = "X-Amz-Date" /\ IsPresigned(req[q]) /\ n \in Present(req[q].headers)

(* "we should only sign what was signed in the original signature or what  *)
(* we have added" (justProxy): what the client did not sign is not signed  *)
(* with the credentials of a backend, the length of the body excepted.     *)
OnlyTrustedIsSigned ==
    \A q \in Slot : sent[q] # None =>
        \A n \in Present(sent[q].signed) \ {"Content-Length"} :
            LET bySigner == req[q].signed[n]
            IN  sent[q].signed[n]
                    \in {<<"proxy">>, bySigner, First(bySigner), Append(bySigner, "proxy")}

(* No header of the client's gets lost or changed while headers are taken  *)
(* out and put back, twice (temporaryRemoveHeaders), but for its           *)
(* authentication and the one ForceRequesterPays sets: those covered by a  *)
(* signature in a header arrive as they were signed, the others at least   *)
(* with their first value.                                                 *)
Replaced(r) ==
    {"Authorization", "X-Amz-Security-Token"}
        \cup IF r.payer THEN {"X-Amz-Request-Payer"} ELSE {}

HeadersKept ==
    \A q \in Slot : sent[q] # None =>
        LET r == req[q] IN
        \A n \in Name \ Replaced(r) :
            IF r.auth = "header" /\ n \in Present(r.signed) THEN sent[q].headers[n] = r.signed[n]
            ELSE r.headers[n] # <<>> =>
                    \E i \in DOMAIN sent[q].headers[n] : sent[q].headers[n][i] = Head(r.headers[n])

(* A request that was let through by its policy is only refused because of *)
(* the backend, or as its target makes no URL there: justProxy still knows *)
(* the signed headers, of which the request itself does not tell any more  *)
(* (TemporaryRemoveUntrustedHeaders).                                      *)
RefusedForBackendOnly ==
    [][\A q \in Slot :
          stage[q] = "proxy" /\ stage'[q] = "drain" =>
              LET b == Backend(TargetRegion(req[q])) IN
              \/ b = NoBackend \/ ~ req[q].sendable
              \/ IsStreaming(req[q].headers) /\ b \notin Streaming]_vars

(* The log of a request tells what became of it (requestctx.go, the        *)
(* comment on UpstreamHTTPStatus): 0 if it was not sent upstream, < 0 if   *)
(* that failed, else the status that was also sent to the client.          *)
LogTellsOutcome ==
    \A q \in Slot : stage[q] \in {"log", "done"} =>
        /\ ctx[q].upstream = 0 <=> sent[q] = None
        /\ ctx[q].upstream < 0 <=> ctx[q].err = "UpstreamError"
        /\ ctx[q].upstream > 0 => ctx[q].err = "-" /\ wire[q] = ctx[q].upstream
        /\ ctx[q].err # "-" /\ ctx[q].op # "unrouted" => wire[q] = Status[ctx[q].err]

(* started - finished is the number of requests that are being served.     *)
MetricsAgree ==
    metrics.started - metrics.finished
        = Cardinality({q \in Slot : stage[q] \notin {"new", "done"}})

(* A Credential that makes a handler panic, wherever it is                 *)
MayPanic(r) == "short" \in {r.authorization.shape, r.credential.shape}

(* Every request is answered, or waits for a backend or for the rest of its*)
(* own body to be sent, unless the handler may panic on its Credential: no *)
(* stage returns without having answered or called the next.               *)
Answered ==
    \A q \in Slot : (stage[q] = "route" /\ ~ MayPanic(req[q]))
                        ~> (wire[q] # 0 \/ stage[q] \in {"upstream", "drain"})

(* "HTTP Status: The numeric HTTP status code of the response"             *)
(* (requestctx.go), for requests that get one.                             *)
LoggedStatusIsSent ==
    \A q \in Slot : stage[q] = "done" /\ wire[q] # 0 => ctx[q].status = wire[q]
============================================================================

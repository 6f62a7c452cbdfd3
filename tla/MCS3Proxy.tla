----------------------------- MODULE MCS3Proxy -----------------------------
(***************************************************************************)
(* Small instances of S3Proxy for TLC: one role, whose policy allows all,  *)
(* only reads in one region, or is broken.                                 *)
(***************************************************************************)
EXTENDS S3Proxy, TLC

CONSTANTS r1, all, reads, broken

(* The configuration: the second of two entries for a region counts, and   *)
(* it is the one with a capability.                                        *)
Config == INSTANCE BackendsConfig WITH S3Capability <- {"StreamingUnsignedPayloadTrailer"}

Nothing == [given |-> FALSE, valid |-> FALSE, key |-> "", secret |-> "", token |-> ""]
Keys == [given |-> TRUE, valid |-> TRUE, key |-> "k", secret |-> "s", token |-> ""]

Entry(region, capabilities) ==
    [region |-> region, endpointOk |-> TRUE, file |-> Nothing, inline |-> Keys,
     capabilities |-> capabilities]

File == [default |-> "eu",
         backends |-> <<[Entry("eu", {}) EXCEPT !.file = Keys], Entry("us", {}),
                        [Entry("us", {"StreamingUnsignedPayloadTrailer"}) EXCEPT !.inline.token = "t"]>>]

ASSUME ConfigLoads == ~ Config!ConfigError(File)

MCBackends == DOMAIN Config!BackendsOf(File)
MCRegions == MCBackends \cup {"mars", ""}
MCStreaming == Config!BackendsWith(File, "StreamingUnsignedPayloadTrailer")
MCWithToken == Config!BackendsWithToken(File)

(* The texts of the policies, in which the name of an action, a resource or*)
(* a region is one character, and what they grant: PolicyEval shows that   *)
(* this is what EvaluateAll makes of them.                                 *)
Language == INSTANCE PolicyLanguage

Allow(actions, condition) ==
    [effect |-> "Allow", actions |-> actions, resources |-> {<<"*">>}, condition |-> condition]

Text(p) ==
    CASE p = all -> <<Allow({<<"*">>}, <<>>)>>
      [] p = reads -> <<Allow({<<"*">>}, "StringLike" :> ("aws:RequestedRegion" :> {<<"eu">>})),
                        [Allow({<<"s3:PutObject">>}, <<>>) EXCEPT !.effect = "Deny"]>>
      [] OTHER -> <<>>

MCGrants ==
    [p \in Policy |->
        {g \in {"s3:GetObject", "s3:PutObject"} \X MCRegions :
            Language!Permits(Text(p),
                Language!NewIamAction(<<g[1]>>, <<"object">>,
                    "aws:RequestedRegion" :> IF g[2] = "" THEN <<>> ELSE <<g[2]>>, <<>>))}]

MCUpstreamStatus == {200, 403}

(* What a client with valid credentials sends for each operation, with each*)
(* kind of authentication.                                                 *)
Sends(names) == [n \in Name |-> IF n \in names THEN <<"client">> ELSE <<>>]

Signs == {"X-Amz-Security-Token", "X-Amz-Date", "X-Amz-Content-Sha256"}

For(region) == [shape |-> "ok", region |-> region]

Good ==
    {[op |-> o, auth |-> a, authorization |-> For("eu"), credential |-> For("eu"),
      wellFormed |-> TRUE, headersOk |-> TRUE, genuine |-> TRUE, bound |-> TRUE,
      exp |-> 1, signedFor |-> Method[o], urlExp |-> 1, sendable |-> TRUE, payer |-> FALSE,
      query |-> AuthParams[a],
      headers |-> IF a = "header" THEN Sends(Signs \cup {"Authorization"}) ELSE NoHeaders,
      signed |-> IF a = "header" THEN Sends(Signs) ELSE NoHeaders, role |-> r1]
        : o \in Operation, a \in DOMAIN AuthParams}

(* These, and what differs from them in one respect.                       *)
Deviating(S) ==
    UNION {
        {r, [r EXCEPT !.wellFormed = FALSE], [r EXCEPT !.sendable = FALSE]}
        \cup {[r EXCEPT !.headersOk = FALSE], [r EXCEPT !.genuine = FALSE],
              [r EXCEPT !.bound = FALSE], [r EXCEPT !.exp = 2], [r EXCEPT !.urlExp = 0],
              [r EXCEPT !.signedFor = "none"], [r EXCEPT !.signedFor = "GET"],
              [r EXCEPT !.payer = TRUE],
              [r EXCEPT !.query = @ \cup {"HeadAsGet"}],
              [r EXCEPT !.query = @ \cup {"removable"}],
              [r EXCEPT !.query = @ \cup {"versionId"}]}
      : r \in S}

(* A Credential in the header, in the query or in both, whatever the kind  *)
(* of the request needs.                                                   *)
Credentials == {For(x) : x \in MCRegions} \cup [shape : {"bad", "short"}, region : {"us"}]

WithHeader(r) == [r EXCEPT !.headers["Authorization"] = <<"client">>]

WithQuery(r) == [r EXCEPT !.query = @ \cup {"X-Amz-Algorithm", "X-Amz-Credential"}]

CredentialDeviating(S) ==
    {[r EXCEPT !.authorization = c, !.credential = d] :
        r \in UNION {{x, WithHeader(x), WithQuery(x), WithQuery(WithHeader(x))} : x \in S},
        c \in Credentials, d \in Credentials}

(* To a region, wherever it is named                                       *)
Elsewhere(r, region) == [r EXCEPT !.authorization = For(region), !.credential = For(region)]

(* One header more or less, or another one, signed or not, and what the    *)
(* bucket and the backend make of two of them.                             *)
Values(n) ==
    {<<>>, <<"client">>, <<"other">>}
    \cup IF n # "Content-Length" THEN {<<"client", "other">>} ELSE {}
    \cup IF n = "X-Amz-Content-Sha256" THEN {<<"streaming">>} ELSE {}

HeaderDeviating(S) ==
    UNION {
        {[r EXCEPT !.headers[n] = v] : v \in Values(n)}
        \cup (IF r.auth = "v4" /\ r.headers["Authorization"] = <<>> THEN {}
              ELSE {[r EXCEPT !.signed[n] = <<>>]}
                   \cup {[r EXCEPT !.headers[n] = v, !.signed[n] = v] : v \in Values(n)})
      : r \in S, n \in Name \ {"Authorization", "Host"}}

(* A HEAD request with the signature of a GET, which may be asked for.     *)
HeadAsGet ==
    {[r EXCEPT !.signedFor = "GET", !.query = @ \cup extra] :
        r \in {x \in Good : x.op = "HeadObject"}, extra \in SUBSET {"HeadAsGet", "removable"}}

Variety ==
    LET gets == {r \in Good : r.op = "GetObject"}
        others == HeaderDeviating(gets \cup {WithHeader(r) : r \in {x \in gets : x.auth = "v4"}})
    IN  Good \cup Deviating({r \in Good : r.op \in {"GetObject", "PutObject"}}) \cup others
        \cup HeadAsGet
        \cup CredentialDeviating(gets)
        \cup {Elsewhere(r, "us") : r \in {s \in others : IsStreaming(s.headers)}}
        \cup {[r EXCEPT !.payer = TRUE] :
                 r \in {s \in others : s.headers["X-Amz-Request-Payer"] # <<>>}}

(* TLC would search the parts of such a union each time a request arrives. *)
OneOff == {r \in Variety : r.role = r1}

(* Requests that meet in the run with several: reads, one of them for the  *)
(* other region and one that makes the handler panic, and one that no route*)
(* matches.                                                                *)
Mixed ==
    LET By(op, auth) == CHOOSE r \in Good : r.op = op /\ r.auth = auth
    IN  {By("GetObject", "header"), Elsewhere(By("GetObject", "header"), "us"),
         [By("GetObject", "v4") EXCEPT !.credential.shape = "short"], By("unrouted", "header")}
============================================================================

------------------------------ MODULE Sessions ------------------------------
(***************************************************************************)
(* The STS proxy and the S3 proxy, which share a key and a directory of    *)
(* policies but no memory (cmd/proxysts.go, cmd/proxys3.go): a client asks *)
(* the one for credentials and sends requests with the session token in    *)
(* them to the other.  Time passes for both, and whoever edits the policies*)
(* does so for both.  What S3Proxy assumes of tokens, their role and when  *)
(* they expire, comes from STS here; the cache of the S3 proxy, which has  *)
(* no part in that, is left empty.                                         *)
(***************************************************************************)
EXTENDS STS

CONSTANTS
    S3Slot,         \* the requests to the S3 proxy, by name
    Uses,           \* what clients send there, but for what is in the token
    Using,          \* the requests to STS whose clients go on to send them
    Forged,         \* what they send with a token that STS has not made
    Backends, DefaultBackend, Regions, Streaming, WithToken,
    RegionToDefault, LegacyCredentials, Grace, NoBackend, Grants, UpstreamStatus

VARIABLES
    s3stage, s3req, s3msg, s3start, s3ctx, s3wire, s3sent, s3metrics  \* see S3Proxy

s3Vars == <<s3stage, s3req, s3msg, s3start, s3ctx, s3wire, s3sent, s3metrics>>
allVars == <<vars, s3Vars>>

S3Inputs == INSTANCE S3Request

ASSUME SessionsAssumption ==
    /\ Uses \cup Forged \subseteq S3Inputs!Request
    /\ \A r \in Forged : ~ r.genuine
    /\ DefaultBackend \in Backends /\ Backends \subseteq Regions /\ "" \in Regions
    /\ Streaming \subseteq Backends /\ WithToken \subseteq Backends
    /\ NoBackend \notin Backends
    /\ RegionToDefault \in BOOLEAN /\ LegacyCredentials \in BOOLEAN
    /\ Grace \in Nat
    /\ Grants \in [Policy -> SUBSET ({"s3:GetObject", "s3:PutObject"} \X Regions)]
    /\ UpstreamStatus \subseteq {200, 403, 404, 500}

(* The S3 proxy, with what is proved of it for all clients and policies.   *)
S3 == INSTANCE S3ProxyProofs WITH
          Slot <- S3Slot, Inputs <- S3Inputs!Request, Broken <- Unparsable,
          stage <- s3stage, req <- s3req, msg <- s3msg, start <- s3start, ctx <- s3ctx,
          wire <- s3wire, sent <- s3sent, metrics <- s3metrics,
          served <- [r \in Role |-> None], changed <- [r \in Role |-> FALSE]

(* What is sent to a backend is not mistaken for nothing sent.             *)
ASSUME SentAssumption == None \notin S3!Sent

SessionsInit == Init /\ S3!Init

----------------------------------------------------------------------------
(* A client that has asked for credentials sends a request, with the token *)
(* in them or with one that was made or changed by someone else.           *)
UseCredentials(p, q) ==
    \E r \in Uses :
        /\ wire[q] = 200 /\ issued[q] # None
        /\ S3!Arrive(p, [r EXCEPT !.role = issued[q].role, !.exp = issued[q].exp])

Forge(p) == \E r \in Forged : S3!Arrive(p, r)

S3Client(p) ==
    /\ \/ \E q \in Slot : stage[q] = "done" /\ req[q] \in Using /\ UseCredentials(p, q)
       \/ Forge(p)
    /\ UNCHANGED vars

S3Step(p) == (S3!Handle(p) \/ S3!Awaited(p)) /\ UNCHANGED vars

STSStep(q) == (Client(q) \/ Handle(q)) /\ UNCHANGED s3Vars

SessionsNext ==
    \/ \E q \in Slot : STSStep(q)
    \/ \E p \in S3Slot : S3Client(p) \/ S3Step(p)
    \/ (Tick \/ EditPolicies) /\ UNCHANGED s3Vars

SessionsSpec == SessionsInit /\ [][SessionsNext]_allVars

(* The goroutine of a request to the STS proxy runs on.                    *)
SessionsFairSpec ==
    SessionsSpec /\ \A q \in Slot : WF_allVars(Handle(q) /\ UNCHANGED s3Vars)

----------------------------------------------------------------------------
(* What the two promise together: see Access.                              *)
Granted ==
    {[role |-> issued[q].role, exp |-> issued[q].exp] : q \in {x \in Slot : issued[x] # None}}

Lenient(r) == S3!IsPresigned(r) /\ r.op \in S3!Read

Used ==
    {[role |-> s3req[p].role, at |-> s3start[p], lenient |-> Lenient(s3req[p])] :
        p \in {x \in S3Slot : s3sent[x] # None}}

(* A token shows full seconds, and is never early.                         *)
Promise == INSTANCE Access WITH
               sessions <- Granted, uses <- Used,
               Lifetime <- (MinDuration - Second + 1) .. MaxDuration

(* The backends are only used in sessions that the STS proxy granted, while*)
(* they last: the two proxies together implement Access                    *)
(* (newProxyIssuedToken, AWSAuthN, authorizeS3Action).                     *)
ImplementsAccess == Promise!Spec
=============================================================================

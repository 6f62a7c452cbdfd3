----------------------------- MODULE S3Request -----------------------------
(***************************************************************************)
(* A request as the S3 proxy sees it, and what its stages check of it:     *)
(* middleware/authentication.go, presign/, aws/service/s3/iam.go and       *)
(* backendconfig.go.  A request r has the fields                           *)
(*    op         the operation the router finds for it, or "unrouted"      *)
(*    auth       "header", or the kind of presigned URL: "v4", "v1"        *)
(*    authorization  the Credential in its header Authorization, if it has *)
(*               that header                                               *)
(*    credential the Credential in its query, if it is there               *)
(*    wellFormed the time and the access key a presigned URL names are such*)
(*    headersOk  the list of signed headers is one the proxy understands   *)
(*    genuine, bound, exp   the session token: issued by the proxy, for    *)
(*               the access key of the request, and when it expires        *)
(*    signedFor  the method that was signed, "none" if that was not done   *)
(*               with this key and for the region of the check             *)
(*    urlExp     when a presigned URL expires                              *)
(*    sendable   a URL at a backend can be made of its target, and signed  *)
(*    payer      its bucket is one that forces the requester to pay        *)
(*    query      the query parameters it carries, by name                  *)
(*    headers    its headers, as they arrive, see HeaderOps                *)
(*    signed     the headers its signature covers, as they were signed,    *)
(*               besides Host                                              *)
(*    role       the role in the session token                             *)
(***************************************************************************)
EXTENDS Integers, FiniteSets, HeaderOps

CONSTANTS
    Role,               \* the roles
    Backends,           \* the regions that have a backend
    DefaultBackend,     \* the one of them that is the default
    Regions,            \* the regions a request can name, "" among them
    Streaming,          \* backends with S3CapabilityStreamingUnsignedPayloadTrailer
    WithToken,          \* backends whose credentials have a session token
    RegionToDefault,    \* invalidRegionToDefaultRegion
    LegacyCredentials,  \* DEPRECATED_ALLOW_LEGACY_CREDENTIALS
    Grace,              \* signedUrlGracePeriod
    NoBackend           \* errInvalidBackendErr

ASSUME BackendsAssumption ==
    /\ DefaultBackend \in Backends /\ Backends \subseteq Regions /\ "" \in Regions
    /\ Streaming \subseteq Backends /\ WithToken \subseteq Backends
    /\ NoBackend \notin Backends
    /\ RegionToDefault \in BOOLEAN /\ LegacyCredentials \in BOOLEAN
    /\ Grace \in Nat

----------------------------------------------------------------------------
(* Operations                                                              *)

(* The operations the router registers that the properties tell apart:     *)
(* reads, another one with an IAM action, one without; and requests no     *)
(* route matches.                                                          *)
Method == [GetObject |-> "GET", HeadObject |-> "HEAD", PutObject |-> "PUT",
           HeadBucket |-> "HEAD", unrouted |-> "DELETE"]
Operation == DOMAIN Method

(* Signatures and tokens of these get a grace time.                        *)
Read == {"GetObject", "HeadObject"}

(* newIamActionsFromS3Request: the action needed; there is none for some   *)
(* operations.                                                             *)
IamAction == [op \in Read \cup {"PutObject"} |-> IF op \in Read THEN "s3:GetObject" ELSE "s3:PutObject"]

----------------------------------------------------------------------------
(* Authentication                                                          *)

(* What a client of each kind puts in its query to authenticate itself, and*)
(* what else it may carry that some stage looks at.                        *)
AuthParams ==
    [header |-> {},
     v4 |-> {"X-Amz-Algorithm", "X-Amz-Credential", "X-Amz-Date", "X-Amz-Expires",
             "X-Amz-Security-Token", "X-Amz-SignedHeaders", "X-Amz-Signature"},
     v1 |-> {"AWSAccessKeyId", "Signature", "x-amz-security-token", "Expires"}]

Param ==
    (UNION {AuthParams[a] : a \in DOMAIN AuthParams}) \cup {"HeadAsGet", "removable", "versionId"}

(* GetCredentialPart: a "bad" one is refused, a "short" one has too few    *)
(* parts, and those that are not there are indexed all the same.           *)
Credential == [shape : {"ok", "bad", "short"}, region : Regions]

Request ==
    [op : Operation, auth : DOMAIN AuthParams, authorization : Credential, credential : Credential,
     wellFormed : BOOLEAN, headersOk : BOOLEAN, genuine : BOOLEAN, bound : BOOLEAN, exp : Int,
     signedFor : {"GET", "HEAD", "PUT", "DELETE", "none"}, urlExp : Nat,
     sendable : BOOLEAN, payer : BOOLEAN, query : SUBSET Param,
     headers : Headers, signed : Headers, role : Role]

IsPresigned(r) == r.auth \in {"v4", "v1"}

(* GetSignatureCredentialPartFromRequest: the header comes first, then, if *)
(* there is none, the query, of whatever kind the request is; there may be *)
(* no Credential in either.                                                *)
HasCredential(query) == {"X-Amz-Algorithm", "X-Amz-Credential"} \subseteq query

CredentialIn(r, headers) ==
    IF headers["Authorization"] # <<>> THEN r.authorization
    ELSE IF HasCredential(r.query) THEN r.credential
    ELSE [shape |-> "bad", region |-> ""]

(* GetRegionFromRequest                                                    *)
RegionIn(c, fallback) == IF c.shape = "ok" THEN c.region ELSE fallback

(* ExtractTokenClaims with the proxy's key: the jwt library accepts a      *)
(* token until it expires, leeway later.                                   *)
TokenValid(r, t, leeway) == r.genuine /\ t < r.exp + leeway

(* makeSureSessionTokenIsForAccessKey                                      *)
TokenForAccessKey(r, t, leeway) ==
    TokenValid(r, t, leeway) /\ (r.bound \/ LegacyCredentials)

(* The signature covers the method; a HEAD request with x-proxy-head-as-get*)
(* can use a URL that was presigned for GET.                               *)
SignedMethod(r) ==
    IF IsPresigned(r) /\ "HeadAsGet" \in r.query /\ Method[r.op] = "HEAD"
    THEN "GET" ELSE Method[r.op]

(* The older kind of URL is compared with the one that the proxy builds,   *)
(* which has no other parameters.                                          *)
OldUrlAsBuilt(query) == query \subseteq AuthParams.v1

(* The signature covers the query of a "v4" URL, to which someone else may *)
(* have added removable parameters since.  query is that of the request as *)
(* it is checked.                                                          *)
QueryAsSigned(r, query) ==
    CASE r.auth = "v4" -> "removable" \notin query
      [] r.auth = "v1" -> OldUrlAsBuilt(query)
      [] OTHER -> TRUE

(* getSignedHeadersFromRequest, while the client's signature is there: what*)
(* a header Authorization names or, without one, what the query does, which*)
(* has to be Host.                                                         *)
SignedHeaders(r) ==
    {"Host"} \cup IF r.headers["Authorization"] # <<>> THEN Present(r.signed) ELSE {}

(* What the signature that the proxy calculates for comparison covers.  For*)
(* a signature in a header the length is that of a header that was signed, *)
CoveredByHeader(r, headers) ==
    Covered(Prepared(Keep(headers, SignedHeaders(r) \cup AlwaysSign),
                     First(headers["X-Amz-Security-Token"])))

(* for a "v4" URL it is that of the body;                                  *)
CoveredByUrl(r, headers) ==
    Covered(Keep(headers, SignedHeaders(r) \cup AlwaysSign \cup {"Content-Length"}))

(* for an older URL all x-amz-* headers are covered, with its token.       *)
CoveredByOldUrl(headers) ==
    Keep(headers, {"X-Amz-Date", "X-Amz-Content-Sha256", "X-Amz-Request-Payer"})

CoveredByCheck(r, headers) ==
    CASE r.auth = "header" -> CoveredByHeader(r, headers)
      [] r.auth = "v4" -> CoveredByUrl(r, headers)
      [] OTHER -> CoveredByOldUrl(headers)

SignatureMatches(r, query, headers) ==
    /\ r.signedFor = SignedMethod(r)
    /\ r.auth = "header" => r.headers["Authorization"] # <<>>
    /\ QueryAsSigned(r, query)
    /\ CoveredByCheck(r, headers) = r.signed

(* The older kind of URL is only implemented for GET and HEAD, and not for *)
(* parameters that its signature would have to cover.                      *)
OldUrlUnsupported(r) ==
    SignedMethod(r) \notin {"GET", "HEAD"} \/ "versionId" \in r.query

(* handleAuthNNormal                                                       *)
NormalError(r, t) ==
    IF \/ CredentialIn(r, r.headers).shape = "bad"
       \/ ~ TokenForAccessKey(r, t, 0)
       \/ ~ r.headersOk THEN "Malformed"
    ELSE IF ~ SignatureMatches(r, r.query, r.headers) THEN "InvalidSignature"
    ELSE "none"

(* What a URL tells of its access key, its time and its signed headers is  *)
(* looked at first, of a "v4" URL in its own Credential.                   *)
UrlReadable(r) ==
    /\ r.wellFormed
    /\ r.auth = "v4" => HasCredential(r.query) /\ r.credential.shape # "bad" /\ r.headersOk
    /\ r.auth = "v1" => ~ OldUrlUnsupported(r)

(* handleAuthNPresigned up to the region: GetPresignedUrlDetails, then the *)
(* token.                                                                  *)
PresignedError(r, t) ==
    IF ~ UrlReadable(r) THEN "Internal"
    ELSE IF ~ TokenForAccessKey(r, t, Grace) THEN "Malformed"
    ELSE "none"

(* GetCredentialPart panics: for a signature in a header at once; for a    *)
(* "v4" URL at once for its own Credential and, when it is to be signed for*)
(* comparison, for one in a header; for an older URL, which needs none,    *)
(* where its region is asked for.                                          *)
Panics(r, t) ==
    LET short == CredentialIn(r, r.headers).shape = "short" IN
    CASE r.auth = "header" -> short
      [] r.auth = "v4" -> \/ HasCredential(r.query) /\ r.credential.shape = "short"
                          \/ short /\ UrlReadable(r)
      [] OTHER -> short /\ PresignedError(r, t) = "none"

(* Not the code: presigned URLs get a grace time, as tokens do.            *)
UrlErrorLeniently(r, query, headers, t) ==
    IF r.urlExp + Grace < t THEN "InvalidSignature"
    ELSE IF ~ SignatureMatches(r, query, headers) THEN "AccessDenied"
    ELSE "none"

(* ... and after it.                                                       *)
UrlError(r, query, headers, t) ==
    IF r.urlExp < t THEN "InvalidSignature"
    ELSE IF ~ SignatureMatches(r, query, headers) THEN "AccessDenied"
    ELSE "none"

(* addRegionToSession                                                      *)
TargetRegion(r) == RegionIn(CredentialIn(r, r.headers), DefaultBackend)

----------------------------------------------------------------------------
(* Forwarding                                                              *)

(* Not the code: invalidRegionToDefaultRegion is looked at first.          *)
BackendDefaultFirst(region) ==
    IF region = "" \/ RegionToDefault THEN DefaultBackend
    ELSE IF region \in Backends THEN region
    ELSE NoBackend

(* getBackendConfig                                                        *)
Backend(region) ==
    IF region \in Backends THEN region
    ELSE IF region = "" \/ RegionToDefault THEN DefaultBackend
    ELSE NoBackend

(* IsStreaming: the payload hash justProxy looks at                        *)
IsStreaming(headers) == First(headers["X-Amz-Content-Sha256"]) = <<"streaming">>

(* ForceRequesterPays                                                      *)
WithPayer(r, headers) ==
    IF r.payer THEN Set(headers, "X-Amz-Request-Payer", "proxy") ELSE headers

(* reTargetRequest                                                         *)
Retarget(headers) ==
    Set(Del(Del(headers, "Authorization"), "X-Amz-Security-Token"), "Host", "proxy")

(* Not the code: the parameters of the older kind of URL are left.         *)
SigningRemovesV4Only ==
    {"X-Amz-Algorithm", "X-Amz-Credential", "X-Amz-Date", "X-Amz-Security-Token",
     "X-Amz-SignedHeaders", "X-Amz-Signature"}

(* GetS3SignRequestParams: what the client used is removed from the query. *)
SigningRemoves ==
    {"X-Amz-Algorithm", "X-Amz-Credential", "X-Amz-Date", "X-Amz-Security-Token",
     "x-amz-security-token", "X-Amz-SignedHeaders", "X-Amz-Signature", "Signature",
     "AWSAccessKeyId"}

(* TemporaryRemoveUntrustedHeaders, when the client's signature has gone   *)
(* from the headers: without the signed headers a stage before remembered, *)
(* only the query can tell them; {} if it does not.                        *)
TrustedHeaders(r, remembered) ==
    IF remembered = {} /\ IsPresigned(r) THEN {"Host"} ELSE remembered

(* The session token of the credentials of a backend                       *)
TokenOf(backend) == IF backend \in WithToken THEN <<"proxy">> ELSE <<>>

(* Not the code: nothing is taken out before the request is signed.        *)
PreparedWithUntrusted(headers, trusted, backend) == Prepared(headers, TokenOf(backend))

(* SignWithCreds with these credentials                                    *)
PreparedFor(headers, trusted, backend) ==
    Prepared(Keep(headers, trusted \cup AlwaysSign), TokenOf(backend))

(* What the signature for the backend covers: the length of the body is    *)
(* known even if its header is taken out.                                  *)
CoveredFor(headers, trusted, backend) ==
    [Covered(PreparedFor(headers, trusted, backend))
        EXCEPT !["Content-Length"] = headers["Content-Length"]]

(* Not the code: what was taken out is not put back.                       *)
ForwardedWithoutReAdd(headers, trusted, backend) ==
    Set(PreparedFor(headers, trusted, backend), "Authorization", "proxy")

(* What is sent                                                            *)
ForwardedHeaders(headers, trusted, backend) ==
    ReAdd(Set(PreparedFor(headers, trusted, backend), "Authorization", "proxy"),
          Removed(headers, trusted \cup AlwaysSign))

(* GetS3SignRequestParams, for the backend.  Authorization has been taken  *)
(* out, so that the query decides, if it has a Credential: in a request    *)
(* with both it may be another one than addRegionToSession looked at, of   *)
(* another region, or one that makes it panic.                             *)
SigningCredential(r) == CredentialIn(r, NoHeaders)

SignatureRegion(r, region) == RegionIn(SigningCredential(r), region)
============================================================================

CONSTANTS
    r1 = r1
    all = all
    reads = reads
    broken = broken
    Role = {r1}
    Backends <- MCBackends
    DefaultBackend = "eu"
    Regions <- MCRegions
    Streaming <- MCStreaming
    WithToken <- MCWithToken
    Grace = 1
    NoBackend = NoBackend
    Policy = {all, reads}
    Grants <- MCGrants
    Broken = {}
    None = None
    UpstreamStatus <- MCUpstreamStatus
    Slot = {q1}
    Inputs <- OneOff
    MaxTime = 2
    RegionToDefault = FALSE
    LegacyCredentials = FALSE
SPECIFICATION Spec
INVARIANTS TypeOK IInv ForwardedWasAuthentic ForwardedAsAuthorized LogTellsOutcome
    SentAsSigned OnlyTrustedIsSigned HeadersKept
PROPERTIES RefusedForBackendOnly
CHECK_DEADLOCK FALSE

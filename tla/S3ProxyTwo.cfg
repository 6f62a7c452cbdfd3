CONSTANTS
    r1 = r1
    all = all
    reads = reads
    broken = broken
    Role = {r1}
    Backends <- MCBackends
    DefaultBackend = "eu"
    Regions <- MCRegions
    Streaming <- MCStreaming
    WithToken <- MCWithToken
    Grace = 1
    NoBackend = NoBackend
    Policy = {all, broken}
    Grants <- MCGrants
    Broken = {broken}
    None = None
    UpstreamStatus <- MCUpstreamStatus
    Slot = {q1, q2}
    Inputs <- Mixed
    MaxTime = 1
    RegionToDefault = TRUE
    LegacyCredentials = TRUE
SPECIFICATION FairSpec
INVARIANTS MetricsAgree ForwardedAsAuthorized
PROPERTIES AllowedByCurrentPolicy Answered
CHECK_DEADLOCK FALSE

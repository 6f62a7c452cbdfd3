CONSTANTS
    r1 = r1
    all = all
    reads = reads
    broken = broken
    Role = {r1}
    Backends <- MCBackends
    DefaultBackend = "eu"
    Regions <- MCRegions
    Streaming <- MCStreaming
    WithToken <- MCWithToken
    Grace = 1
    NoBackend = NoBackend
    Policy = {all}
    Grants <- MCGrants
    Broken = {}
    None = None
    UpstreamStatus <- MCUpstreamStatus
    Slot = {q1}
    Inputs <- Mixed
    MaxTime = 1
    RegionToDefault = FALSE
    LegacyCredentials = FALSE
SPECIFICATION Spec
INVARIANTS LoggedStatusIsSent
CHECK_DEADLOCK FALSE

CONSTANTS
    r1 = r1
    good = good
    junk = junk
    noTime = noTime
    Provider <- MCProvider
    Iss <- MCIss
    ProviderKey <- MCProviderKey
    NoTime = noTime
    Role = {r1}
    Policy = {good, junk}
    Unparsable = {junk}
    None = None
    Second = 2
    Wrap = 16
    DefaultSeconds = 3
    MinDuration = 2
    MaxDuration = 6
    MaxTime = 3
    Slot = {q1}
    Inputs <- OneOff
    S3Slot = {p1}
    Uses <- MCUses
    Using <- MCUsing
    Forged <- MCForged
    Backends = {"eu"}
    DefaultBackend = "eu"
    Regions = {"eu", ""}
    Streaming = {}
    WithToken = {}
    RegionToDefault = FALSE
    LegacyCredentials = FALSE
    Grace = 1
    NoBackend = NoBackend
    Grants <- MCGrants
    UpstreamStatus = {200}
SPECIFICATION SessionsFairSpec
INVARIANTS TypeOK IssuedForTrustedToken ReportedCoversToken
PROPERTIES SessionWithinLimits RoleHasPolicy Answered ImplementsAccess
CHECK_DEADLOCK FALSE

CONSTANTS
    r1 = r1
    good = good
    junk = junk
    noTime = noTime
    Provider <- MCProvider
    Iss <- MCIss
    ProviderKey <- MCProviderKey
    NoTime = noTime
    Role = {r1}
    Policy = {good, junk}
    Unparsable = {junk}
    None = None
    Second = 2
    Wrap = 16
    DefaultSeconds = 3
    MinDuration = 2
    MaxDuration = 6
    MaxTime = 1
    Slot = {q1}
    Inputs <- OneOff
SPECIFICATION FairSpec
INVARIANTS ExpiryIsMandatory
CHECK_DEADLOCK FALSE

CONSTANTS
    v1 = v1
    v2 = v2
    bad = bad
    ARN = {r1}
    Contents <- MCContents
    Unparsable <- MCUnparsable
    None = None
    Callers = {p1, p2}
    Boot = Boot
    Watcher = Watcher
    MaxChanges = 4
SPECIFICATION Spec
INVARIANTS UpdateIsSeen
CHECK_DEADLOCK FALSE

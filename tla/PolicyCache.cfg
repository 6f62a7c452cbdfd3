CONSTANTS
    v1 = v1
    v2 = v2
    bad = bad
    ARN = {r1}
    Contents <- MCContents
    Unparsable <- MCUnparsable
    None = None
    Callers = {p1, p2}
    Boot = Boot
    Watcher = Watcher
    MaxChanges = 3
SPECIFICATION FairSpec
INVARIANTS TypeOK StaleOnlyIfPendingOrRaced IInv
PROPERTIES AnswerIsCurrent ImplementsRegister ChangesAreDealtWith
CHECK_DEADLOCK FALSE

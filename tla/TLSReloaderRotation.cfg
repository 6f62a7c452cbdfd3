CONSTANTS
    MaxVersion = 2
    Changes = {"remove"}
SPECIFICATION Spec
INVARIANTS UpToDate
CHECK_DEADLOCK FALSE

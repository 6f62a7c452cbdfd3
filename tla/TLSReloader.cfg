CONSTANTS
    MaxVersion = 3
    Changes = {"write", "replace", "remove"}
SPECIFICATION FairSpec
INVARIANTS TypeOK IInv
PROPERTIES NeverOlder WrittenPairIsServed
CHECK_DEADLOCK FALSE

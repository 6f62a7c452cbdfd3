CONSTANTS
    Attempts = 2
    MaxConns = 1
SPECIFICATION FairSpec
INVARIANTS TypeOK IInv NoListenerLeft
PROPERTIES HealthyMeansServed StartEnds StopsTogether
CHECK_DEADLOCK FALSE

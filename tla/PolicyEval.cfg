CONSTANTS
    Policies <- MCPolicies
    Requests <- MCRequests
SPECIFICATION Spec
INVARIANTS TypeOK SoFar VerdictIsMeaning ApplyingDenyHolds
CHECK_DEADLOCK FALSE

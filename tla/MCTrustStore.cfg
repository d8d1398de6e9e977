CONSTANTS
    Endpoints <- MCEndpoints
    Keys = {k1, k2}
    NoKey = NoKey
SPECIFICATION Spec
INVARIANTS SavedReadsBack
CHECK_DEADLOCK FALSE

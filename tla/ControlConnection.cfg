CONSTANTS
    Callers = {p1, p2, p3}
SPECIFICATION ControlFairSpec
INVARIANTS OneConnector OneRebuild
PROPERTIES ClosedForGood CallsEnd
CHECK_DEADLOCK FALSE

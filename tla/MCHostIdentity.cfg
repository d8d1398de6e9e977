CONSTANTS
    s1 = s1
    e1 = e1
    a1 = a1
    a2 = a2
    k1 = k1
    k2 = k2
    NoKey = NoKey
    Sessions = {s1}
    Endpoints = {e1}
    EndpointOf <- MCEndpointOf
    Attempts = {a1, a2}
    SessionOf <- MCSessionOf
    Keys = {k1, k2}
SPECIFICATION FairSpec
INVARIANTS OnlyVouchedKeys NobodyLeftBehind
PROPERTIES ClosedLetsGo DecisionReaches
CHECK_DEADLOCK FALSE

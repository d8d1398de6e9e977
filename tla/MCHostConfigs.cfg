CONSTANTS
    Hosts = {h1, h2}
    Endpoints = {e1, e2}
SPECIFICATION Spec
INVARIANTS OrphansAccounted DanglingAccounted TrustAccounted
SYMMETRY MCSymmetry
CHECK_DEADLOCK FALSE

CONSTANTS
    t1 = t1
    t2 = t2
    Transfers = {t1, t2}
    Size = 1
SPECIFICATION Spec
INVARIANTS OnlyDonePublishes LeftoverTold
PROPERTIES PublishSpec
SYMMETRY MCSymmetry
CHECK_DEADLOCK FALSE

CONSTANTS
    s1 = s1
    Sessions = {s1}
    Tasks = {t1, t2}
    SessionOf <- MCSessionOf
SPECIFICATION FairSpec
INVARIANTS NobodyOutOfReach WindowAgrees
PROPERTIES ClosedCollectsNothing MonitorsEnd
CHECK_DEADLOCK FALSE

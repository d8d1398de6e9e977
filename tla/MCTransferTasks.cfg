CONSTANTS
    t1 = t1
    t2 = t2
    Tasks = {t1, t2}
    Mixes = {{t1}, {}}
    Targets = {a}
    Others = {other}
    MaxConns = 1
    Permits = 1
    MaxTerminal = 1
SPECIFICATION FairSpec
INVARIANTS EventsTellTheEnd PoolKeptWhole OneTerminalEvent UploadTargetsDistinct
PROPERTIES TasksEnd CancelNeedsNobody
CHECK_DEADLOCK FALSE

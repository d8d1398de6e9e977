CONSTANTS
    Tasks <- MCTasks
    MaxConns = 2
SPECIFICATION FairSpec
INVARIANTS Capacity Ownership NoLostWakeup ExtrasHaveReaper
PROPERTIES KeepsFairPromise
CHECK_DEADLOCK FALSE

\* Both caches may be stale.
SPECIFICATION FairSpec
CONSTANTS
    IterationsPerLoop = 1
    MaxLoops = 2
    Strategies = {{"start", "finish", "loop"}}
    HasMetrics = FALSE
    MaxPending = 2
    FreshStatus = FALSE
    FreshJobs = FALSE
    Faults = {"weights", "create", "status"}
INVARIANTS StatusHasItsJobs LoopHandlersOnTime NeverStalls
PROPERTIES StatusNeverRegresses EventuallyCompletes
CHECK_DEADLOCK FALSE

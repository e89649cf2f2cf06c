\* The job cache may be stale.
SPECIFICATION Spec
CONSTANTS
    IterationsPerLoop = 1
    MaxLoops = 1
    Strategies = {{"start", "finish", "loop"}}
    HasMetrics = FALSE
    MaxPending = 2
    FreshStatus = TRUE
    FreshJobs = FALSE
    Faults = {}
INVARIANTS OneHandlerAtATime
CHECK_DEADLOCK FALSE

\* Stale status, the controller sees the jobs it has created.
SPECIFICATION Spec
CONSTANTS
    IterationsPerLoop = 2
    MaxLoops = 2
    Strategies = {{}, {"finish"}, {"start", "loop"}, {"start", "finish", "loop"}}
    HasMetrics = TRUE
    MaxPending = 2
    FreshStatus = FALSE
    FreshJobs = TRUE
    Faults = {"tasks", "metrics", "versions", "analytics", "weights", "create", "status"}
INVARIANTS TypeOK StartHandlerFirst FailureStopsHandlers OutcomeIsTrue
PROPERTIES NoIterationWhenFinishing KeepsContract
CHECK_DEADLOCK FALSE

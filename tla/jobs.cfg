\* Experiments that come and go under one name, and their jobs.
SPECIFICATION FairSpec
CONSTANTS
    Job = {1, 2}
    NumAttempt = 2
    BackoffLimit = 1
    MaxExperiments = 2
    MaxPending = 1
    Actions <- MCActions
INVARIANTS TypeOK HandlerRanOnIt FailureEndsAction ResultsAreItsOwn AggregatesAll
PROPERTIES SweepSparesTheLiving StatusKept JobsEnd SweepsClean
CHECK_DEADLOCK FALSE

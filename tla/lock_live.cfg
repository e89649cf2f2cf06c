\* Two experiments, reads up to date, no resync.
SPECIFICATION FairSpec
CONSTANTS
    e1 = e1
    e2 = e2
    e3 = e3
    t1 = t1
    NoKey = NoKey
    Experiment = {e1, e2}
    Target = {t1}
    TargetOf <- OneTarget
    MaxTime = 2
    MaxPending = 2
    FreshReads = TRUE
    CoarseClock = TRUE
PROPERTIES EveryWaiterServed
CHECK_DEADLOCK FALSE

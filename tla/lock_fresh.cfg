\* Every read is up to date; InitTimes may tie.
SPECIFICATION Spec
CONSTANTS
    e1 = e1
    e2 = e2
    e3 = e3
    t1 = t1
    NoKey = NoKey
    Experiment = {e1, e2, e3}
    Target = {t1}
    TargetOf <- OneTarget
    MaxTime = 2
    MaxPending = 2
    FreshReads = TRUE
    CoarseClock = TRUE
SYMMETRY Names
INVARIANTS TypeOK MutualExclusion NoStrandedWaiter
PROPERTIES AcquiresInOrder TakesTurns
CHECK_DEADLOCK FALSE

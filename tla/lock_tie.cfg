\* Stale reads and InitTimes in the same second.
SPECIFICATION Spec
CONSTANTS
    e1 = e1
    e2 = e2
    e3 = e3
    t1 = t1
    NoKey = NoKey
    Experiment = {e1, e2}
    Target = {t1}
    TargetOf <- OneTarget
    MaxTime = 1
    MaxPending = 3
    FreshReads = FALSE
    CoarseClock = TRUE
SYMMETRY Names
INVARIANTS MutualExclusion
CHECK_DEADLOCK FALSE

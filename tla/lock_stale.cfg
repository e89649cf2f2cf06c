\* The cache may trail the store by three events; InitTimes are distinct.
SPECIFICATION Spec
CONSTANTS
    e1 = e1
    e2 = e2
    e3 = e3
    t1 = t1
    NoKey = NoKey
    Experiment = {e1, e2}
    Target = {t1}
    TargetOf <- OneTarget
    MaxTime = 3
    MaxPending = 3
    FreshReads = FALSE
    CoarseClock = FALSE
SYMMETRY Names
PROPERTIES StatusNeverRegresses TakesTurns
CHECK_DEADLOCK FALSE

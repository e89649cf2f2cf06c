\* Two objects, up to two references, two retries.
SPECIFICATION Spec
CONSTANTS
    Object = {"deployment", "service"}
    MaxRefs = 2
    NumRetries = 2
INVARIANTS ObjIndexCountsGood
CHECK_DEADLOCK FALSE

\* An experiment that finds a winner and is rolled back later.
SPECIFICATION Spec
CONSTANTS
    ExperimentNamespace = "ns"
    VersionName = {"v1", "v2", "v3"}
    WeightObject = {"one", "two", "vs"}
    Namespace = {"ns", "shared"}
    MetricName = {"requests", "count", "latency", "samples"}
    Specs <- MCSpecs
    WithLoopHandler = {}
    WithFinishHandler <- MCWithFinishHandler
    WithStaleCache = {}
    Catalog <- MCCatalog
    Weight = {0, 100}
    MaxPending = 1
INVARIANTS RollbackRecommendsBaseline
CHECK_DEADLOCK FALSE

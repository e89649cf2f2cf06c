\* Every kind of experiment.
SPECIFICATION FairSpec
CONSTANTS
    ExperimentNamespace = "ns"
    VersionName = {"v1", "v2", "v3"}
    WeightObject = {"one", "two", "vs"}
    Namespace = {"ns", "shared"}
    MetricName = {"requests", "count", "latency", "samples"}
    Specs <- MCSpecs
    WithLoopHandler <- MCWithLoopHandler
    WithFinishHandler <- MCWithFinishHandler
    WithStaleCache <- MCWithStaleCache
    Catalog <- MCCatalog
    Weight = {0, 100}
    MaxPending = 1
INVARIANTS TypeOK MetricsComplete DistributionIsKnown RecommendationFollowsWinner NoFailingIteration NoNilPattern PromotedIsWinner BestIsMarked LogsInOrder
PROPERTIES RequestsEnd WeightsConverge
CHECK_DEADLOCK FALSE

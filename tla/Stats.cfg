\* Recorders, exact and bucketed, with a concurrent reader.
SPECIFICATION SpecStats
CONSTANTS
    kBuckets = 4
    Samples = {0, 2, 3, 9}
    Percentiles <- FewPercentiles
    MaxSamples = 3
    kWindowSec = 1
    kRing = 3
    WindowNs = 2
    MaxNow = 9
INVARIANTS
    PercentileIsUpperBound
    ConcurrentReadIsSound
    RateIsExact
CHECK_DEADLOCK FALSE

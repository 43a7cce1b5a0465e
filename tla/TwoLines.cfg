\* Two lines that frame the stream alike, up to two losses on each, any skew, a
\* monotone clock; the sequencer against debounce window and retry interval.
SPECIFICATION SpecLines
CONSTANTS
    kCapacity = 2
    gap_timeout_ns = 1
    retry_interval_ns = 1
    max_retransmit_count = 2
    OnRetxSet = TRUE
    TimeMod = 8
    Packets <- ShortStreamPackets
    HeartbeatSeqs = {1, 2, 3, 5}
    Timestamps = {1, 2, 3}
    ClockMayStepBack = FALSE
    MaxSeq = 6
    MaxPackets = 8
    MaxHeartbeats = 1
    MaxRequests = 3
    MaxBad = 1
    Stream <- ShortStream
    MaxLost = 2
INVARIANTS
    OneEventPerGap
    RateLimited
    NothingIsStranded
    NoStaleSlot
    AttributionExact
    EitherLineSuffices
    DeliveryKeepsALineLit
PROPERTIES
    OverflowMeansFarAhead
    NothingThatCameIsRequested
    EventMeansALineLostIt
CHECK_DEADLOCK FALSE

\* The receive loop with the monotonic fallback for receive timestamps.
SPECIFICATION SpecReceiver
CONSTANTS
    kCapacity = 2
    gap_timeout_ns = 1
    retry_interval_ns = 2
    max_retransmit_count = 2
    OnRetxSet = TRUE
    TimeMod = 16
    Packets <- FewPackets
    HeartbeatSeqs = {1}
    Timestamps = {1, 2, 3, 4}
    ClockMayStepBack = FALSE
    MaxSeq = 5
    MaxPackets = 3
    MaxHeartbeats = 3
    MaxRequests = 9
    tick_interval_ns = 1
    enable_software_timestamps = FALSE
    ClockOffset = 0
    MaxTime = 4
    MaxQueue = 2
    MaxArrivals = 3
    MaxOpens = 2
    MaxErrors = 1
INVARIANTS
    CountersAgree
PROPERTIES
    DebounceHolds
    QueueIsDrained
    StallIsRequested
CHECK_DEADLOCK FALSE

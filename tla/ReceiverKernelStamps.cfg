\* The receive loop with kernel timestamps, the default configuration.
SPECIFICATION SpecReceiver
CONSTANTS
    kCapacity = 2
    gap_timeout_ns = 1
    retry_interval_ns = 2
    max_retransmit_count = 2
    OnRetxSet = TRUE
    TimeMod = 16
    Packets <- FewPackets
    HeartbeatSeqs = {1}
    Timestamps = {1, 2, 3, 4, 5, 6, 7, 8}
    ClockMayStepBack = TRUE
    MaxSeq = 5
    MaxPackets = 3
    MaxHeartbeats = 3
    MaxRequests = 9
    tick_interval_ns = 1
    enable_software_timestamps = TRUE
    ClockOffset = 4
    MaxTime = 4
    MaxQueue = 2
    MaxArrivals = 3
    MaxOpens = 1
    MaxErrors = 1
PROPERTY DebounceHolds
CHECK_DEADLOCK FALSE

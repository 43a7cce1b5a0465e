\* Two holes at once: filling the first clears the tracker.
SPECIFICATION SpecRecovery
CONSTANTS
    kCapacity = 4
    gap_timeout_ns = 2
    retry_interval_ns = 1
    max_retransmit_count = 2
    OnRetxSet = TRUE
    TimeMod = 4
    Packets <- StreamPackets
    HeartbeatSeqs = {1, 2, 4, 5, 6}
    Timestamps = {1, 2, 3}
    ClockMayStepBack = TRUE
    MaxSeq = 6
    MaxPackets = 12
    MaxHeartbeats = 1
    MaxRequests = 20
    Stream <- ShortStream
    MaxLost = 2
    MaxLate = 0
    MaxAnswersLost = 0
    MaxInFlight = 2
PROPERTIES
    LossIsRecovered
CHECK_DEADLOCK FALSE

\* Losses, late datagrams and lost answers; retries without end.
SPECIFICATION SpecRecovery
CONSTANTS
    kCapacity = 4
    gap_timeout_ns = 1
    retry_interval_ns = 1
    max_retransmit_count = 2
    OnRetxSet = TRUE
    TimeMod = 3
    Packets <- StreamPackets
    HeartbeatSeqs = {1, 2, 4, 5, 6}
    Timestamps = {1, 2}
    ClockMayStepBack = TRUE
    MaxSeq = 6
    MaxPackets = 12
    MaxHeartbeats = 1
    MaxRequests = 20
    Stream <- ShortStream
    MaxLost = 2
    MaxLate = 1
    MaxAnswersLost = 1
    MaxInFlight = 2
INVARIANTS
    AsksForWhatWasShown
PROPERTIES
    TrackedGapIsFilled
    OneLossIsRecovered
CHECK_DEADLOCK FALSE

\* The scan of the ring when the retransmission server frames the stream anew.
SPECIFICATION Spec
CONSTANTS
    kCapacity = 4
    gap_timeout_ns = 0
    retry_interval_ns = 0
    max_retransmit_count = 2
    OnRetxSet = TRUE
    TimeMod = 8
    Packets <- ReframedPackets
    HeartbeatSeqs = {1}
    Timestamps = {1, 2}
    ClockMayStepBack = FALSE
    MaxSeq = 9
    MaxPackets = 5
    MaxHeartbeats = 1
    MaxRequests = 4
INVARIANT NothingIsStranded
CHECK_DEADLOCK FALSE

\* Overlapping, truncated and oversized datagrams in any order, no time.
SPECIFICATION Spec
CONSTANTS
    kCapacity = 2
    gap_timeout_ns = 0
    retry_interval_ns = 0
    max_retransmit_count = 2
    OnRetxSet = TRUE
    TimeMod = 8
    Packets <- MixedPackets
    HeartbeatSeqs = {1}
    Timestamps = {1, 2}
    ClockMayStepBack = FALSE
    MaxSeq = 9
    MaxPackets = 5
    MaxHeartbeats = 1
    MaxRequests = 4
INVARIANTS
    TypeOK
    IInv
    InOrderExactlyOnce
    ArrivalTimePreserved
    NothingDeliverableWaits
    TrackerAtHead
PROPERTIES
    RequestsOnlyMissing
    ImplementsInOrderFeed
CHECK_DEADLOCK FALSE

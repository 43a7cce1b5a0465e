\* Files of gen_pcap and others, written, captured and replayed.
SPECIFICATION SpecPcap
CONSTANTS
    kCapacity = 4
    gap_timeout_ns = 1
    retry_interval_ns = 2
    max_retransmit_count = 2
    OnRetxSet = TRUE
    TimeMod = 64
    Packets <- FilePackets
    HeartbeatSeqs = {0}
    Timestamps <- AllStamps
    ClockMayStepBack = TRUE
    MaxSeq = 15
    MaxPackets = 9
    MaxHeartbeats = 9
    MaxRequests = 9
    U16 = 256
    Options <- FewOptions
    HeartbeatMayOpen = FALSE
    BodyLens = {10, 192, 205, 206}
    Noise <- FewNoise
    MaxExtra = 1
    Configs <- FewConfigs
    Orders = {"host", "swapped", "unknown", "short", "missing"}
    kFrameBuf = 300
    kMaxPacketBytes = 60
    NsPerUs = 2
    MaxStart = 2
    MaxTime = 20
INVARIANTS
    RoundTrip
    ReplayCountersAgree
    GapAsAsked
PROPERTIES
    ReplayEnds
CHECK_DEADLOCK FALSE

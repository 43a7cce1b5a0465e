\* A file that may open with write_heartbeat's heartbeat, number 0.
SPECIFICATION SpecPcap
CONSTANTS
    kCapacity = 4
    gap_timeout_ns = 1
    retry_interval_ns = 2
    max_retransmit_count = 2
    OnRetxSet = TRUE
    TimeMod = 64
    Packets <- FilePackets
    HeartbeatSeqs = {0}
    Timestamps <- AllStamps
    ClockMayStepBack = TRUE
    MaxSeq = 15
    MaxPackets = 9
    MaxHeartbeats = 9
    MaxRequests = 9
    U16 = 256
    Options <- FewOptions
    HeartbeatMayOpen = TRUE
    BodyLens = {}
    Noise = {}
    MaxExtra = 1
    Configs <- FewConfigs
    Orders = {"host"}
    kFrameBuf = 300
    kMaxPacketBytes = 60
    NsPerUs = 2
    MaxStart = 2
    MaxTime = 20
INVARIANTS
    OneEventPerGap
CHECK_DEADLOCK FALSE

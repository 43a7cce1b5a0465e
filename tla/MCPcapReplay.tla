---------------------------- MODULE MCPcapReplay ----------------------------
(***************************************************************************)
(* Small capture files for TLC.  A uint16_t has 8 bits here, so a frame    *)
(* holds five of gen_pcap's messages, and a slot of the ring one.          *)
(***************************************************************************)
EXTENDS PcapReplay

AllStamps == 1 .. TimeMod - 1

Gen(count, per, gap_at, gap_len, dup_at) ==
    [count |-> count, msgs_per_pkt |-> per, gap_at |-> gap_at, gap_len |-> gap_len,
     dup_at |-> dup_at, rate_us |-> 1, ts_us |-> 2]
\* One message a packet; two, with the gap between packets and inside one;
\* more than fit a frame, more than fit the length field, and so many that the
\* wrapped length leaves no header.
FewOptions == {Gen(4, 1, 2, 2, 1), Gen(4, 2, 3, 2, 5), Gen(4, 2, 2, 2, 0),
               Gen(6, 6, 0, 5, 0), Gen(7, 7, 0, 5, 0), Gen(13, 13, 0, 5, 0)}

Whole(first, count) ==
    [seq_num |-> first, msg_count |-> count, blocks |-> count,
     kept |-> Min({count, kMaxPacketBytes \div BlockSize})]
FilePackets ==
    {Whole(s, n) : s \in 1 .. 9, n \in {1, 2}} \cup {Whole(1, 6), Whole(2, 6)}
    \cup {[Whole(s, 7) EXCEPT !.blocks = 0, !.kept = 0] : s \in {1, 2}}
    \cup {Single(s, len) : s \in 1 .. 14, len \in BodyLens}

Udp(len, vlan, ihl, port, udp_len, d) ==
    [len |-> len, vlan |-> vlan, ipv4 |-> TRUE, udp |-> TRUE, ihl |-> ihl,
     port |-> port, udp_len |-> udp_len, dgram |-> d]
Other(len, vlan, ipv4) == [Udp(len, vlan, 20, 0, 0, Bad) EXCEPT !.ipv4 = ipv4, !.udp = FALSE]
FewNoise ==
    {[ts |-> 3, udp |-> FALSE, frame |-> f] : f \in
        {Other(60, FALSE, FALSE), Other(60, FALSE, TRUE), Other(10, FALSE, TRUE),
         Other(16, TRUE, TRUE), Other(400, FALSE, TRUE),
         Udp(60, FALSE, 60, FeedPort, 30, Bad), Udp(42, FALSE, 20, FeedPort, 4, Bad)}}
    \cup {[ts |-> t, udp |-> TRUE, frame |-> f] : t \in {1, 3}, f \in
        {Udp(104, TRUE, 20, FeedPort, 66, Whole(1, 1)), Udp(104, FALSE, 24, FeedPort, 66, Whole(1, 1)),
         Udp(50, FALSE, 20, FeedPort, 16, Bad), Udp(100, FALSE, 20, 9, 66, Whole(1, 1))}}

Config(realtime, speed, port) ==
    [realtime |-> realtime, speed_mult |-> speed, filter_port |-> port]
FewConfigs == {Config(FALSE, 1, 0), Config(FALSE, 1, FeedPort),
               Config(TRUE, 1, FeedPort), Config(TRUE, 2, FeedPort)}
=============================================================================

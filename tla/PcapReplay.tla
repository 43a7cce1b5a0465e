----------------------------- MODULE PcapReplay -----------------------------
(***************************************************************************)
(* feed::PcapWriter and feed::PcapReader (include/feed/pcap_replay.hpp)    *)
(* with the generator that drives the one (tools/gen_pcap.cpp) and the     *)
(* GapBuffer that the other fills (main --replay): options -> file ->      *)
(* frames -> datagrams -> sequencer.  A capture may also hold frames that  *)
(* others sent (external) and may end early on a full disk.                *)
(*                                                                         *)
(* Data kept: a frame is the header fields extract_udp looks at and the    *)
(* datagram it carries; lengths are in bytes, 16-bit fields wrap at U16.   *)
(***************************************************************************)
EXTENDS GapBuffer, SequencesExt

CONSTANTS
    U16,          \* modulus of uint16_t: 65536
    Options,      \* gen_pcap's command lines
    HeartbeatMayOpen,  \* may a file begin with a heartbeat?
    BodyLens,     \* lengths of single messages written besides
    Noise,        \* frames that another capturing program adds
    MaxExtra,     \* bound on what is in a file besides gen_pcap's packets
    Configs,      \* PcapReader::Config
    Orders,       \* byte orders and magics of the file
    kFrameBuf,    \* sizeof(frame_buf)
    kMaxPacketBytes,   \* sizeof(BufferedPacket::data)
    NsPerUs,      \* 1000
    MaxStart,     \* bound on CLOCK_MONOTONIC when the program starts
    MaxTime       \* and later

kMoldHeaderSize == 20
BlockSize == 38           \* gen_pcap's message: length field and a 36-byte body
FeedPort == 15001
kMaxUdpPayload == U16 - 29     \* 65507
kMaxFramed == U16 - 1 - 42     \* the longest payload whose frame_len does not wrap
ToNs(ts_us) == ts_us * NsPerUs

\* A UDP datagram in a frame that has all its headers: what a captured frame
\* is said to be or not to be.
WellFormed(f) ==
    /\ f.ipv4 /\ f.udp /\ f.udp_len >= 8
    /\ f.len >= 14 + (IF f.vlan THEN 4 ELSE 0) + f.ihl + 8

\* Left out, because the code has no meaning there: bodies of U16 - 22 bytes
\* and more, for which write_mold_packet's total wraps to a few bytes, passes
\* its check ("Returns false if payload would exceed a UDP datagram",
\* pcap_replay.hpp:132) and the copy of the body runs past the buffer; and
\* msgs_per_pkt = 0, with which gen_pcap writes empty packets for ever.
ASSUME PcapAssumption ==
    /\ kMaxPacketBytes \in Nat
    /\ U16 \in Nat /\ U16 > 62 /\ kFrameBuf \in Nat /\ kFrameBuf >= U16 /\ NsPerUs \in Nat \ {0}
    /\ MaxExtra \in Nat /\ MaxStart \in Nat /\ MaxTime \in Nat
    /\ \A o \in Options : /\ o.count \in Nat /\ o.msgs_per_pkt \in Nat \ {0}
                         /\ o.ts_us \in Nat /\ o.rate_us \in Nat
                         /\ o.gap_at \in Nat /\ o.gap_len \in Nat
                         /\ \A k \in 0 .. 2 * o.count : ToNs(o.ts_us + k * o.rate_us) \in Timestamps
    /\ \A c \in Noise : /\ c.ts \in Nat /\ ToNs(c.ts) \in Timestamps
                        /\ c.frame.len \in Nat /\ c.frame.ihl \in Nat /\ c.frame.ihl >= 20
                        /\ c.udp <=> WellFormed(c.frame) /\ c.frame.len <= kFrameBuf
    /\ BodyLens \subseteq 0 .. U16 - 23 /\ HeartbeatMayOpen \in BOOLEAN
    /\ Configs \subseteq [realtime : BOOLEAN, speed_mult : Nat, filter_port : Nat]
    /\ Orders \subseteq {"host", "swapped", "unknown", "short", "missing"}

VARIABLES
    opt,        \* gen_pcap's Options
    gen,        \* its locals: seq, ts_us, msgs_written
    file,       \* byte order of the header and the records
    written,    \* packets_written_
    cfg, pc,    \* PcapReader::Config; "write", "replay", "pace", "done"
    rec,        \* the record in frame_buf
    pace,       \* locals of replay(): first_ts_us, first_real_ns, target_ns
    mono,       \* CLOCK_MONOTONIC
    replay,     \* ReplayStats
    seen,       \* every on_packet call
    truth       \* what the file should yield: every accepted write and every
                \* captured UDP datagram, whether all writes fitted a frame,
                \* and whether all messages are gen_pcap's own (not state of
                \* the program)

writeVars == <<opt, gen, file, written, truth>>
readVars == <<cfg, pc, rec, pace, mono, replay, seen>>
pcapVars == <<vars, writeVars, readVars>>

-----------------------------------------------------------------------------
(* Datagrams and frames.                                                   *)

Bad == [seq_num |-> 0, msg_count |-> 0, blocks |-> 0, kept |-> 1]   \* no header
Heartbeat(h) == [seq_num |-> h, msg_count |-> 0, blocks |-> 0, kept |-> 0]
\* A datagram of count messages, len bytes of which are there: fewer blocks
\* when its length wrapped, no header at all when that left too little, and of
\* its blocks those that a slot of the sequencer's ring has room for.
Datagram(first, count, len) ==
    LET b == Min({count, (len - kMoldHeaderSize) \div BlockSize}) IN
    IF len < kMoldHeaderSize THEN Bad
    ELSE [seq_num |-> first, msg_count |-> count, blocks |-> b,
          kept |-> Min({b, kMaxPacketBytes \div BlockSize})]
\* One message with a body of body_len bytes.
Single(first, body_len) ==
    [seq_num |-> first, msg_count |-> 1, blocks |-> 1,
     kept |-> IF 2 + body_len <= kMaxPacketBytes THEN 1 ELSE 0]

\* bswap32, as an involution that makes a small number a large one.
Swap32(v) == U16 * U16 - 1 - v
InOrder(order, v) == IF order = "swapped" THEN Swap32(v) ELSE v
\* Mutant: fields are used as they are in the file.
maybe_swap32Never(v) == v
maybe_swap32(v) == IF file.order = "swapped" THEN Swap32(v) ELSE v

\* A record: stored fields, the bytes really in the file, and the frame.
Record(order, ts, frame) ==
    [incl |-> InOrder(order, frame.len), ts |-> InOrder(order, ts),
     have |-> frame.len, frame |-> frame]

\* extract_udp's early returns, in order.
Remaining(f) == f.len - 14 - IF f.vlan THEN 4 ELSE 0
extract_udp(f) ==
    /\ f.len >= 14
    /\ f.vlan => f.len - 14 >= 4
    /\ f.ipv4
    /\ Remaining(f) >= 20
    /\ f.udp
    /\ Remaining(f) >= f.ihl + 8
    /\ f.udp_len >= 8

\* The frame write_packet builds; udp_len, ip_len and frame_len are uint16_t.
Frame(payload_len, d) ==
    LET udp_len == (8 + payload_len) % U16
        ip_len  == (20 + udp_len) % U16
    IN  [len |-> (14 + ip_len) % U16, vlan |-> FALSE, ipv4 |-> TRUE, udp |-> TRUE,
         ihl |-> 20, port |-> FeedPort, udp_len |-> udp_len, dgram |-> d]

-----------------------------------------------------------------------------
(* Writing.                                                                *)

InitPcap ==
    /\ Init
    /\ opt \in Options /\ gen = [seq |-> 1, ts_us |-> opt.ts_us, msgs_written |-> 0]
    /\ \E order \in Orders :
         file = [order |-> order, records |-> <<>>, full |-> FALSE, extra |-> 0]
    /\ written = 0 /\ truth = [dgrams |-> <<>>, framed |-> TRUE, own |-> TRUE]
    /\ cfg \in Configs /\ pc = "write" /\ rec = 0
    /\ pace = [first_ts_us |-> 0, first_real_ns |-> 0, target_ns |-> 0]
    /\ mono \in 1 .. MaxStart /\ seen = <<>>
    /\ replay = [packets_read |-> 0, udp_packets |-> 0, non_udp_skipped |-> 0,
                 truncated_skipped |-> 0, messages_ingested |-> 0]

\* Records new reach the file, unless the disk is full, and extra of them are
\* not gen_pcap's; expected are the datagrams among them, framed tells whether
\* their frames have room for them.
AppendRecords(new, expected, framed, extra) ==
    /\ file.extra + extra <= MaxExtra
    /\ file' = [file EXCEPT !.records = IF file.full THEN @ ELSE @ \o new,
                            !.extra = @ + extra]
    /\ truth' = [dgrams |-> truth.dgrams \o expected, framed |-> truth.framed /\ framed,
                 own |-> /\ truth.own
                         /\ \/ extra = 0
                            \/ \A k \in DOMAIN expected : expected[k].dgram \in {Bad, Heartbeat(0)}]
    /\ UNCHANGED <<vars, opt, readVars>>

\* write_packet for each of ws, a sequence of [ts, len, dgram].  The result of
\* fwrite is not looked at.
write_packet(ws, extra) ==
    /\ AppendRecords(
         [k \in DOMAIN ws |-> Record(file.order, ws[k].ts, Frame(ws[k].len, ws[k].dgram))],
         [k \in DOMAIN ws |-> [dgram |-> ws[k].dgram, ts |-> ws[k].ts, port |-> FeedPort]],
         \A k \in DOMAIN ws : ws[k].len <= kMaxFramed, extra)
    /\ written' = written + Len(ws)

\* Mutant: the gap is one message short.
SkipGapShort(seq) ==
    IF opt.gap_at # 0 /\ seq \in opt.gap_at .. opt.gap_at + opt.gap_len - 1
      THEN seq + opt.gap_len - 1 ELSE seq
SkipGap(seq) ==
    IF opt.gap_at # 0 /\ seq \in opt.gap_at .. opt.gap_at + opt.gap_len - 1
      THEN seq + opt.gap_len ELSE seq

\* One turn of gen_pcap's loop: a packet, written twice at dup_at.
Generate ==
    LET seq  == SkipGap(gen.seq)
        n    == Min({opt.msgs_per_pkt, opt.count - gen.msgs_written})
        len  == (kMoldHeaderSize + n * BlockSize) % U16
        w(k) == [ts |-> gen.ts_us + k * opt.rate_us, len |-> len,
                 dgram |-> Datagram(seq, n, len)]
        ws   == IF opt.dup_at # 0 /\ seq = opt.dup_at THEN <<w(0), w(1)>> ELSE <<w(0)>>
    IN
    /\ pc = "write" /\ gen.msgs_written < opt.count
    /\ write_packet(ws, 0)
    /\ gen' = [seq |-> seq + n, msgs_written |-> gen.msgs_written + n,
               ts_us |-> gen.ts_us + Len(ws) * opt.rate_us]

\* A heartbeat carries the number 0, wherever the stream is.
write_heartbeat ==
    /\ pc = "write" /\ (HeartbeatMayOpen \/ truth.dgrams # <<>>)
    /\ write_packet(<<[ts |-> gen.ts_us, len |-> kMoldHeaderSize, dgram |-> Heartbeat(0)]>>, 1)
    /\ UNCHANGED gen

\* One message with a body of body_len bytes, which is the next of the stream;
\* refused (nothing is written) when the datagram would not fit into UDP.
write_mold_packet(body_len) ==
    LET total == (kMoldHeaderSize + 2 + body_len) % U16 IN
    /\ pc = "write" /\ total <= kMaxUdpPayload
    /\ write_packet(<<[ts |-> gen.ts_us, len |-> total,
                       dgram |-> Single(gen.seq, body_len)]>>, 1)
    /\ gen' = [gen EXCEPT !.seq = @ + 1]

\* A frame that another program captures into the file.
Capture(c) ==
    /\ pc = "write"
    /\ AppendRecords(<<Record(file.order, c.ts, c.frame)>>,
                     IF c.udp THEN <<[dgram |-> c.frame.dgram, ts |-> c.ts, port |-> c.frame.port]>>
                     ELSE <<>>, TRUE, 1)
    /\ UNCHANGED <<gen, written>>

\* The disk is full: the last record is cut, what follows is lost.
DiskFull ==
    /\ pc = "write" /\ ~file.full /\ file.records # <<>>
    /\ file' = [file EXCEPT !.full = TRUE, !.records[Len(file.records)].have = @ - 1]
    /\ UNCHANGED <<vars, opt, gen, written, truth, readVars>>

-----------------------------------------------------------------------------
(* Reading: replay().                                                      *)

\* Leaving the program with the file closed; the reader opens it.
Open ==
    /\ pc = "write" /\ gen.msgs_written >= opt.count
    /\ pc' = IF file.order \in {"host", "swapped"} THEN "replay" ELSE "done"
    /\ UNCHANGED <<vars, writeVars, cfg, rec, pace, mono, replay, seen>>

Reading == pc = "replay" /\ UNCHANGED <<vars, writeVars, cfg, mono, seen>>
Following == file.records[rec + 1]
Incl == maybe_swap32(Following.incl)

\* The end of the file, or a record that is not all there.
ReadEnd ==
    /\ Reading
    /\ rec < Len(file.records) => Incl <= kFrameBuf /\ Following.have < Incl
    /\ pc' = "done" /\ UNCHANGED <<rec, pace, replay>>

SkipOversized ==
    /\ Reading /\ rec < Len(file.records) /\ Incl > kFrameBuf
    /\ rec' = rec + 1
    /\ replay' = [replay EXCEPT !.truncated_skipped = @ + 1]
    /\ UNCHANGED <<pc, pace>>

\* Mutant: the operands of the subtraction are swapped.
PacedSwapped(ts) ==
    IF ~cfg.realtime \/ cfg.speed_mult = 0 THEN pace
    ELSE IF pace.first_ts_us = 0
      THEN [first_ts_us |-> ts, first_real_ns |-> mono, target_ns |-> 0]
      ELSE LET delta == ((pace.first_ts_us - ts) * NsPerUs) % TimeMod
           IN  [pace EXCEPT !.target_ns =
                  (pace.first_real_ns + delta \div cfg.speed_mult) % TimeMod]
\* uint64_t arithmetic: an offset before the first record wraps.
Paced(ts) ==
    IF ~cfg.realtime \/ cfg.speed_mult = 0 THEN pace
    ELSE IF pace.first_ts_us = 0
      THEN [first_ts_us |-> ts, first_real_ns |-> mono, target_ns |-> 0]
      ELSE LET delta == ((ts - pace.first_ts_us) * NsPerUs) % TimeMod
           IN  [pace EXCEPT !.target_ns =
                  (pace.first_real_ns + delta \div cfg.speed_mult) % TimeMod]

ReadRecord ==
    /\ Reading /\ rec < Len(file.records) /\ Incl <= kFrameBuf /\ Following.have >= Incl
    /\ rec' = rec + 1 /\ pc' = "pace"
    /\ replay' = [replay EXCEPT !.packets_read = @ + 1]
    /\ pace' = Paced(maybe_swap32(Following.ts))

IngestDatagram(d, t) ==
    \/ d = Bad /\ UNCHANGED vars
    \/ d \in Packets /\ Ingest(d, t)
    \/ \E h \in HeartbeatSeqs : d = Heartbeat(h) /\ IngestHeartbeat(h, t)

\* The record in frame_buf, once its time has come.
Handling == pc = "pace" /\ mono >= pace.target_ns /\ pc' = "replay"
            /\ UNCHANGED <<writeVars, cfg, rec, pace, mono>>
Current == file.records[rec]
Wanted(f) == extract_udp(f) /\ (cfg.filter_port = 0 \/ f.port = cfg.filter_port)

HandleOther ==
    /\ Handling /\ ~Wanted(Current.frame)
    /\ replay' = [replay EXCEPT !.non_udp_skipped = @ + 1]
    /\ UNCHANGED <<vars, seen>>

\* Mutant: what a datagram carries is counted, not what it delivered.
HandleUdpCarried ==
    LET ts == maybe_swap32(Current.ts) IN
    /\ Handling /\ Wanted(Current.frame)
    /\ seen' = Append(seen, [dgram |-> Current.frame.dgram, ts |-> ts, port |-> Current.frame.port])
    /\ IngestDatagram(Current.frame.dgram, ToNs(ts))
    /\ replay' = [replay EXCEPT !.udp_packets = @ + 1,
                    !.messages_ingested = @ + Current.frame.dgram.msg_count]
HandleUdp ==
    LET ts == maybe_swap32(Current.ts) IN
    /\ Handling /\ Wanted(Current.frame)
    /\ seen' = Append(seen, [dgram |-> Current.frame.dgram, ts |-> ts, port |-> Current.frame.port])
    /\ IngestDatagram(Current.frame.dgram, ToNs(ts))
    /\ replay' = [replay EXCEPT !.udp_packets = @ + 1,
                    !.messages_ingested = @ + Cardinality(delivered') - Cardinality(delivered)]

\* Time that passes elsewhere only shortens the wait; here the loop spins.
ClockAdvance ==
    /\ pc = "pace" /\ mono < pace.target_ns /\ mono < MaxTime
    /\ mono' = mono + 1
    /\ UNCHANGED <<vars, writeVars, cfg, pc, rec, pace, replay, seen>>

Replay == ReadEnd \/ SkipOversized \/ ReadRecord \/ HandleOther \/ HandleUdp

NextPcap ==
    \/ Generate \/ write_heartbeat \/ DiskFull \/ Open \/ Replay \/ ClockAdvance
    \/ \E len \in BodyLens : write_mold_packet(len)
    \/ \E c \in Noise : Capture(c)

\* The generator and the reader are loops that never wait for anyone, and the
\* clock they read goes on.
SpecPcap ==
    /\ InitPcap /\ [][NextPcap]_pcapVars
    /\ WF_pcapVars(Generate) /\ WF_pcapVars(Open) /\ WF_pcapVars(Replay)
    /\ WF_pcapVars(ClockAdvance)

-----------------------------------------------------------------------------
(* Properties.                                                             *)

Readable == file.order \in {"host", "swapped"}
ForUs(w) == cfg.filter_port = 0 \/ w.port = cfg.filter_port
\* s is what u has at the positions S, in order.
Subsequence(s, u, S) ==
    /\ Len(s) = Cardinality(S)
    /\ \A i \in S : s[Cardinality({j \in S : j <= i})] = u[i]

\* Writing and reading back are inverse: in either byte order, with whatever
\* other traffic between, the reader hands over what was written and captured
\* for its port, in order and with its time stamp, as far as it has read; of a
\* file that was written completely it hands over everything.  This needs
\* payloads of at most kMaxFramed bytes; write_mold_packet accepts longer ones
\* ("Returns false if payload would exceed a UDP datagram", pcap_replay.hpp:
\* 132), whose frame_len wraps, and they are skipped when read.
RoundTrip ==
    truth.framed =>
      \E m \in 0 .. Len(truth.dgrams) :
        /\ Subsequence(seen, truth.dgrams, {i \in 1 .. m : ForUs(truth.dgrams[i])})
        /\ pc = "done" /\ Readable /\ ~file.full => m = Len(truth.dgrams)

\* ReplayStats accounts for every record read, every call of ingest() and
\* every message that the sequencer let through.
ReplayCountersAgree ==
    /\ replay.packets_read = replay.udp_packets + replay.non_udp_skipped
                               + IF pc = "pace" THEN 1 ELSE 0
    /\ replay.udp_packets = Len(seen)
    /\ Cardinality({k \in DOMAIN seen : seen[k].dgram # Bad}) = stats.packets + stats.heartbeats
    /\ replay.packets_read + replay.truncated_skipped = rec
    /\ replay.messages_ingested = next_expected - synced_at

\* "Introduce a gap starting at sequence S", "Length of the gap in messages"
\* (gen_pcap.cpp:9-10) and "replay it through receiver --replay to exercise
\* section 2 end to end" (docs/loss-handling.md:144): a replayed file makes
\* the sequencer report one gap, which is the one that was asked for, and
\* deliver exactly what comes before it.  This needs packets that do not
\* straddle S and whose length does not wrap, a file that is complete and to
\* which nobody added messages, and a session that no heartbeat opened.
Straddles == (opt.gap_at - 1) % opt.msgs_per_pkt # 0
GapIsAsked ==
    /\ opt.gap_at \in 2 .. opt.count /\ opt.gap_len > 0 /\ ~Straddles
    /\ kMoldHeaderSize + opt.msgs_per_pkt * BlockSize < U16
GapAsAsked ==
    /\ pc = "done" /\ Readable /\ ~file.full /\ truth.framed /\ truth.own
    /\ GapIsAsked /\ cfg.filter_port \in {0, FeedPort} /\ synced_at # 0
    => /\ {<<e.first, e.last>> : e \in gap_events}
            = {<<opt.gap_at, opt.gap_at + opt.gap_len - 1>>}
       /\ next_expected = opt.gap_at /\ stats.gaps = 1

\* "Replay at wall-clock speed or as-fast-as-possible" (pcap_replay.hpp:27): a
\* replay ends.  Paced, it does so if no record is stamped before the first
\* one, or, at speed 1, by no more than the clock had run when the first was
\* read: otherwise the unsigned wait wraps and the loop spins for ever.
TsOf(k) == maybe_swap32(file.records[k].ts)
WaitIsFinite(k) ==
    \/ TsOf(k) >= pace.first_ts_us
    \/ /\ cfg.speed_mult = 1
       /\ (pace.first_ts_us - TsOf(k)) * NsPerUs <= pace.first_real_ns
Endable ==
    \/ ~cfg.realtime
    \/ pace.first_ts_us # 0 /\ \A k \in DOMAIN file.records : WaitIsFinite(k)
ReplayEnds == pc \in {"replay", "pace"} /\ Endable ~> pc = "done"

=============================================================================

-------------------------- MODULE PcapReplayProofs --------------------------
(***************************************************************************)
(* Theorems about replaying a capture file, for every command line of the  *)
(* generator, mixture of other traffic, byte order, length of the file and *)
(* pacing: the replay runs the buffer of GapBuffer; ReplayStats accounts   *)
(* for every record, datagram and message; what was written is read back;  *)
(* and the gap that the generator was asked for is the one reported.       *)
(***************************************************************************)
EXTENDS PcapReplay, GapBufferProofs

-----------------------------------------------------------------------------
(* Records and stamps.                                                     *)

\* A sequence, of whatever.
IsSeq(s) == \E S : s \in Seq(S)

\* Appending to one, and its length.
LEMMA IsSeqFacts ==
    ASSUME NEW s, IsSeq(s), NEW e
    PROVE  /\ Len(s) \in Nat /\ DOMAIN s = 1 .. Len(s)
           /\ IsSeq(Append(s, e)) /\ Len(Append(s, e)) = Len(s) + 1
           /\ Append(s, e)[Len(s) + 1] = e
           /\ \A k \in 1 .. Len(s) : Append(s, e)[k] = s[k]
<1>1. PICK S : s \in Seq(S) BY DEF IsSeq
<1> DEFINE T == S \cup {e}
<1>2. s \in Seq(T) /\ e \in T BY <1>1
<1> HIDE DEF T
<1>3. Append(s, e) \in Seq(T) BY <1>2
<1>4. QED BY <1>2, <1>3 DEF IsSeq

\* Concatenating two.
LEMMA IsSeqConcat ==
    ASSUME NEW s, NEW u, IsSeq(s), IsSeq(u)
    PROVE  /\ IsSeq(s \o u) /\ Len(s \o u) = Len(s) + Len(u)
           /\ \A k \in 1 .. Len(s) + Len(u) :
                (s \o u)[k] = IF k <= Len(s) THEN s[k] ELSE u[k - Len(s)]
<1>1. PICK S : s \in Seq(S) BY DEF IsSeq
<1>2. PICK U : u \in Seq(U) BY DEF IsSeq
<1> DEFINE T == S \cup U
<1>3. s \in Seq(T) /\ u \in Seq(T) BY <1>1, <1>2
<1> HIDE DEF T
<1>4. s \o u \in Seq(T) BY <1>3
<1>5. QED BY <1>3, <1>4 DEF IsSeq

\* Swapping the bytes back undoes swapping them.
LEMMA SwapTwice ==
    ASSUME NEW ts \in Nat PROVE maybe_swap32(InOrder(file.order, ts)) = ts
<1>1. U16 * U16 - 1 \in Int BY PcapAssumption
<1>2. \A m \in Int : m - (m - ts) = ts OBVIOUS
<1>3. Swap32(Swap32(ts)) = ts BY <1>1, <1>2 DEF Swap32
<1>4. QED BY <1>3 DEF maybe_swap32, InOrder

\* A stamp the buffer can be given.
StampOK(ts) == ts \in Nat /\ ToNs(ts) \in Timestamps
\* A record as the writer stores it.
RecordOK(order, r) == "ts" \in DOMAIN r /\ \E ts : StampOK(ts) /\ r.ts = InOrder(order, ts)
RecordsOK(order, rs) == IsSeq(rs) /\ \A k \in 1 .. Len(rs) : RecordOK(order, rs[k])

\* The generator is at one of its stamps; the file holds stamped records; the
\* reader is inside the file.
GenInv ==
    /\ opt \in Options /\ {"seq", "ts_us", "msgs_written"} \subseteq DOMAIN gen
    /\ gen.msgs_written \in 0 .. opt.count
    /\ \E k \in 0 .. 2 * gen.msgs_written : gen.ts_us = opt.ts_us + k * opt.rate_us
RecordsInv ==
    /\ {"order", "records", "full", "extra"} \subseteq DOMAIN file
    /\ RecordsOK(file.order, file.records)
ReadInv ==
    /\ rec \in Nat /\ rec <= Len(file.records)
    /\ pc = "write" => rec = 0
    /\ pc = "pace" => rec # 0
FileInv == GenInv /\ RecordsInv /\ ReadInv

\* Every stamp of the generator, the next one included, is one the buffer takes.
LEMMA GenStamps ==
    ASSUME GenInv
    PROVE  /\ StampOK(gen.ts_us)
           /\ gen.msgs_written < opt.count => StampOK(gen.ts_us + opt.rate_us)
           /\ opt.count \in Nat /\ opt.rate_us \in Nat
<1>1. /\ opt.count \in Nat /\ opt.ts_us \in Nat /\ opt.rate_us \in Nat
      /\ gen.msgs_written \in 0 .. opt.count
      /\ \A k \in 0 .. 2 * opt.count : ToNs(opt.ts_us + k * opt.rate_us) \in Timestamps
  BY PcapAssumption DEF GenInv
<1>2. PICK k \in 0 .. 2 * gen.msgs_written : gen.ts_us = opt.ts_us + k * opt.rate_us
  BY DEF GenInv
<1>3. \A i, r, s \in Nat : s + i * r \in Nat /\ (s + i * r) + r = s + (i + 1) * r OBVIOUS
<1>4. k \in Nat /\ k \in 0 .. 2 * opt.count BY <1>1, <1>2
<1>5. StampOK(gen.ts_us) BY <1>1, <1>2, <1>3, <1>4 DEF StampOK
<1>6. ASSUME gen.msgs_written < opt.count PROVE StampOK(gen.ts_us + opt.rate_us)
  <2>1. k + 1 \in Nat /\ k + 1 \in 0 .. 2 * opt.count BY <1>1, <1>2, <1>6
  <2>2. (opt.ts_us + k * opt.rate_us) + opt.rate_us = opt.ts_us + (k + 1) * opt.rate_us
    BY ONLY <1>1, <1>3, <1>4
  <2>3. gen.ts_us + opt.rate_us = opt.ts_us + (k + 1) * opt.rate_us BY ONLY <1>2, <2>2
  <2>4. opt.ts_us + (k + 1) * opt.rate_us \in Nat BY ONLY <1>1, <1>3, <2>1
  <2>5. QED BY <1>1, <2>1, <2>3, <2>4 DEF StampOK
<1>7. QED BY <1>1, <1>5, <1>6

\* Records that are written carry the stamps they are given.
LEMMA RecordFacts ==
    ASSUME NEW order, NEW ts, StampOK(ts), NEW f
    PROVE  RecordOK(order, Record(order, ts, f))
BY DEF RecordOK, Record

\* More records in the file.
LEMMA AppendKeeps ==
    ASSUME RecordsInv, ReadInv, pc = "write", NEW new, RecordsOK(file.order, new),
           NEW expected, NEW framed, NEW extra, AppendRecords(new, expected, framed, extra)
    PROVE  RecordsInv' /\ ReadInv'
<1> DEFINE rs == IF file.full THEN file.records ELSE file.records \o new
<1>1. file' = [file EXCEPT !.records = rs, !.extra = file.extra + extra]
      /\ pc' = pc /\ rec' = rec
  BY DEF AppendRecords, readVars
<1> HIDE DEF rs
<1>2. {"order", "records", "full", "extra"} \subseteq DOMAIN file'
      /\ file'.order = file.order /\ file'.records = rs
  BY <1>1 DEF RecordsInv
<1>3. RecordsOK(file.order, rs) /\ Len(rs) \in Nat
  <2>1. CASE file.full
    BY <2>1, IsSeqFacts DEF rs, RecordsInv, RecordsOK
  <2>2. CASE ~file.full
    <3> DEFINE s == file.records
    <3>1. IsSeq(s) /\ IsSeq(new) /\ Len(s) \in Nat /\ Len(new) \in Nat
      BY IsSeqFacts DEF RecordsInv, RecordsOK
    <3>2. rs = s \o new BY <2>2 DEF rs
    <3>3. /\ \A k \in 1 .. Len(s) : RecordOK(file.order, s[k])
          /\ \A k \in 1 .. Len(new) : RecordOK(file.order, new[k])
      BY DEF RecordsInv, RecordsOK
    <3> HIDE DEF s
    <3>4. IsSeq(rs) /\ Len(rs) = Len(s) + Len(new)
          /\ \A k \in 1 .. Len(rs) : rs[k] = IF k <= Len(s) THEN s[k] ELSE new[k - Len(s)]
      BY <3>1, <3>2, IsSeqConcat
    <3>5. ASSUME NEW k \in 1 .. Len(rs) PROVE RecordOK(file.order, rs[k])
      <4>1. CASE k <= Len(s) BY <3>1, <3>3, <3>4, <4>1
      <4>2. CASE ~(k <= Len(s))
        <5>1. k - Len(s) \in 1 .. Len(new) BY <3>1, <3>4, <4>2
        <5>2. QED BY <3>3, <3>4, <4>2, <5>1
      <4>3. QED BY <4>1, <4>2
    <3>6. QED BY <3>1, <3>4, <3>5 DEF RecordsOK
  <2>3. QED BY <2>1, <2>2
<1>4. RecordsInv' BY <1>2, <1>3 DEF RecordsInv
<1>5. ReadInv'
  <2>1. rec = 0 BY DEF ReadInv
  <2>2. QED BY <1>1, <1>2, <1>3, <2>1 DEF ReadInv
<1>6. QED BY <1>4, <1>5

\* write_packet keeps the file good if it is given good stamps.
LEMMA WriteKeeps ==
    ASSUME RecordsInv, ReadInv, pc = "write", NEW ws, IsSeq(ws),
           \A k \in 1 .. Len(ws) : StampOK(ws[k].ts), NEW extra, write_packet(ws, extra)
    PROVE  RecordsInv' /\ ReadInv'
<1> DEFINE new == [k \in DOMAIN ws |-> Record(file.order, ws[k].ts, Frame(ws[k].len, ws[k].dgram))]
<1>1. Len(ws) \in Nat /\ DOMAIN ws = 1 .. Len(ws) BY IsSeqFacts
<1>2. new = [k \in 1 .. Len(ws) |-> Record(file.order, ws[k].ts, Frame(ws[k].len, ws[k].dgram))]
  BY <1>1
<1>3. \A k \in 1 .. Len(ws) : RecordOK(file.order, new[k])
  BY <1>2, RecordFacts
<1>4. \E expected, framed : AppendRecords(new, expected, framed, extra)
  BY DEF write_packet
<1>5. new \in [1 .. Len(ws) -> {new[k] : k \in 1 .. Len(ws)}] BY <1>2
<1> HIDE DEF new
<1>6. new \in Seq({new[k] : k \in 1 .. Len(ws)}) /\ Len(new) = Len(ws) BY <1>1, <1>5
<1>7. RecordsOK(file.order, new) BY <1>3, <1>6 DEF RecordsOK, IsSeq
<1>8. QED BY <1>4, <1>7, AppendKeeps

\* The smaller of two numbers.
LEMMA MinOfTwo ==
    ASSUME NEW a \in Nat, NEW b \in Nat
    PROVE  Min({a, b}) = IF a <= b THEN a ELSE b
BY DEF Min

\* A turn of gen_pcap's loop.
LEMMA GenerateKeeps == ASSUME FileInv, Generate PROVE FileInv'
<1> DEFINE seq  == SkipGap(gen.seq)
           n    == Min({opt.msgs_per_pkt, opt.count - gen.msgs_written})
           len  == (kMoldHeaderSize + n * BlockSize) % U16
           w(k) == [ts |-> gen.ts_us + k * opt.rate_us, len |-> len,
                    dgram |-> Datagram(seq, n, len)]
           ws   == IF opt.dup_at # 0 /\ seq = opt.dup_at THEN <<w(0), w(1)>> ELSE <<w(0)>>
<1>1. /\ pc = "write" /\ gen.msgs_written < opt.count /\ write_packet(ws, 0)
      /\ gen' = [seq |-> seq + n, msgs_written |-> gen.msgs_written + n,
                 ts_us |-> gen.ts_us + Len(ws) * opt.rate_us]
      /\ opt' = opt
  BY DEF Generate, write_packet, AppendRecords
<1>2. /\ StampOK(gen.ts_us) /\ StampOK(gen.ts_us + opt.rate_us)
      /\ opt.count \in Nat /\ opt.rate_us \in Nat
      /\ gen.ts_us \in Nat
  BY <1>1, GenStamps DEF FileInv, StampOK
<1>3. opt.msgs_per_pkt \in Nat \ {0} /\ gen.msgs_written \in 0 .. opt.count /\ opt.ts_us \in Nat
  BY PcapAssumption DEF FileInv, GenInv
<1>4. n \in Nat /\ 1 <= n /\ gen.msgs_written + n <= opt.count
  <2>1. opt.count - gen.msgs_written \in Nat /\ opt.count - gen.msgs_written >= 1
    BY <1>1, <1>2, <1>3
  <2>2. QED BY <1>2, <1>3, <2>1, MinOfTwo
<1>5. w(0).ts = gen.ts_us /\ w(1).ts = gen.ts_us + opt.rate_us BY <1>2
<1> HIDE DEF seq, n, len, w
<1>6. /\ IsSeq(ws) /\ Len(ws) \in {1, 2}
      /\ \A k \in 1 .. Len(ws) : ws[k] = w(0) \/ ws[k] = w(1)
  <2>1. \A a, b : <<a, b>> \in Seq({a, b}) /\ <<a>> \in Seq({a, b}) OBVIOUS
  <2>2. ws = <<w(0), w(1)>> \/ ws = <<w(0)>> OBVIOUS
  <2>3. IsSeq(ws) BY <2>1, <2>2 DEF IsSeq
  <2>4. QED BY <2>2, <2>3
<1>7. \A k \in 1 .. Len(ws) : StampOK(ws[k].ts) BY <1>2, <1>5, <1>6
<1> HIDE DEF ws
<1>8. RecordsInv' /\ ReadInv' BY <1>1, <1>6, <1>7, WriteKeeps DEF FileInv
<1>9. PICK k \in 0 .. 2 * gen.msgs_written : gen.ts_us = opt.ts_us + k * opt.rate_us
  BY DEF FileInv, GenInv
<1>10. k + Len(ws) \in 0 .. 2 * (gen.msgs_written + n)
  <2>1. gen.msgs_written \in Nat /\ Len(ws) \in 1 .. 2 /\ n \in Nat /\ 1 <= n
    BY <1>2, <1>3, <1>4, <1>6
  <2>2. k \in 0 .. 2 * gen.msgs_written BY <1>9
  <2>3. \A m, x, l, i \in Nat :
          1 <= x /\ l <= 2 /\ i <= 2 * m => i + l \in 0 .. 2 * (m + x)
    OBVIOUS
  <2>4. \A m \in Nat : \A i \in 0 .. 2 * m : i \in Nat /\ i <= 2 * m OBVIOUS
  <2>5. k \in Nat /\ k <= 2 * gen.msgs_written BY ONLY <2>1, <2>2, <2>4
  <2>6. \A l \in 1 .. 2 : l \in Nat /\ l <= 2 OBVIOUS
  <2>7. Len(ws) \in Nat /\ Len(ws) <= 2 BY ONLY <2>1, <2>6
  <2>8. QED BY ONLY <2>1, <2>3, <2>5, <2>7
<1>11. gen.ts_us + Len(ws) * opt.rate_us = opt.ts_us + (k + Len(ws)) * opt.rate_us
  <2>1. \A i, j, r, s \in Nat : (s + i * r) + j * r = s + (i + j) * r OBVIOUS
  <2>2. k \in Nat /\ Len(ws) \in Nat BY <1>3, <1>6, <1>9
  <2>3. (opt.ts_us + k * opt.rate_us) + Len(ws) * opt.rate_us
          = opt.ts_us + (k + Len(ws)) * opt.rate_us
    BY ONLY <1>2, <1>3, <2>1, <2>2
  <2>4. QED BY ONLY <1>9, <2>3
<1>12. GenInv'
  <2>1. /\ {"seq", "ts_us", "msgs_written"} \subseteq DOMAIN gen'
        /\ gen'.msgs_written = gen.msgs_written + n
        /\ gen'.ts_us = opt.ts_us + (k + Len(ws)) * opt.rate_us
    BY <1>1, <1>11
  <2>2. gen.msgs_written + n \in 0 .. opt.count BY <1>2, <1>3, <1>4
  <2>3. opt \in Options BY DEF FileInv, GenInv
  <2>4. QED BY <1>1, <1>10, <2>1, <2>2, <2>3 DEF GenInv
<1>13. QED BY <1>8, <1>12 DEF FileInv

\* A sequence of one write.
LEMMA OneWrite ==
    ASSUME NEW w, StampOK(w.ts)
    PROVE  IsSeq(<<w>>) /\ \A k \in 1 .. Len(<<w>>) : StampOK(<<w>>[k].ts)
<1>1. <<w>> \in Seq({w}) /\ Len(<<w>>) = 1 /\ <<w>>[1] = w OBVIOUS
<1>2. IsSeq(<<w>>) BY <1>1 DEF IsSeq
<1>3. \A k \in 1 .. 1 : k = 1 OBVIOUS
<1>4. ASSUME NEW k \in 1 .. Len(<<w>>) PROVE StampOK(<<w>>[k].ts)
  <2>1. k = 1 BY <1>1, <1>3
  <2>2. QED BY <1>1, <2>1
<1>5. QED BY <1>2, <1>4

\* What is written besides keeps the file good.
LEMMA OthersWriteKeep ==
    ASSUME FileInv, \/ write_heartbeat
                    \/ \E len \in BodyLens : write_mold_packet(len)
                    \/ \E c \in Noise : Capture(c)
    PROVE  FileInv'
<1>0. StampOK(gen.ts_us) /\ GenInv BY GenStamps DEF FileInv
<1>1. CASE write_heartbeat
  <2> DEFINE w == [ts |-> gen.ts_us, len |-> kMoldHeaderSize, dgram |-> Heartbeat(0)]
  <2>1. /\ pc = "write" /\ write_packet(<<w>>, 1) /\ gen' = gen /\ opt' = opt
    BY <1>1 DEF write_heartbeat, write_packet, AppendRecords
  <2>2. StampOK(w.ts) BY <1>0
  <2> HIDE DEF w
  <2>3. RecordsInv' /\ ReadInv' BY <2>1, <2>2, OneWrite, WriteKeeps DEF FileInv
  <2>4. GenInv' BY <1>0, <2>1 DEF GenInv
  <2>5. QED BY <2>3, <2>4 DEF FileInv
<1>2. ASSUME NEW body_len \in BodyLens, write_mold_packet(body_len) PROVE FileInv'
  <2> DEFINE w == [ts |-> gen.ts_us, len |-> (kMoldHeaderSize + 2 + body_len) % U16,
                   dgram |-> Single(gen.seq, body_len)]
  <2>1. /\ pc = "write" /\ write_packet(<<w>>, 1) /\ opt' = opt
        /\ gen' = [gen EXCEPT !.seq = gen.seq + 1]
    BY <1>2 DEF write_mold_packet, write_packet, AppendRecords
  <2>2. StampOK(w.ts) BY <1>0
  <2> HIDE DEF w
  <2>3. RecordsInv' /\ ReadInv' BY <2>1, <2>2, OneWrite, WriteKeeps DEF FileInv
  <2>4. DOMAIN gen' = DOMAIN gen /\ gen'.ts_us = gen.ts_us /\ gen'.msgs_written = gen.msgs_written
    BY <1>0, <2>1 DEF GenInv
  <2>5. GenInv' BY <1>0, <2>1, <2>4 DEF GenInv
  <2>6. QED BY <2>3, <2>5 DEF FileInv
<1>3. ASSUME NEW c \in Noise, Capture(c) PROVE FileInv'
  <2> DEFINE r == Record(file.order, c.ts, c.frame)
  <2>1. StampOK(c.ts) BY PcapAssumption DEF StampOK
  <2>2. RecordOK(file.order, r) BY <2>1, RecordFacts
  <2> HIDE DEF r
  <2>3. <<r>> \in Seq({r}) /\ Len(<<r>>) = 1 /\ <<r>>[1] = r OBVIOUS
  <2>4. RecordsOK(file.order, <<r>>)
    <3>1. IsSeq(<<r>>) BY <2>3 DEF IsSeq
    <3>2. \A k \in 1 .. 1 : k = 1 OBVIOUS
    <3>3. \A k \in 1 .. Len(<<r>>) : <<r>>[k] = r BY <2>3, <3>2
    <3>4. QED BY <2>2, <3>1, <3>3 DEF RecordsOK
  <2>5. /\ pc = "write" /\ gen' = gen /\ opt' = opt
        /\ \E expected, framed, extra : AppendRecords(<<r>>, expected, framed, extra)
    <3>1. pc = "write" /\ gen' = gen BY <1>3 DEF Capture
    <3>2. \E expected : AppendRecords(<<r>>, expected, TRUE, 1) BY <1>3, Zenon DEF Capture, r
    <3>3. opt' = opt BY <3>2 DEF AppendRecords
    <3>4. QED BY <3>1, <3>2, <3>3, Zenon
  <2>6. RecordsInv' /\ ReadInv' BY <2>4, <2>5, AppendKeeps DEF FileInv
  <2>7. GenInv' BY <1>0, <2>5 DEF GenInv
  <2>8. QED BY <2>6, <2>7 DEF FileInv
<1>4. QED BY <1>1, <1>2, <1>3

\* A full disk cuts the last record, whose stamp stays.
LEMMA DiskFullKeeps == ASSUME FileInv, DiskFull PROVE FileInv'
<1> DEFINE s == file.records
           n == Len(s)
           r == [s[n] EXCEPT !.have = s[n].have - 1]
           u == [s EXCEPT ![n] = r]
<1>1. /\ pc = "write" /\ s # <<>> /\ gen' = gen /\ opt' = opt /\ pc' = pc /\ rec' = rec
      /\ file' = [file EXCEPT !.full = TRUE, !.records = u]
  BY DEF DiskFull, readVars
<1>2. PICK S : s \in Seq(S) BY DEF FileInv, RecordsInv, RecordsOK, IsSeq
<1>3. n \in Nat /\ n # 0 BY <1>1, <1>2
<1>4. \A k \in 1 .. n : RecordOK(file.order, s[k]) BY DEF FileInv, RecordsInv, RecordsOK
<1>5. RecordOK(file.order, r)
  <2>1. RecordOK(file.order, s[n]) BY <1>3, <1>4
  <2> HIDE DEF s, n
  <2>2. "ts" \in DOMAIN r /\ r.ts = s[n].ts BY <2>1 DEF RecordOK
  <2>3. QED BY <2>1, <2>2 DEF RecordOK
<1> HIDE DEF r
<1>6. u \in Seq(S \cup {r}) /\ Len(u) = n /\ \A k \in 1 .. n : u[k] = IF k = n THEN r ELSE s[k]
  <2>1. s \in Seq(S \cup {r}) BY <1>2
  <2>2. QED BY <1>3, <2>1
<1> HIDE DEF s, n, u
<1>7. RecordsOK(file.order, u) BY <1>4, <1>5, <1>6 DEF RecordsOK, IsSeq
<1>8. {"order", "records", "full", "extra"} \subseteq DOMAIN file'
      /\ file'.order = file.order /\ file'.records = u
  BY <1>1 DEF FileInv, RecordsInv
<1>9. RecordsInv' BY <1>7, <1>8 DEF RecordsInv
<1>10. ReadInv'
  <2>1. rec = 0 BY <1>1 DEF FileInv, ReadInv
  <2>2. QED BY <1>1, <1>3, <1>6, <1>8, <2>1 DEF ReadInv
<1>11. GenInv' BY <1>1 DEF FileInv, GenInv
<1>12. QED BY <1>9, <1>10, <1>11 DEF FileInv

\* Reading leaves the file alone and stays inside it.
LEMMA ReadingKeeps ==
    ASSUME FileInv, Open \/ Replay \/ ClockAdvance \/ UNCHANGED pcapVars PROVE FileInv'
<1>1. opt' = opt /\ gen' = gen /\ file' = file
  BY DEF Open, Replay, ReadEnd, SkipOversized, ReadRecord, HandleOther, HandleUdp, Reading,
         Handling, ClockAdvance, writeVars, pcapVars
<1>2. GenInv' /\ RecordsInv' BY <1>1 DEF FileInv, GenInv, RecordsInv
<1>3. Len(file.records) \in Nat BY IsSeqFacts DEF FileInv, RecordsInv, RecordsOK
<1>4. ReadInv BY DEF FileInv
<1>5. ASSUME Open PROVE ReadInv' BY <1>1, <1>4, <1>5 DEF Open, ReadInv
<1>6. ASSUME ReadEnd PROVE ReadInv' BY <1>1, <1>4, <1>6 DEF ReadEnd, Reading, ReadInv
<1>7. ASSUME SkipOversized PROVE ReadInv' BY <1>1, <1>3, <1>4, <1>7 DEF SkipOversized, Reading, ReadInv
<1>8. ASSUME ReadRecord PROVE ReadInv' BY <1>1, <1>3, <1>4, <1>8 DEF ReadRecord, Reading, ReadInv
<1>9. ASSUME HandleOther \/ HandleUdp PROVE ReadInv'
  BY <1>1, <1>4, <1>9 DEF HandleOther, HandleUdp, Handling, ReadInv
<1>10. ASSUME ClockAdvance PROVE ReadInv' BY <1>1, <1>4, <1>10 DEF ClockAdvance, ReadInv
<1>11. ASSUME UNCHANGED pcapVars PROVE ReadInv' BY <1>1, <1>4, <1>11 DEF pcapVars, readVars, ReadInv
<1>12. ReadInv' BY <1>5, <1>6, <1>7, <1>8, <1>9, <1>10, <1>11 DEF Replay
<1>13. QED BY <1>2, <1>12 DEF FileInv

\* Every step keeps the file and the reader good.
LEMMA FileStep == FileInv /\ [NextPcap]_pcapVars => FileInv'
BY GenerateKeeps, OthersWriteKeep, DiskFullKeeps, ReadingKeeps DEF NextPcap

\* So does the start.
LEMMA FileInit == InitPcap => FileInv
<1> SUFFICES ASSUME InitPcap PROVE FileInv OBVIOUS
<1>1. opt \in Options /\ opt.count \in Nat /\ opt.ts_us \in Nat /\ opt.rate_us \in Nat
  BY PcapAssumption DEF InitPcap
<1>2. GenInv
  <2>1. \A r, s \in Nat : s = s + 0 * r OBVIOUS
  <2>2. gen.ts_us = opt.ts_us + 0 * opt.rate_us BY <1>1, <2>1 DEF InitPcap
  <2>3. 0 \in 0 .. 2 * 0 /\ 0 \in 0 .. opt.count BY <1>1
  <2>4. gen.msgs_written = 0 /\ {"seq", "ts_us", "msgs_written"} \subseteq DOMAIN gen
    BY DEF InitPcap
  <2>5. QED BY <1>1, <2>2, <2>3, <2>4 DEF GenInv
<1>3. RecordsInv
  <2>1. <<>> \in Seq({}) /\ Len(<<>>) = 0 OBVIOUS
  <2>2. file.records = <<>> /\ {"order", "records", "full", "extra"} \subseteq DOMAIN file
    BY DEF InitPcap
  <2>3. QED BY <2>1, <2>2 DEF RecordsInv, RecordsOK, IsSeq
<1>4. ReadInv BY DEF InitPcap, ReadInv
<1>5. QED BY <1>2, <1>3, <1>4 DEF FileInv

-----------------------------------------------------------------------------
(* Calls of the buffer.                                                    *)

\* The stamp of a record that is handled is one the buffer can be given.
LEMMA CurrentStamp ==
    ASSUME FileInv, pc = "pace" PROVE ToNs(maybe_swap32(Current.ts)) \in Timestamps
<1>1. Len(file.records) \in Nat BY IsSeqFacts DEF FileInv, RecordsInv, RecordsOK
<1>2. rec \in 1 .. Len(file.records) BY <1>1 DEF FileInv, ReadInv
<1>3. RecordOK(file.order, Current) BY <1>2 DEF FileInv, RecordsInv, RecordsOK, Current
<1>4. PICK ts : StampOK(ts) /\ Current.ts = InOrder(file.order, ts) BY <1>3 DEF RecordOK
<1>5. maybe_swap32(Current.ts) = ts BY <1>4, SwapTwice DEF StampOK
<1>6. QED BY <1>4, <1>5 DEF StampOK

\* A datagram of the file reaches the buffer as a call of its interface.
LEMMA IngestDatagramCalls ==
    ASSUME NEW d, NEW t \in Timestamps, IngestDatagram(d, t) PROVE [Next]_vars
BY DEF IngestDatagram, Next

\* Only HandleUdp calls the buffer.
LEMMA PcapCalls == ASSUME FileInv, [NextPcap]_pcapVars PROVE [Next]_vars
<1>1. CASE HandleUdp
  <2>1. pc = "pace" /\ \E d : IngestDatagram(d, ToNs(maybe_swap32(Current.ts)))
    BY <1>1 DEF HandleUdp, Handling
  <2>2. QED BY <2>1, CurrentStamp, IngestDatagramCalls
<1>2. CASE ~HandleUdp
  BY <1>2 DEF NextPcap, Generate, write_heartbeat, write_mold_packet, write_packet,
              Capture, AppendRecords, DiskFull, Open, Replay, ReadEnd, SkipOversized,
              ReadRecord, HandleOther, Reading, ClockAdvance, pcapVars
<1>3. QED BY <1>1, <1>2

PcapInv == IInv /\ FileInv

\* What a step of writing or replaying may rely on.
LEMMA PcapStep ==
    ASSUME PcapInv, [NextPcap]_pcapVars
    PROVE  PcapInv' /\ [Next]_vars
BY PcapCalls, FileStep, NextIInv DEF PcapInv

\* It holds in every reachable state.
LEMMA PcapInvariance == SpecPcap => []PcapInv
<1>1. InitPcap => PcapInv BY InitIInv, FileInit DEF InitPcap, PcapInv
<1>2. PcapInv /\ [NextPcap]_pcapVars => PcapInv' BY PcapStep
<1>3. QED BY <1>1, <1>2, PTL DEF SpecPcap

\* A replayed capture file, written in either byte order and with whatever
\* else was captured, drives the buffer of GapBuffer: every theorem about
\* Spec holds of a replay.
THEOREM ReplayUsesTheBuffer == SpecPcap => Spec
<1>1. InitPcap => Init BY DEF InitPcap
<1>2. PcapInv /\ [NextPcap]_pcapVars => [Next]_vars BY PcapStep
<1>3. QED BY <1>1, <1>2, PcapInvariance, PTL DEF SpecPcap, Spec

-----------------------------------------------------------------------------
(* ReplayStats.                                                            *)

ReplayType ==
    [packets_read : Nat, udp_packets : Nat, non_udp_skipped : Nat,
     truncated_skipped : Nat, messages_ingested : Nat]

CountInv == replay \in ReplayType /\ IsSeq(seen) /\ ReplayCountersAgree

\* The calls of ingest() among s that had a header to parse.
Parsed(s) == {k \in DOMAIN s : s[k].dgram # Bad}

\* One more call, one more header, unless it is short.
LEMMA ParsedGrows ==
    ASSUME NEW s, IsSeq(s), NEW e
    PROVE  /\ Cardinality(Parsed(s)) \in Nat
           /\ Cardinality(Parsed(Append(s, e)))
                = Cardinality(Parsed(s)) + (IF e.dgram = Bad THEN 0 ELSE 1)
<1> DEFINE n == Len(s)
           u == Append(s, e)
<1>1. /\ n \in Nat /\ DOMAIN s = 1 .. n /\ IsSeq(u) /\ Len(u) = n + 1
      /\ u[n + 1] = e /\ \A k \in 1 .. n : u[k] = s[k]
  BY IsSeqFacts
<1> HIDE DEF u, n
<1>2. DOMAIN u = 1 .. n + 1 BY <1>1, IsSeqFacts
<1>3. IsFiniteSet(1 .. n) BY <1>1, FS_Interval
<1>4. Parsed(s) \subseteq 1 .. n BY <1>1 DEF Parsed
<1>5. IsFiniteSet(Parsed(s)) BY <1>3, <1>4, FS_Subset
<1>6. Cardinality(Parsed(s)) \in Nat BY <1>5, FS_CardinalityType
<1>7. n + 1 \notin Parsed(s) BY <1>1, <1>4
<1>8. \A k : k \in 1 .. n + 1 <=> k \in 1 .. n \/ k = n + 1 BY <1>1
<1>9. n + 1 \notin 1 .. n BY <1>1
<1>10. CASE e.dgram = Bad
  <2>1. Parsed(u) = Parsed(s) BY <1>1, <1>2, <1>8, <1>9, <1>10 DEF Parsed
  <2>2. QED BY <1>6, <1>10, <2>1 DEF u
<1>11. CASE e.dgram # Bad
  <2>1. Parsed(u) = Parsed(s) \cup {n + 1} BY <1>1, <1>2, <1>8, <1>9, <1>11 DEF Parsed
  <2>2. Cardinality(Parsed(u)) = Cardinality(Parsed(s)) + 1
    BY <1>5, <1>7, <2>1, FS_AddElement
  <2>3. QED BY <1>6, <1>11, <2>2 DEF u
<1>12. QED BY <1>10, <1>11

\* The buffer counts a datagram that has a header, as a packet or a heartbeat.
LEMMA EachIsCounted ==
    ASSUME IInv, NEW d, NEW t \in Timestamps, IngestDatagram(d, t)
    PROVE  stats'.packets + stats'.heartbeats
             = stats.packets + stats.heartbeats + (IF d = Bad THEN 0 ELSE 1)
<1>1. stats.packets \in Nat /\ stats.heartbeats \in Nat BY DEF IInv, TypeOK, StatsType
<1>2. CASE d = Bad /\ UNCHANGED vars
  <2>1. stats' = stats BY <1>2 DEF vars
  <2>2. QED BY <1>1, <1>2, <2>1
<1>3. CASE d \in Packets /\ Ingest(d, t)
  <2>1. d.msg_count # 0 BY <1>3, InputAssumption DEF PacketType
  <2>2. d # Bad BY <2>1 DEF Bad
  <2>3. stats'.packets = stats.packets + 1 /\ stats'.heartbeats = stats.heartbeats
    BY <1>3, IngestReceives
  <2>4. QED BY <1>1, <2>2, <2>3
<1>4. ASSUME NEW h \in HeartbeatSeqs, d = Heartbeat(h) /\ IngestHeartbeat(h, t)
      PROVE  stats'.packets + stats'.heartbeats
               = stats.packets + stats.heartbeats + (IF d = Bad THEN 0 ELSE 1)
  <2>1. d.kept = 0 /\ Bad.kept = 1 BY <1>4 DEF Heartbeat, Bad
  <2>2. d # Bad BY <2>1
  <2>3. stats'.packets = stats.packets /\ stats'.heartbeats = stats.heartbeats + 1
    BY <1>4, HeartbeatFacts
  <2>4. QED BY <1>1, <2>2, <2>3
<1>5. QED BY <1>2, <1>3, <1>4 DEF IngestDatagram

\* A datagram handed to the buffer keeps the counters in agreement.
LEMMA HandleCounts ==
    ASSUME PcapInv, PcapInv', Monotone, CountInv, HandleUdp PROVE CountInv'
<1> DEFINE d == Current.frame.dgram
           ts == maybe_swap32(Current.ts)
           e == [dgram |-> d, ts |-> ts, port |-> Current.frame.port]
           b == IF d = Bad THEN 0 ELSE 1
           m == NewlyDelivered
<1>1. /\ pc = "pace" /\ pc' = "replay" /\ rec' = rec /\ seen' = Append(seen, e)
      /\ IngestDatagram(d, ToNs(ts))
  BY DEF HandleUdp, Handling
<1>2. ToNs(ts) \in Timestamps BY <1>1, CurrentStamp DEF PcapInv
<1>3. e.dgram = d /\ b \in Nat OBVIOUS
<1>4. stats'.packets + stats'.heartbeats = stats.packets + stats.heartbeats + b
  BY <1>1, <1>2, EachIsCounted DEF PcapInv
<1>5. /\ m \in Nat /\ next_expected' - synced_at' = next_expected - synced_at + m
  BY DeliveredGrows DEF PcapInv
<1>6. Cardinality(delivered) \in Nat /\ Cardinality(delivered') \in Nat
  <2>1. IsFiniteSet(delivered) BY DeliveredCount DEF PcapInv
  <2>2. IsFiniteSet(delivered') BY DeliveredCountNext DEF PcapInv
  <2>3. QED BY <2>1, <2>2, FS_CardinalityType
<1>7. /\ replay.packets_read \in Nat /\ replay.udp_packets \in Nat
      /\ replay.non_udp_skipped \in Nat /\ replay.truncated_skipped \in Nat
      /\ replay.messages_ingested \in Nat /\ replay \in ReplayType
  BY DEF CountInv, ReplayType
<1>8. replay.messages_ingested + Cardinality(delivered') - Cardinality(delivered)
        = replay.messages_ingested + m
  <2>1. \A x, y, z \in Nat : x + y - z = x + (y - z) OBVIOUS
  <2>2. QED BY <1>6, <1>7, <2>1 DEF NewlyDelivered
<1> HIDE DEF d, ts, b, m
<1>9. /\ replay' \in ReplayType
      /\ replay'.packets_read = replay.packets_read
      /\ replay'.udp_packets = replay.udp_packets + 1
      /\ replay'.non_udp_skipped = replay.non_udp_skipped
      /\ replay'.truncated_skipped = replay.truncated_skipped
      /\ replay'.messages_ingested = replay.messages_ingested + m
  <2> DEFINE x == replay.udp_packets + 1
             y == replay.messages_ingested + m
  <2>1. replay' = [replay EXCEPT !.udp_packets = x, !.messages_ingested = y]
    BY <1>8 DEF HandleUdp
  <2>2. x \in Nat /\ y \in Nat BY <1>5, <1>7
  <2> HIDE DEF x, y
  <2>3. /\ replay' \in ReplayType
        /\ replay'.packets_read = replay.packets_read
        /\ replay'.udp_packets = x
        /\ replay'.non_udp_skipped = replay.non_udp_skipped
        /\ replay'.truncated_skipped = replay.truncated_skipped
        /\ replay'.messages_ingested = y
    BY <1>7, <2>1, <2>2 DEF ReplayType
  <2>4. QED BY <2>3 DEF x, y
<1> HIDE DEF e
<1>10. IsSeq(seen) /\ Len(seen) \in Nat BY IsSeqFacts DEF CountInv
<1>11. IsSeq(seen') /\ Len(seen') = Len(seen) + 1 BY <1>1, <1>10, IsSeqFacts
<1>12. Cardinality(Parsed(seen')) = Cardinality(Parsed(seen)) + b
  BY <1>1, <1>3, <1>10, ParsedGrows DEF b
<1>13. Cardinality(Parsed(seen')) = stats'.packets + stats'.heartbeats
  <2>1. Cardinality(Parsed(seen)) = stats.packets + stats.heartbeats
    BY DEF CountInv, ReplayCountersAgree, Parsed
  <2>2. QED BY <1>4, <1>12, <2>1
<1>14. replay.packets_read = replay.udp_packets + replay.non_udp_skipped + 1
  BY <1>1 DEF CountInv, ReplayCountersAgree
<1>15. replay'.packets_read = replay'.udp_packets + replay'.non_udp_skipped
                                + IF pc' = "pace" THEN 1 ELSE 0
  <2>1. \A x, y \in Nat : x + y + 1 = (x + 1) + y + 0 OBVIOUS
  <2>2. replay.packets_read = (replay.udp_packets + 1) + replay.non_udp_skipped + 0
    BY <1>7, <1>14, <2>1
  <2>3. (IF pc' = "pace" THEN 1 ELSE 0) = 0 BY <1>1
  <2>4. QED BY <1>9, <2>2, <2>3
<1>16. replay'.udp_packets = Len(seen') BY <1>9, <1>11 DEF CountInv, ReplayCountersAgree
<1>17. replay'.packets_read + replay'.truncated_skipped = rec'
  BY <1>1, <1>9 DEF CountInv, ReplayCountersAgree
<1>18. replay'.messages_ingested = next_expected' - synced_at'
  <2>1. replay.messages_ingested = next_expected - synced_at
    BY DEF CountInv, ReplayCountersAgree
  <2>2. QED BY <1>5, <1>9, <2>1
<1>19. QED
  BY <1>9, <1>11, <1>13, <1>15, <1>16, <1>17, <1>18 DEF CountInv, ReplayCountersAgree, Parsed

\* So does every other step; those count records.
LEMMA OthersCount ==
    ASSUME FileInv, CountInv, [NextPcap]_pcapVars, ~HandleUdp PROVE CountInv'
<1>0. /\ replay \in ReplayType /\ replay.packets_read \in Nat /\ replay.udp_packets \in Nat
      /\ replay.non_udp_skipped \in Nat /\ replay.truncated_skipped \in Nat /\ rec \in Nat
      /\ replay.packets_read = replay.udp_packets + replay.non_udp_skipped
                                 + IF pc = "pace" THEN 1 ELSE 0
      /\ replay.packets_read + replay.truncated_skipped = rec
  BY DEF CountInv, ReplayCountersAgree, ReplayType, FileInv, ReadInv
<1>1. UNCHANGED <<vars, seen>>
  BY DEF NextPcap, Generate, write_heartbeat, write_mold_packet, write_packet, Capture,
         AppendRecords, DiskFull, Open, Replay, ReadEnd, SkipOversized, ReadRecord,
         HandleOther, Reading, ClockAdvance, pcapVars, readVars
<1>2. ASSUME /\ replay' \in ReplayType /\ replay'.udp_packets = replay.udp_packets
             /\ replay'.messages_ingested = replay.messages_ingested
             /\ replay'.packets_read = replay'.udp_packets + replay'.non_udp_skipped
                                         + IF pc' = "pace" THEN 1 ELSE 0
             /\ replay'.packets_read + replay'.truncated_skipped = rec'
      PROVE  CountInv'
  <2>1. /\ stats' = stats /\ next_expected' = next_expected /\ synced_at' = synced_at
        /\ seen' = seen
    BY <1>1 DEF vars, history
  <2>2. QED BY <1>2, <2>1 DEF CountInv, ReplayCountersAgree
<1>3. ASSUME UNCHANGED <<replay, rec>>, pc = pc' \/ (pc # "pace" /\ pc' # "pace") PROVE CountInv'
  BY <1>0, <1>2, <1>3
<1>4. CASE \/ Generate \/ write_heartbeat \/ DiskFull \/ ReadEnd \/ Open \/ ClockAdvance
           \/ \E len \in BodyLens : write_mold_packet(len)
           \/ \E c \in Noise : Capture(c)
           \/ UNCHANGED pcapVars
  <2>1. UNCHANGED <<replay, rec>> /\ (pc = pc' \/ (pc # "pace" /\ pc' # "pace"))
    BY <1>4 DEF Generate, write_heartbeat, write_mold_packet, write_packet, Capture,
         AppendRecords, DiskFull, Open, ReadEnd, Reading, ClockAdvance, pcapVars, readVars
  <2>2. QED BY <1>3, <2>1
<1>5. CASE SkipOversized
  <2>1. pc = "replay" /\ pc' = pc /\ rec' = rec + 1
        /\ replay' = [replay EXCEPT !.truncated_skipped = replay.truncated_skipped + 1]
    BY <1>5 DEF SkipOversized, Reading
  <2>2. /\ replay' \in ReplayType /\ replay'.udp_packets = replay.udp_packets
        /\ replay'.messages_ingested = replay.messages_ingested
        /\ replay'.packets_read = replay.packets_read
        /\ replay'.non_udp_skipped = replay.non_udp_skipped
        /\ replay'.truncated_skipped = replay.truncated_skipped + 1
    BY <1>0, <2>1 DEF ReplayType
  <2>3. replay.packets_read + (replay.truncated_skipped + 1) = rec + 1 BY <1>0
  <2>4. QED BY <1>0, <1>2, <2>1, <2>2, <2>3
<1>6. CASE ReadRecord
  <2>1. pc = "replay" /\ pc' = "pace" /\ rec' = rec + 1
        /\ replay' = [replay EXCEPT !.packets_read = replay.packets_read + 1]
    BY <1>6 DEF ReadRecord, Reading
  <2>2. /\ replay' \in ReplayType /\ replay'.udp_packets = replay.udp_packets
        /\ replay'.messages_ingested = replay.messages_ingested
        /\ replay'.packets_read = replay.packets_read + 1
        /\ replay'.non_udp_skipped = replay.non_udp_skipped
        /\ replay'.truncated_skipped = replay.truncated_skipped
    BY <1>0, <2>1 DEF ReplayType
  <2>3. /\ (replay.packets_read + 1) + replay.truncated_skipped = rec + 1
        /\ replay.packets_read + 1 = replay.udp_packets + replay.non_udp_skipped + 1
    BY <1>0, <2>1
  <2>4. QED BY <1>2, <2>1, <2>2, <2>3
<1>7. CASE HandleOther
  <2>1. pc = "pace" /\ pc' = "replay" /\ rec' = rec
        /\ replay' = [replay EXCEPT !.non_udp_skipped = replay.non_udp_skipped + 1]
    BY <1>7 DEF HandleOther, Handling
  <2>2. /\ replay' \in ReplayType /\ replay'.udp_packets = replay.udp_packets
        /\ replay'.messages_ingested = replay.messages_ingested
        /\ replay'.packets_read = replay.packets_read
        /\ replay'.non_udp_skipped = replay.non_udp_skipped + 1
        /\ replay'.truncated_skipped = replay.truncated_skipped
    BY <1>0, <2>1 DEF ReplayType
  <2>3. replay.packets_read = replay.udp_packets + (replay.non_udp_skipped + 1) + 0
    BY <1>0, <2>1
  <2>4. QED BY <1>0, <1>2, <2>1, <2>2, <2>3
<1>8. QED BY <1>4, <1>5, <1>6, <1>7 DEF NextPcap, Replay

\* ReplayStats accounts for every record read, every datagram handed to the
\* buffer and every message the buffer let through, for every file.
THEOREM ReplayCountersCorrect == SpecPcap => []ReplayCountersAgree
<1>1. InitPcap => CountInv
  <2> SUFFICES ASSUME InitPcap PROVE CountInv OBVIOUS
  <2>1. <<>> \in Seq({}) /\ Len(<<>>) = 0 /\ DOMAIN <<>> = {} OBVIOUS
  <2>2. IsSeq(seen) /\ Len(seen) = 0 BY <2>1 DEF InitPcap, IsSeq
  <2>3. {k \in DOMAIN seen : seen[k].dgram # Bad} = {} BY <2>1 DEF InitPcap
  <2>4. Cardinality({k \in DOMAIN seen : seen[k].dgram # Bad}) = 0 BY <2>3, FS_EmptySet
  <2>5. stats.packets + stats.heartbeats = 0 /\ next_expected - synced_at = 0
    BY DEF InitPcap, Init
  <2>6. QED BY <2>2, <2>4, <2>5 DEF InitPcap, CountInv, ReplayType, ReplayCountersAgree
<1>2. PcapInv /\ CountInv /\ [NextPcap]_pcapVars => CountInv'
  BY PcapStep, StepIsMonotone, HandleCounts, OthersCount DEF PcapInv
<1>3. CountInv => ReplayCountersAgree BY DEF CountInv
<1>4. QED BY <1>1, <1>2, <1>3, PcapInvariance, PTL DEF SpecPcap

-----------------------------------------------------------------------------
(* Subsequences.                                                           *)

\* The elements of S up to k.
Upto(S, k) == {j \in S : j <= k}

\* There are finitely many, at least one up to one of them.
LEMMA UptoFacts ==
    ASSUME NEW m \in Nat, NEW S, S \subseteq 1 .. m
    PROVE  /\ IsFiniteSet(S) /\ Cardinality(S) \in Nat
           /\ \A k : IsFiniteSet(Upto(S, k)) /\ Cardinality(Upto(S, k)) \in Nat
           /\ \A k \in S : Cardinality(Upto(S, k)) \in 1 .. Cardinality(S)
           /\ Upto(S, m) = S /\ Upto(S, 0) = {}
<1>1. IsFiniteSet(1 .. m) BY FS_Interval
<1>2. IsFiniteSet(S) BY <1>1, FS_Subset
<1>3. Cardinality(S) \in Nat BY <1>2, FS_CardinalityType
<1>4. \A k : Upto(S, k) \in SUBSET S BY DEF Upto
<1>5. \A k : /\ IsFiniteSet(Upto(S, k)) /\ Cardinality(Upto(S, k)) <= Cardinality(S)
             /\ Cardinality(Upto(S, k)) \in Nat
  BY <1>2, <1>4, FS_Subset, FS_CardinalityType
<1>6. ASSUME NEW k \in S PROVE Cardinality(Upto(S, k)) \in 1 .. Cardinality(S)
  <2>1. k \in Upto(S, k) BY <1>6 DEF Upto
  <2>2. Cardinality(Upto(S, k)) # 0 BY <1>5, <2>1, FS_EmptySet
  <2>3. QED BY <1>3, <1>5, <2>2
<1>7. Upto(S, m) = S /\ Upto(S, 0) = {}
  <2>1. \A j \in S : j <= m /\ ~(j <= 0) OBVIOUS
  <2>2. QED BY <2>1 DEF Upto
<1>8. QED BY <1>2, <1>3, <1>5, <1>6, <1>7

\* One more position.
LEMMA UptoGrows ==
    ASSUME NEW m \in Nat, NEW S, S \subseteq 1 .. m
    PROVE  /\ Cardinality(S \cup {m + 1}) = Cardinality(S) + 1
           /\ Upto(S \cup {m + 1}, m + 1) = S \cup {m + 1}
           /\ \A k \in 1 .. m : Upto(S \cup {m + 1}, k) = Upto(S, k)
<1>1. IsFiniteSet(S) BY UptoFacts
<1>2. m + 1 \notin S OBVIOUS
<1>3. Cardinality(S \cup {m + 1}) = Cardinality(S) + 1 BY <1>1, <1>2, FS_AddElement
<1>4. Upto(S \cup {m + 1}, m + 1) = S \cup {m + 1}
  <2>1. \A j \in S \cup {m + 1} : j <= m + 1 OBVIOUS
  <2>2. QED BY <2>1 DEF Upto
<1>5. \A k \in 1 .. m : Upto(S \cup {m + 1}, k) = Upto(S, k) BY DEF Upto
<1>6. QED BY <1>3, <1>4, <1>5

\* Nothing, at no positions.
LEMMA SubsequenceOfNone == \A u : Subsequence(<<>>, u, {})
BY FS_EmptySet DEF Subsequence

\* A subsequence and the element after it.
LEMMA SubsequenceGrows ==
    ASSUME NEW s, IsSeq(s), NEW u, NEW m \in Nat, NEW S, S \subseteq 1 .. m, Subsequence(s, u, S)
    PROVE  Subsequence(Append(s, u[m + 1]), u, S \cup {m + 1})
<1> DEFINE T == S \cup {m + 1}
           t == Append(s, u[m + 1])
<1>1. /\ Len(s) \in Nat /\ Len(t) = Len(s) + 1 /\ t[Len(s) + 1] = u[m + 1]
      /\ \A k \in 1 .. Len(s) : t[k] = s[k]
  BY IsSeqFacts
<1>2. /\ Len(s) = Cardinality(S)
      /\ \A i \in S : s[Cardinality(Upto(S, i))] = u[i]
  BY DEF Subsequence, Upto
<1>3. Len(t) = Cardinality(T) BY <1>1, <1>2, UptoGrows
<1>4. ASSUME NEW i \in S PROVE t[Cardinality(Upto(T, i))] = u[i]
  <2>1. i \in 1 .. m BY <1>4
  <2>2. Upto(T, i) = Upto(S, i) BY <2>1, UptoGrows
  <2>3. Cardinality(Upto(S, i)) \in 1 .. Len(s) BY <1>2, <1>4, UptoFacts
  <2>4. QED BY <1>1, <1>2, <1>4, <2>2, <2>3
<1>5. t[Cardinality(Upto(T, m + 1))] = u[m + 1]
  <2>1. Cardinality(Upto(T, m + 1)) = Len(s) + 1 BY <1>2, UptoGrows
  <2>2. QED BY <1>1, <2>1
<1> HIDE DEF t
<1>6. \A i \in T : t[Cardinality(Upto(T, i))] = u[i] BY <1>4, <1>5
<1>7. Subsequence(t, u, T) BY <1>3, <1>6 DEF Subsequence, Upto
<1>8. QED BY <1>7 DEF t

-----------------------------------------------------------------------------
(* Records and the datagrams they carry.                                   *)

\* A record that shows a datagram, and what it shows.
Carries(r) == extract_udp(r.frame) /\ r.frame.len <= kFrameBuf
Shown(order, r) == [dgram |-> r.frame.dgram, ts |-> InOrder(order, r.ts), port |-> r.frame.port]
Positions(rs) == {k \in 1 .. Len(rs) : Carries(rs[k])}

\* The records of rs show the first of the datagrams ds, in order.
Linked(order, rs, ds) ==
    /\ Cardinality(Positions(rs)) <= Len(ds)
    /\ \A k \in Positions(rs) :
         ds[Cardinality(Upto(Positions(rs), k))] = Shown(order, rs[k])
Complete(rs, ds) == Cardinality(Positions(rs)) = Len(ds)

\* Positions are positions.
LEMMA PositionsFacts ==
    ASSUME NEW rs, IsSeq(rs)
    PROVE  Len(rs) \in Nat /\ Positions(rs) \subseteq 1 .. Len(rs)
           /\ Cardinality(Positions(rs)) \in Nat
<1>1. Len(rs) \in Nat BY IsSeqFacts
<1>2. Positions(rs) \subseteq 1 .. Len(rs) BY DEF Positions
<1>3. QED BY <1>1, <1>2, UptoFacts

\* One more record.
LEMMA PositionsGrow ==
    ASSUME NEW rs, IsSeq(rs), NEW r
    PROVE  Positions(Append(rs, r)) =
             IF Carries(r) THEN Positions(rs) \cup {Len(rs) + 1} ELSE Positions(rs)
<1> DEFINE n == Len(rs)
           u == Append(rs, r)
<1>1. n \in Nat /\ Len(u) = n + 1 /\ u[n + 1] = r /\ \A k \in 1 .. n : u[k] = rs[k]
  BY IsSeqFacts
<1> HIDE DEF u, n
<1>2. \A k : k \in 1 .. n + 1 <=> k \in 1 .. n \/ k = n + 1 BY <1>1
<1>3. Positions(rs) = {k \in 1 .. n : Carries(rs[k])} BY DEF Positions, n
<1>4. Positions(u) = {k \in 1 .. n + 1 : Carries(u[k])} BY <1>1 DEF Positions
<1>5. CASE Carries(r)
  <2>1. Positions(u) = Positions(rs) \cup {n + 1} BY <1>1, <1>2, <1>3, <1>4, <1>5
  <2>2. QED BY <1>5, <2>1 DEF u, n
<1>6. CASE ~Carries(r)
  <2>1. Positions(u) = Positions(rs) BY <1>1, <1>2, <1>3, <1>4, <1>6
  <2>2. QED BY <1>6, <2>1 DEF u
<1>7. QED BY <1>5, <1>6

\* A record that carries a datagram, and the datagram.
LEMMA LinkGrows ==
    ASSUME NEW order, NEW rs, IsSeq(rs), NEW ds, IsSeq(ds), NEW r, Carries(r),
           Linked(order, rs, ds), Complete(rs, ds)
    PROVE  /\ Linked(order, Append(rs, r), Append(ds, Shown(order, r)))
           /\ Complete(Append(rs, r), Append(ds, Shown(order, r)))
<1> DEFINE P == Positions(rs)
           n == Len(rs)
           us == Append(rs, r)
           es == Append(ds, Shown(order, r))
           Q == P \cup {n + 1}
<1>1. n \in Nat /\ P \subseteq 1 .. n /\ Cardinality(P) \in Nat BY PositionsFacts
<1>2. Positions(us) = Q BY PositionsGrow
<1>3. us[n + 1] = r /\ \A k \in 1 .. n : us[k] = rs[k] BY IsSeqFacts
<1>4. /\ Len(ds) \in Nat /\ Len(es) = Len(ds) + 1 /\ es[Len(ds) + 1] = Shown(order, r)
      /\ \A k \in 1 .. Len(ds) : es[k] = ds[k]
  BY IsSeqFacts
<1>5. Len(ds) = Cardinality(P) /\ \A k \in P : ds[Cardinality(Upto(P, k))] = Shown(order, rs[k])
  BY DEF Linked, Complete
<1> HIDE DEF P, n, us, es
<1>6. Cardinality(Q) = Len(ds) + 1 BY <1>1, <1>5, UptoGrows
<1>7. ASSUME NEW k \in P PROVE es[Cardinality(Upto(Q, k))] = Shown(order, us[k])
  <2>1. k \in 1 .. n BY <1>1, <1>7
  <2>2. Upto(Q, k) = Upto(P, k) BY <1>1, <2>1, UptoGrows
  <2>3. Cardinality(Upto(P, k)) \in 1 .. Len(ds) BY <1>1, <1>5, <1>7, UptoFacts
  <2>4. QED BY <1>3, <1>4, <1>5, <1>7, <2>1, <2>2, <2>3
<1>8. es[Cardinality(Upto(Q, n + 1))] = Shown(order, us[n + 1])
  <2>1. Upto(Q, n + 1) = Q BY <1>1, UptoGrows
  <2>2. QED BY <1>3, <1>4, <1>6, <2>1
<1>9. \A k \in Q : es[Cardinality(Upto(Q, k))] = Shown(order, us[k]) BY <1>7, <1>8
<1> HIDE DEF Q
<1>10. Linked(order, us, es) /\ Complete(us, es) BY <1>2, <1>4, <1>6, <1>9 DEF Linked, Complete
<1>11. QED BY <1>10 DEF us, es

\* A record that carries none.
LEMMA LinkSkips ==
    ASSUME NEW order, NEW rs, IsSeq(rs), NEW ds, NEW r, ~Carries(r),
           Linked(order, rs, ds), Complete(rs, ds)
    PROVE  Linked(order, Append(rs, r), ds) /\ Complete(Append(rs, r), ds)
<1>1. Positions(Append(rs, r)) = Positions(rs) BY PositionsGrow
<1>2. \A k \in Positions(rs) : Append(rs, r)[k] = rs[k] BY IsSeqFacts, PositionsFacts
<1>3. QED BY <1>1, <1>2 DEF Linked, Complete

\* Datagrams that are written to a full disk.
LEMMA LinkKept ==
    ASSUME NEW order, NEW rs, IsSeq(rs), NEW ds, IsSeq(ds), NEW es, IsSeq(es), Linked(order, rs, ds)
    PROVE  Linked(order, rs, ds \o es)
<1> DEFINE us == ds \o es
           P == Positions(rs)
<1>1. Len(ds) \in Nat /\ Len(es) \in Nat BY IsSeqFacts
<1>2. Len(us) = Len(ds) + Len(es)
      /\ \A k \in 1 .. Len(ds) + Len(es) : us[k] = IF k <= Len(ds) THEN ds[k] ELSE es[k - Len(ds)]
  BY IsSeqConcat
<1> HIDE DEF us
<1>3. Cardinality(P) \in Nat /\ Len(rs) \in Nat /\ P \subseteq 1 .. Len(rs) BY PositionsFacts
<1>4. Cardinality(P) <= Len(ds) /\ \A k \in P : ds[Cardinality(Upto(P, k))] = Shown(order, rs[k])
  BY DEF Linked
<1> HIDE DEF P
<1>5. ASSUME NEW k \in P PROVE us[Cardinality(Upto(P, k))] = Shown(order, rs[k])
  <2>1. PICK i \in 1 .. Cardinality(P) : i = Cardinality(Upto(P, k)) BY <1>3, <1>5, UptoFacts
  <2>2. i \in 1 .. Len(ds) + Len(es) /\ i <= Len(ds) BY <1>1, <1>3, <1>4
  <2>3. us[i] = ds[i] BY <1>2, <2>2
  <2>4. QED BY <1>4, <1>5, <2>1, <2>3
<1>6. Cardinality(P) <= Len(us) BY <1>1, <1>2, <1>3, <1>4
<1>7. QED BY <1>5, <1>6 DEF Linked, P, us

-----------------------------------------------------------------------------
(* What is written and captured.                                           *)

\* extract_udp's early returns accept the frames that hold a datagram.
LEMMA ExtractsWellFormed ==
    ASSUME NEW f, f.len \in Nat, f.ihl \in Nat, f.ihl >= 20
    PROVE  extract_udp(f) <=> WellFormed(f)
<1>1. CASE f.vlan BY <1>1 DEF extract_udp, WellFormed, Remaining
<1>2. CASE ~f.vlan BY <1>2 DEF extract_udp, WellFormed, Remaining
<1>3. QED BY <1>1, <1>2

\* A payload that leaves room for the headers is framed as it should be.
LEMMA FrameFacts ==
    ASSUME NEW len \in Nat, len <= kMaxFramed, NEW d
    PROVE  /\ Frame(len, d).len \in Nat /\ Frame(len, d).len <= kFrameBuf
           /\ extract_udp(Frame(len, d))
           /\ Frame(len, d).dgram = d /\ Frame(len, d).port = FeedPort
<1>1. PICK u \in Nat : u = U16 /\ u > 62 /\ kFrameBuf \in Nat /\ kFrameBuf >= u BY PcapAssumption
<1>2. len + 43 <= u BY <1>1 DEF kMaxFramed
<1>3. \A x \in Nat : x < u => x % u = x BY <1>1
<1>4. (8 + len) % U16 = 8 + len BY <1>1, <1>2, <1>3
<1>5. (20 + (8 + len)) % U16 = 28 + len BY <1>1, <1>2, <1>3
<1>6. (14 + (28 + len)) % U16 = 42 + len BY <1>1, <1>2, <1>3
<1>7. Frame(len, d) = [len |-> 42 + len, vlan |-> FALSE, ipv4 |-> TRUE, udp |-> TRUE,
                       ihl |-> 20, port |-> FeedPort, udp_len |-> 8 + len, dgram |-> d]
  BY <1>4, <1>5, <1>6 DEF Frame
<1>8. extract_udp(Frame(len, d)) BY <1>7 DEF extract_udp, Remaining
<1>9. 42 + len \in Nat /\ 42 + len <= kFrameBuf BY <1>1, <1>2
<1>10. QED BY <1>7, <1>8, <1>9

\* A record as it is stored, with all of its bytes unless the disk was full.
RecordForm(order, r) ==
    /\ {"incl", "ts", "have", "frame"} \subseteq DOMAIN r
    /\ r.frame.len \in Nat /\ r.incl = InOrder(order, r.frame.len)
FormsOK(order, full, rs) ==
    \A k \in 1 .. Len(rs) :
        RecordForm(order, rs[k]) /\ (full \/ rs[k].have = rs[k].frame.len)

\* The records show what was written, all of it unless the disk was full.
LinkInv ==
    truth.framed =>
        /\ IsSeq(truth.dgrams)
        /\ FormsOK(file.order, file.full, file.records)
        /\ Linked(file.order, file.records, truth.dgrams)
        /\ file.full \/ Complete(file.records, truth.dgrams)

\* New records that show new datagrams.
Fits(order, new, expected) ==
    \A rs, ds :
        IsSeq(rs) /\ IsSeq(ds) /\ Linked(order, rs, ds) /\ Complete(rs, ds)
        => /\ Linked(order, rs \o new, ds \o expected)
           /\ Complete(rs \o new, ds \o expected)

\* Sequences of one and two.
LEMMA ShortSeqs ==
    ASSUME NEW a, NEW b, NEW s, IsSeq(s)
    PROVE  /\ IsSeq(<<a>>) /\ IsSeq(<<a, b>>) /\ IsSeq(<<>>)
           /\ s \o <<>> = s /\ s \o <<a>> = Append(s, a)
           /\ s \o <<a, b>> = Append(Append(s, a), b)
<1>1. PICK S : s \in Seq(S) BY DEF IsSeq
<1> DEFINE T == S \cup {a, b}
<1>2. s \in Seq(T) /\ a \in T /\ b \in T BY <1>1
<1> HIDE DEF T
<1>3. <<a>> \in Seq(T) /\ <<a, b>> \in Seq(T) /\ <<>> \in Seq(T) BY <1>2
<1>4. s \o <<>> = s BY <1>2
<1>5. s \o <<a>> = Append(s, a) BY <1>2, <1>3
<1>6. s \o <<a, b>> = Append(Append(s, a), b) BY <1>2, <1>3
<1>7. QED BY <1>3, <1>4, <1>5, <1>6 DEF IsSeq

\* One record and its datagram, two of them, and one without.
LEMMA FitsShort ==
    ASSUME NEW order, NEW a, NEW b
    PROVE  /\ Carries(a) => Fits(order, <<a>>, <<Shown(order, a)>>)
           /\ Carries(a) /\ Carries(b) => Fits(order, <<a, b>>, <<Shown(order, a), Shown(order, b)>>)
           /\ ~Carries(a) => Fits(order, <<a>>, <<>>)
<1> DEFINE x == Shown(order, a)
           y == Shown(order, b)
<1>1. ASSUME NEW rs, NEW ds, IsSeq(rs), IsSeq(ds), Linked(order, rs, ds), Complete(rs, ds)
      PROVE  /\ Carries(a) => /\ Linked(order, rs \o <<a>>, ds \o <<x>>)
                              /\ Complete(rs \o <<a>>, ds \o <<x>>)
             /\ Carries(a) /\ Carries(b) => /\ Linked(order, rs \o <<a, b>>, ds \o <<x, y>>)
                                            /\ Complete(rs \o <<a, b>>, ds \o <<x, y>>)
             /\ ~Carries(a) => /\ Linked(order, rs \o <<a>>, ds \o <<>>)
                               /\ Complete(rs \o <<a>>, ds \o <<>>)
  <2>1. rs \o <<a>> = Append(rs, a) /\ rs \o <<a, b>> = Append(Append(rs, a), b)
    BY <1>1, ShortSeqs
  <2>2. ds \o <<x>> = Append(ds, x) /\ ds \o <<x, y>> = Append(Append(ds, x), y)
        /\ ds \o <<>> = ds
    BY <1>1, ShortSeqs
  <2>3. IsSeq(Append(rs, a)) /\ IsSeq(Append(ds, x)) BY <1>1, IsSeqFacts
  <2>4. Carries(a) => Linked(order, Append(rs, a), Append(ds, x)) /\ Complete(Append(rs, a), Append(ds, x))
    BY <1>1, LinkGrows
  <2> DEFINE rs1 == Append(rs, a)
             ds1 == Append(ds, x)
  <2>5. Carries(a) /\ Carries(b) =>
          /\ Linked(order, Append(rs1, b), Append(ds1, y))
          /\ Complete(Append(rs1, b), Append(ds1, y))
    <3>1. HAVE Carries(a) /\ Carries(b)
    <3>2. IsSeq(rs1) /\ IsSeq(ds1) /\ Linked(order, rs1, ds1) /\ Complete(rs1, ds1)
      BY <2>3, <2>4, <3>1
    <3> HIDE DEF rs1, ds1
    <3>3. QED BY <3>1, <3>2, LinkGrows
  <2>6. ~Carries(a) => Linked(order, Append(rs, a), ds) /\ Complete(Append(rs, a), ds)
    BY <1>1, LinkSkips
  <2>7. QED BY <2>1, <2>2, <2>4, <2>5, <2>6
<1> HIDE DEF x, y
<1>2. QED BY <1>1 DEF Fits, x, y

\* Records appended.
LEMMA AppendLinks ==
    ASSUME RecordsInv, LinkInv, NEW new, NEW expected, NEW framed, NEW extra,
           framed => /\ IsSeq(new) /\ IsSeq(expected)
                     /\ FormsOK(file.order, FALSE, new) /\ Fits(file.order, new, expected),
           AppendRecords(new, expected, framed, extra)
    PROVE  LinkInv'
<1> DEFINE rs == file.records
           ds == truth.dgrams
           us == IF file.full THEN rs ELSE rs \o new
<1>1. /\ file' = [file EXCEPT !.records = us, !.extra = file.extra + extra]
      /\ truth'.dgrams = ds \o expected /\ truth'.framed = (truth.framed /\ framed)
  BY DEF AppendRecords
<1>2. file'.order = file.order /\ file'.records = us /\ file'.full = file.full
  BY <1>1 DEF RecordsInv
<1>3. SUFFICES ASSUME truth'.framed
      PROVE  /\ IsSeq(truth'.dgrams) /\ FormsOK(file'.order, file'.full, file'.records)
             /\ Linked(file'.order, file'.records, truth'.dgrams)
             /\ file'.full \/ Complete(file'.records, truth'.dgrams)
  BY DEF LinkInv
<1>4. truth.framed /\ framed /\ truth'.dgrams = ds \o expected BY <1>1, <1>3
<1>5. /\ IsSeq(rs) /\ IsSeq(ds) /\ IsSeq(new) /\ IsSeq(expected)
      /\ FormsOK(file.order, file.full, rs) /\ FormsOK(file.order, FALSE, new)
      /\ Linked(file.order, rs, ds) /\ (file.full \/ Complete(rs, ds))
      /\ Fits(file.order, new, expected)
  BY <1>4 DEF LinkInv, RecordsInv, RecordsOK
<1> HIDE DEF rs, ds
<1>6. IsSeq(ds \o expected) BY <1>5, IsSeqConcat
<1>7. CASE file.full
  <2>1. Linked(file.order, rs, ds \o expected) BY <1>5, LinkKept
  <2>2. QED BY <1>2, <1>4, <1>5, <1>6, <1>7, <2>1
<1>8. CASE ~file.full
  <2>1. Linked(file.order, rs \o new, ds \o expected) /\ Complete(rs \o new, ds \o expected)
    BY <1>5, <1>8 DEF Fits
  <2>2. FormsOK(file.order, file.full, rs \o new)
    <3>1. Len(rs) \in Nat /\ Len(new) \in Nat BY <1>5, IsSeqFacts
    <3>2. /\ Len(rs \o new) = Len(rs) + Len(new)
          /\ \A k \in 1 .. Len(rs) + Len(new) :
               (rs \o new)[k] = IF k <= Len(rs) THEN rs[k] ELSE new[k - Len(rs)]
      BY <1>5, IsSeqConcat
    <3> DEFINE vs == rs \o new
    <3> HIDE DEF vs
    <3>3. ASSUME NEW k \in 1 .. Len(rs) + Len(new)
          PROVE  RecordForm(file.order, vs[k]) /\ (file.full \/ vs[k].have = vs[k].frame.len)
      <4>1. CASE k <= Len(rs)
        <5>1. k \in 1 .. Len(rs) /\ vs[k] = rs[k] BY <3>1, <3>2, <3>3, <4>1 DEF vs
        <5>2. QED BY <1>5, <5>1 DEF FormsOK
      <4>2. CASE ~(k <= Len(rs))
        <5>1. PICK j \in 1 .. Len(new) : vs[k] = new[j] BY <3>1, <3>2, <3>3, <4>2 DEF vs
        <5>2. QED BY <1>5, <5>1 DEF FormsOK
      <4>3. QED BY <4>1, <4>2
    <3>4. QED BY <3>2, <3>3 DEF FormsOK, vs
  <2>3. QED BY <1>2, <1>4, <1>6, <1>8, <2>1, <2>2
<1>9. QED BY <1>7, <1>8

\* A written record shows the datagram it was given, with its stamp.
WrittenAs(w) == Record(file.order, w.ts, Frame(w.len, w.dgram))
WillShow(w) == [dgram |-> w.dgram, ts |-> w.ts, port |-> FeedPort]
LEMMA WrittenFacts ==
    ASSUME NEW w, w.ts \in Nat, w.len \in Nat, w.len <= kMaxFramed
    PROVE  /\ Carries(WrittenAs(w)) /\ RecordForm(file.order, WrittenAs(w))
           /\ WrittenAs(w).have = WrittenAs(w).frame.len
           /\ Shown(file.order, WrittenAs(w)) = WillShow(w)
<1> DEFINE f == Frame(w.len, w.dgram)
<1>1. /\ f.len \in Nat /\ f.len <= kFrameBuf /\ extract_udp(f)
      /\ f.dgram = w.dgram /\ f.port = FeedPort
  BY FrameFacts
<1> HIDE DEF f
<1>2. WrittenAs(w) = [incl |-> InOrder(file.order, f.len), ts |-> InOrder(file.order, w.ts),
                      have |-> f.len, frame |-> f]
  BY DEF WrittenAs, Record, f
<1>3. InOrder(file.order, InOrder(file.order, w.ts)) = w.ts
  BY SwapTwice DEF maybe_swap32, InOrder
<1>4. QED BY <1>1, <1>2, <1>3 DEF Carries, RecordForm, Shown, WillShow

\* write_packet adds what it is given, once or twice.
LEMMA WriteLinks ==
    ASSUME RecordsInv, LinkInv, NEW a, NEW b, a.ts \in Nat, a.len \in Nat, b.ts \in Nat, b.len \in Nat,
           NEW ws, ws = <<a>> \/ ws = <<a, b>>, NEW extra, write_packet(ws, extra)
    PROVE  LinkInv'
<1> DEFINE new == [k \in DOMAIN ws |-> Record(file.order, ws[k].ts, Frame(ws[k].len, ws[k].dgram))]
           exp == [k \in DOMAIN ws |-> [dgram |-> ws[k].dgram, ts |-> ws[k].ts, port |-> FeedPort]]
           framed == \A k \in DOMAIN ws : ws[k].len <= kMaxFramed
           ra == WrittenAs(a)
           rb == WrittenAs(b)
<1>1. AppendRecords(new, exp, framed, extra) BY DEF write_packet
<1>2. ASSUME framed
      PROVE  /\ IsSeq(new) /\ IsSeq(exp)
             /\ FormsOK(file.order, FALSE, new) /\ Fits(file.order, new, exp)
  <2>0. IsSeq(<<>>) /\ <<>> \in Seq({})
    <3>1. <<>> \in Seq({}) OBVIOUS
    <3>2. QED BY <3>1 DEF IsSeq
  <2>1. CASE ws = <<a>>
    <3>1. DOMAIN ws = {1} /\ ws[1] = a BY <2>1
    <3>2. a.len <= kMaxFramed BY <1>2, <3>1
    <3>3. /\ Carries(ra) /\ RecordForm(file.order, ra) /\ ra.have = ra.frame.len
          /\ Shown(file.order, ra) = WillShow(a)
      BY <3>2, WrittenFacts
    <3>4. new = [k \in {1} |-> ra] /\ exp = [k \in {1} |-> WillShow(a)]
      BY <3>1 DEF WrittenAs, WillShow
    <3> HIDE DEF new, exp, ra
    <3>5. \A x : <<x>> = [k \in {1} |-> x] /\ Len(<<x>>) = 1 /\ <<x>>[1] = x OBVIOUS
    <3>6. new = <<ra>> /\ exp = <<WillShow(a)>> BY <3>4, <3>5
    <3>7. IsSeq(new) /\ IsSeq(exp) BY <2>0, <3>6, ShortSeqs
    <3>8. Fits(file.order, new, exp) BY <3>3, <3>6, FitsShort
    <3>9. FormsOK(file.order, FALSE, new) BY <3>3, <3>5, <3>6 DEF FormsOK
    <3>10. QED BY <3>7, <3>8, <3>9
  <2>2. CASE ws = <<a, b>>
    <3>1. DOMAIN ws = {1, 2} /\ ws[1] = a /\ ws[2] = b BY <2>2
    <3>2. a.len <= kMaxFramed /\ b.len <= kMaxFramed BY <1>2, <3>1
    <3>3. /\ Carries(ra) /\ RecordForm(file.order, ra) /\ ra.have = ra.frame.len
          /\ Shown(file.order, ra) = WillShow(a)
      BY <3>2, WrittenFacts
    <3>4. /\ Carries(rb) /\ RecordForm(file.order, rb) /\ rb.have = rb.frame.len
          /\ Shown(file.order, rb) = WillShow(b)
      BY <3>2, WrittenFacts
    <3>5. /\ DOMAIN new = {1, 2} /\ new[1] = ra /\ new[2] = rb
          /\ new = [k \in {1, 2} |-> new[k]]
          /\ DOMAIN exp = {1, 2} /\ exp[1] = WillShow(a) /\ exp[2] = WillShow(b)
          /\ exp = [k \in {1, 2} |-> exp[k]]
      BY <3>1 DEF WrittenAs, WillShow
    <3> HIDE DEF new, exp, ra, rb
    <3>6. \A x, y : /\ <<x, y>> = [k \in {1, 2} |-> IF k = 1 THEN x ELSE y]
                    /\ Len(<<x, y>>) = 2 /\ <<x, y>>[1] = x /\ <<x, y>>[2] = y
      OBVIOUS
    <3>7. new = <<ra, rb>>
      <4>1. new = [k \in {1, 2} |-> IF k = 1 THEN ra ELSE rb] BY <3>5
      <4>2. QED BY <3>6, <4>1
    <3>8. exp = <<WillShow(a), WillShow(b)>>
      <4>1. exp = [k \in {1, 2} |-> IF k = 1 THEN WillShow(a) ELSE WillShow(b)] BY <3>5
      <4>2. QED BY <3>6, <4>1
    <3>9. IsSeq(new) /\ IsSeq(exp) BY <2>0, <3>7, <3>8, ShortSeqs
    <3>10. Fits(file.order, new, exp) BY <3>3, <3>4, <3>7, <3>8, FitsShort
    <3>11. FormsOK(file.order, FALSE, new) BY <3>3, <3>4, <3>6, <3>7 DEF FormsOK
    <3>12. QED BY <3>9, <3>10, <3>11
  <2>3. QED BY <2>1, <2>2
<1> HIDE DEF new, exp, framed
<1>3. QED BY <1>1, <1>2, AppendLinks

\* A turn of gen_pcap's loop.
LEMMA GenerateLinks == ASSUME FileInv, LinkInv, Generate PROVE LinkInv'
<1> DEFINE seq  == SkipGap(gen.seq)
           n    == Min({opt.msgs_per_pkt, opt.count - gen.msgs_written})
           len  == (kMoldHeaderSize + n * BlockSize) % U16
           w(k) == [ts |-> gen.ts_us + k * opt.rate_us, len |-> len,
                    dgram |-> Datagram(seq, n, len)]
           ws   == IF opt.dup_at # 0 /\ seq = opt.dup_at THEN <<w(0), w(1)>> ELSE <<w(0)>>
<1>1. gen.msgs_written < opt.count /\ write_packet(ws, 0) BY DEF Generate
<1>2. StampOK(gen.ts_us) /\ StampOK(gen.ts_us + opt.rate_us) /\ opt.count \in Nat
      /\ opt.rate_us \in Nat
  BY <1>1, GenStamps DEF FileInv
<1>3. opt.msgs_per_pkt \in Nat /\ opt.count - gen.msgs_written \in Nat
  <2>1. opt.msgs_per_pkt \in Nat /\ gen.msgs_written \in 0 .. opt.count
    BY PcapAssumption DEF FileInv, GenInv
  <2>2. QED BY <1>2, <2>1
<1>4. PICK m \in Nat : m = n BY <1>3, MinOfTwo
<1>5. len \in Nat
  <2>1. U16 \in Nat \ {0} /\ kMoldHeaderSize + m * BlockSize \in Nat
    BY PcapAssumption DEF kMoldHeaderSize, BlockSize
  <2>2. QED BY <1>4, <2>1, Division
<1>6. w(0).ts = gen.ts_us /\ w(1).ts = gen.ts_us + opt.rate_us /\ w(0).len = len /\ w(1).len = len
  BY <1>2 DEF StampOK
<1> HIDE DEF w, len, n, seq
<1>7. ws = <<w(0)>> \/ ws = <<w(0), w(1)>> OBVIOUS
<1> HIDE DEF ws
<1>8. w(0).ts \in Nat /\ w(1).ts \in Nat /\ w(0).len \in Nat /\ w(1).len \in Nat
  BY <1>2, <1>5, <1>6 DEF StampOK
<1>9. QED BY <1>1, <1>7, <1>8, WriteLinks DEF FileInv

\* What is written or captured besides.
LEMMA OthersLink ==
    ASSUME FileInv, LinkInv, \/ write_heartbeat
                             \/ \E len \in BodyLens : write_mold_packet(len)
                             \/ \E c \in Noise : Capture(c)
    PROVE  LinkInv'
<1>0. gen.ts_us \in Nat /\ RecordsInv BY GenStamps DEF FileInv, StampOK
<1>1. CASE write_heartbeat
  <2> DEFINE w == [ts |-> gen.ts_us, len |-> kMoldHeaderSize, dgram |-> Heartbeat(0)]
  <2>1. write_packet(<<w>>, 1) BY <1>1 DEF write_heartbeat
  <2>2. w.ts \in Nat /\ w.len \in Nat BY <1>0 DEF kMoldHeaderSize
  <2> HIDE DEF w
  <2>3. QED BY <1>0, <2>1, <2>2, WriteLinks
<1>2. ASSUME NEW body_len \in BodyLens, write_mold_packet(body_len) PROVE LinkInv'
  <2> DEFINE w == [ts |-> gen.ts_us, len |-> (kMoldHeaderSize + 2 + body_len) % U16,
                   dgram |-> Single(gen.seq, body_len)]
  <2>1. write_packet(<<w>>, 1) BY <1>2 DEF write_mold_packet
  <2>2. (kMoldHeaderSize + 2 + body_len) % U16 \in Nat
    <3>1. U16 \in Nat \ {0} /\ body_len \in Nat BY PcapAssumption
    <3>2. QED BY <3>1, Division DEF kMoldHeaderSize
  <2>3. w.ts \in Nat /\ w.len \in Nat BY <1>0, <2>2
  <2> HIDE DEF w
  <2>4. QED BY <1>0, <2>1, <2>3, WriteLinks
<1>3. ASSUME NEW c \in Noise, Capture(c) PROVE LinkInv'
  <2> DEFINE r == Record(file.order, c.ts, c.frame)
             e == [dgram |-> c.frame.dgram, ts |-> c.ts, port |-> c.frame.port]
             exp == IF c.udp THEN <<e>> ELSE <<>>
  <2>1. AppendRecords(<<r>>, exp, TRUE, 1) BY <1>3 DEF Capture
  <2>2. /\ c.ts \in Nat /\ c.frame.len \in Nat /\ c.frame.ihl \in Nat /\ c.frame.ihl >= 20
        /\ c.udp <=> WellFormed(c.frame) /\ c.frame.len <= kFrameBuf
    BY PcapAssumption
  <2>3. Carries(r) <=> c.udp BY <2>2, ExtractsWellFormed DEF Carries, Record
  <2>4. InOrder(file.order, InOrder(file.order, c.ts)) = c.ts
    BY <2>2, SwapTwice DEF maybe_swap32, InOrder
  <2>5. Shown(file.order, r) = e BY <2>4 DEF Shown, Record
  <2>6. RecordForm(file.order, r) /\ r.have = r.frame.len BY <2>2 DEF RecordForm, Record
  <2> HIDE DEF r, e
  <2>7. Len(<<r>>) = 1 /\ <<r>>[1] = r OBVIOUS
  <2>8. FormsOK(file.order, FALSE, <<r>>) BY <2>6, <2>7 DEF FormsOK
  <2>9. <<>> \in Seq({}) OBVIOUS
  <2>10. IsSeq(<<>>) BY <2>9 DEF IsSeq
  <2>11. IsSeq(<<r>>) /\ IsSeq(exp) BY <2>10, ShortSeqs
  <2>12. Fits(file.order, <<r>>, exp) BY <2>3, <2>5, FitsShort
  <2> HIDE DEF exp
  <2>13. QED BY <1>0, <2>1, <2>8, <2>11, <2>12, AppendLinks
<1>4. QED BY <1>1, <1>2, <1>3

\* The record that a full disk cuts still shows what it showed.
LEMMA DiskFullLinks == ASSUME FileInv, LinkInv, DiskFull PROVE LinkInv'
<1> DEFINE s == file.records
           n == Len(s)
           r == [s[n] EXCEPT !.have = s[n].have - 1]
           u == [s EXCEPT ![n] = r]
<1>1. s # <<>> /\ truth' = truth /\ file' = [file EXCEPT !.full = TRUE, !.records = u]
  BY DEF DiskFull
<1>2. SUFFICES ASSUME truth.framed
      PROVE  /\ IsSeq(truth.dgrams) /\ FormsOK(file'.order, file'.full, file'.records)
             /\ Linked(file'.order, file'.records, truth.dgrams)
             /\ file'.full \/ Complete(file'.records, truth.dgrams)
  BY <1>1 DEF LinkInv
<1>3. /\ IsSeq(truth.dgrams) /\ FormsOK(file.order, file.full, s) /\ Linked(file.order, s, truth.dgrams)
  BY <1>2 DEF LinkInv
<1>4. PICK S : s \in Seq(S) BY DEF FileInv, RecordsInv, RecordsOK, IsSeq
<1>5. n \in Nat /\ n # 0 /\ DOMAIN s = 1 .. n BY <1>1, <1>4
<1>6. RecordForm(file.order, s[n]) BY <1>3, <1>5 DEF FormsOK
<1>7. file'.order = file.order /\ file'.records = u /\ file'.full = TRUE
  BY <1>1 DEF FileInv, RecordsInv
<1> HIDE DEF s, n
<1>8. r.frame = s[n].frame /\ r.ts = s[n].ts /\ RecordForm(file.order, r)
  <2>1. DOMAIN r = DOMAIN s[n] /\ r.frame = s[n].frame /\ r.ts = s[n].ts /\ r.incl = s[n].incl
    BY <1>6 DEF RecordForm
  <2>2. QED BY <1>6, <2>1 DEF RecordForm
<1> HIDE DEF r
<1>9. Len(u) = n /\ \A k \in 1 .. n : u[k] = IF k = n THEN r ELSE s[k]
  <2>1. s \in Seq(S \cup {r}) BY <1>4
  <2>2. Len(s) = n BY DEF n
  <2>3. QED BY <1>5, <2>1, <2>2
<1> HIDE DEF u
<1>10. \A k \in 1 .. n : u[k].frame = s[k].frame /\ u[k].ts = s[k].ts /\ RecordForm(file.order, u[k])
  BY <1>3, <1>8, <1>9 DEF FormsOK, n
<1>11. FormsOK(file.order, TRUE, u) BY <1>9, <1>10 DEF FormsOK
<1>12. Positions(u) = Positions(s) BY <1>9, <1>10 DEF Positions, Carries, n
<1>13. \A k \in Positions(s) : Shown(file.order, u[k]) = Shown(file.order, s[k])
  BY <1>10 DEF Positions, Shown, n
<1>14. Linked(file.order, u, truth.dgrams) BY <1>3, <1>12, <1>13 DEF Linked
<1>15. QED BY <1>3, <1>7, <1>11, <1>14

\* Every step keeps the link.
LEMMA LinkStep == ASSUME FileInv, LinkInv, [NextPcap]_pcapVars PROVE LinkInv'
<1>1. ASSUME UNCHANGED <<file, truth>> PROVE LinkInv' BY <1>1 DEF LinkInv
<1>2. CASE Open \/ Replay \/ ClockAdvance \/ UNCHANGED pcapVars
  <2>1. UNCHANGED <<file, truth>>
    BY <1>2 DEF Open, Replay, ReadEnd, SkipOversized, ReadRecord, HandleOther, HandleUdp, Reading,
         Handling, ClockAdvance, writeVars, pcapVars
  <2>2. QED BY <1>1, <2>1
<1>3. QED BY <1>2, GenerateLinks, OthersLink, DiskFullLinks DEF NextPcap

-----------------------------------------------------------------------------
(* What is read.                                                           *)

\* How many datagrams the first h records show, and which of the first m
\* datagrams are for the port asked for.
Read(h) == Cardinality(Upto(Positions(file.records), h))
Chosen(m) == {i \in 1 .. m : ForUs(truth.dgrams[i])}
Handled == IF pc = "pace" THEN rec - 1 ELSE rec

\* The callback got the datagrams of the records handled.
SeenInv ==
    /\ IsSeq(seen)
    /\ pc = "write" => seen = <<>>
    /\ truth.framed =>
         /\ Subsequence(seen, truth.dgrams, Chosen(Read(Handled)))
         /\ pc = "pace" => Current.frame.len <= kFrameBuf
         /\ pc = "done" /\ Readable /\ ~file.full => rec = Len(file.records)

\* The stored length is the length of the frame.
LEMMA StoredLength ==
    ASSUME FileInv, LinkInv, truth.framed, NEW k \in 1 .. Len(file.records)
    PROVE  /\ maybe_swap32(file.records[k].incl) = file.records[k].frame.len
           /\ file.records[k].frame.len \in Nat
           /\ file.full \/ file.records[k].have = file.records[k].frame.len
<1>1. /\ RecordForm(file.order, file.records[k])
      /\ file.full \/ file.records[k].have = file.records[k].frame.len
  BY DEF LinkInv, FormsOK
<1>2. QED BY <1>1, SwapTwice DEF RecordForm

\* One more record handled.
LEMMA NextRecord ==
    ASSUME FileInv, LinkInv, truth.framed, NEW h \in Nat, h + 1 <= Len(file.records)
    PROVE  LET r == file.records[h + 1]
               e == Shown(file.order, r) IN
           /\ Read(h) \in Nat
           /\ ~Carries(r) => Read(h + 1) = Read(h)
           /\ Carries(r) => Read(h + 1) = Read(h) + 1 /\ truth.dgrams[Read(h) + 1] = e
<1> DEFINE P == Positions(file.records)
           r == file.records[h + 1]
<1>1. IsSeq(file.records) BY DEF FileInv, RecordsInv, RecordsOK
<1>2. Len(file.records) \in Nat /\ P \subseteq 1 .. Len(file.records) BY <1>1, PositionsFacts
<1>3. h + 1 \in 1 .. Len(file.records) BY <1>2
<1>4. h + 1 \in P <=> Carries(r) BY <1>3 DEF Positions
<1>5. \A k \in P : truth.dgrams[Cardinality(Upto(P, k))] = Shown(file.order, file.records[k])
  BY DEF LinkInv, Linked
<1> HIDE DEF P
<1>6. Upto(P, h + 1) = IF h + 1 \in P THEN Upto(P, h) \cup {h + 1} ELSE Upto(P, h)
  <2>1. \A j \in P : j <= h + 1 <=> j <= h \/ j = h + 1 BY <1>2
  <2>2. QED BY <2>1 DEF Upto
<1>7. IsFiniteSet(Upto(P, h)) /\ Cardinality(Upto(P, h)) \in Nat BY <1>2, UptoFacts
<1>8. h + 1 \notin Upto(P, h) BY DEF Upto
<1>9. Cardinality(Upto(P, h) \cup {h + 1}) = Cardinality(Upto(P, h)) + 1
  BY <1>7, <1>8, FS_AddElement
<1>10. Read(h) = Cardinality(Upto(P, h)) /\ Read(h + 1) = Cardinality(Upto(P, h + 1))
  BY DEF Read, P
<1> HIDE DEF r
<1>11. Carries(r) => Read(h + 1) = Read(h) + 1 /\ truth.dgrams[Read(h) + 1] = Shown(file.order, r)
  <2>1. HAVE Carries(r)
  <2>2. h + 1 \in P BY <1>4, <2>1
  <2>3. Cardinality(Upto(P, h + 1)) = Cardinality(Upto(P, h)) + 1 BY <1>6, <1>9, <2>2
  <2>4. truth.dgrams[Cardinality(Upto(P, h + 1))] = Shown(file.order, r) BY <1>5, <2>2 DEF r
  <2>5. QED BY <1>10, <2>3, <2>4
<1>12. ~Carries(r) => Read(h + 1) = Read(h) BY <1>4, <1>6, <1>10
<1>13. QED BY <1>7, <1>10, <1>11, <1>12 DEF r

\* One more datagram, for us or not.
LEMMA ChosenGrows ==
    ASSUME NEW m \in Nat
    PROVE  /\ Chosen(m) \subseteq 1 .. m
           /\ Chosen(m + 1) = IF ForUs(truth.dgrams[m + 1]) THEN Chosen(m) \cup {m + 1} ELSE Chosen(m)
<1>1. \A k : k \in 1 .. m + 1 <=> k \in 1 .. m \/ k = m + 1 OBVIOUS
<1>2. Chosen(m) \subseteq 1 .. m BY DEF Chosen
<1>3. Chosen(m + 1) = IF ForUs(truth.dgrams[m + 1]) THEN Chosen(m) \cup {m + 1} ELSE Chosen(m)
  BY <1>1 DEF Chosen
<1>4. QED BY <1>2, <1>3

\* Before anything is handled nothing is chosen.
LEMMA NoneChosen == ASSUME FileInv PROVE Chosen(Read(0)) = {}
<1>1. IsSeq(file.records) BY DEF FileInv, RecordsInv, RecordsOK
<1>2. /\ Len(file.records) \in Nat
      /\ Positions(file.records) \subseteq 1 .. Len(file.records)
  BY <1>1, PositionsFacts
<1>3. Upto(Positions(file.records), 0) = {} BY <1>2, UptoFacts
<1>4. Read(0) = 0 BY <1>3, FS_EmptySet DEF Read
<1>5. QED BY <1>4 DEF Chosen

\* Writing hands nothing over.
LEMMA WritingSees ==
    ASSUME FileInv', SeenInv, pc = "write",
           UNCHANGED <<pc, rec, seen>>, rec = 0
    PROVE  SeenInv'
<1>1. seen' = <<>> /\ IsSeq(seen') BY DEF SeenInv
<1>2. Handled' = 0 BY DEF Handled
<1>3. Chosen(Read(0))' = {}
  <2>1. (FileInv => Chosen(Read(0)) = {})' BY NoneChosen, PTL
  <2>2. QED BY <2>1
<1>4. Chosen(Read(Handled))' = {} BY <1>2, <1>3 DEF Chosen, Read
<1>5. Subsequence(seen', truth'.dgrams, {}) BY <1>1, SubsequenceOfNone
<1>6. QED BY <1>1, <1>4, <1>5 DEF SeenInv

\* Reading, and what it hands over.
LEMMA ReadingSees ==
    ASSUME FileInv, LinkInv, SeenInv, Open \/ Replay \/ ClockAdvance \/ UNCHANGED pcapVars
    PROVE  SeenInv'
<1>1. file' = file /\ truth' = truth /\ cfg' = cfg
  BY DEF Open, Replay, ReadEnd, SkipOversized, ReadRecord, HandleOther, HandleUdp, Reading,
         Handling, ClockAdvance, writeVars, readVars, pcapVars
<1>2. Len(file.records) \in Nat BY IsSeqFacts DEF FileInv, RecordsInv, RecordsOK
<1>3. rec \in Nat /\ rec <= Len(file.records) /\ (pc = "pace" => rec # 0) BY DEF FileInv, ReadInv
<1>4. ASSUME NEW h \in Nat, Handled' = h, IsSeq(seen'), pc' # "write" \/ seen' = <<>>,
             truth.framed => /\ Subsequence(seen', truth.dgrams, Chosen(Read(h)))
                             /\ pc' = "pace" => file.records[rec'].frame.len <= kFrameBuf
                             /\ pc' = "done" /\ Readable /\ ~file.full => rec' = Len(file.records)
      PROVE  SeenInv'
  <2>1. Chosen(Read(Handled))' = Chosen(Read(h)) BY <1>1, <1>4 DEF Chosen, Read, ForUs
  <2>2. Readable' = Readable /\ Current' = file.records[rec'] BY <1>1 DEF Readable, Current
  <2>3. QED BY <1>1, <1>4, <2>1, <2>2 DEF SeenInv
<1>5. ASSUME UNCHANGED seen, Handled' = Handled, pc' # "write" \/ pc = "write",
             truth.framed => /\ pc' = "pace" => file.records[rec'].frame.len <= kFrameBuf
                             /\ pc' = "done" /\ Readable /\ ~file.full => rec' = Len(file.records)
      PROVE  SeenInv'
  <2>1. PICK h \in Nat : h = Handled BY <1>3 DEF Handled
  <2>2. IsSeq(seen) /\ (pc = "write" => seen = <<>>)
        /\ (truth.framed => Subsequence(seen, truth.dgrams, Chosen(Read(h))))
    BY <2>1 DEF SeenInv
  <2>3. QED BY <1>4, <1>5, <2>1, <2>2
<1>6. CASE Open
  <2>1. /\ UNCHANGED <<seen, rec>> /\ pc = "write"
        /\ pc' = IF file.order \in {"host", "swapped"} THEN "replay" ELSE "done"
    BY <1>6 DEF Open
  <2>2. Handled' = Handled BY <2>1 DEF Handled
  <2>3. pc' = "done" => ~Readable BY <2>1 DEF Readable
  <2>4. QED BY <1>5, <2>1, <2>2, <2>3
<1>7. CASE ClockAdvance \/ UNCHANGED pcapVars
  <2>1. UNCHANGED <<seen, rec, pc>> BY <1>7 DEF ClockAdvance, pcapVars, readVars
  <2>2. Handled' = Handled BY <2>1 DEF Handled
  <2>3. QED BY <1>5, <2>1, <2>2 DEF SeenInv, Current
<1>8. CASE ReadEnd
  <2>1. /\ UNCHANGED <<seen, rec>> /\ pc = "replay" /\ pc' = "done"
        /\ rec < Len(file.records) => Incl <= kFrameBuf /\ Following.have < Incl
    BY <1>8 DEF ReadEnd, Reading
  <2>2. Handled' = Handled BY <2>1 DEF Handled
  <2>3. truth.framed /\ ~file.full => rec = Len(file.records)
    <3>1. SUFFICES ASSUME truth.framed, ~file.full, rec < Len(file.records) PROVE FALSE
      BY <1>2, <1>3
    <3>2. rec + 1 \in 1 .. Len(file.records) BY <1>2, <1>3, <3>1
    <3>3. Incl = Following.frame.len /\ Following.frame.len \in Nat
          /\ Following.have = Following.frame.len
      BY <3>1, <3>2, StoredLength DEF Incl, Following
    <3>4. QED BY <2>1, <3>1, <3>3
  <2>4. QED BY <1>5, <2>1, <2>2, <2>3
<1>9. CASE SkipOversized
  <2>1. /\ seen' = seen /\ pc = "replay" /\ pc' = pc /\ rec' = rec + 1
        /\ rec < Len(file.records) /\ Incl > kFrameBuf
    BY <1>9 DEF SkipOversized, Reading
  <2>2. Handled' = rec + 1 /\ Handled = rec /\ rec + 1 \in Nat BY <1>3, <2>1 DEF Handled
  <2>3. IsSeq(seen') /\ pc' # "write" /\ pc' # "pace" /\ pc' # "done" BY <2>1 DEF SeenInv
  <2>4. ASSUME truth.framed PROVE Subsequence(seen', truth.dgrams, Chosen(Read(rec + 1)))
    <3>1. rec + 1 \in 1 .. Len(file.records) /\ rec + 1 <= Len(file.records) BY <1>2, <1>3, <2>1
    <3>2. Incl = Following.frame.len /\ Following.frame.len \in Nat
      BY <2>4, <3>1, StoredLength DEF Incl, Following
    <3>3. ~Carries(file.records[rec + 1])
      <4>1. kFrameBuf \in Nat BY PcapAssumption
      <4>2. QED BY <2>1, <3>2, <4>1 DEF Carries, Following
    <3>4. Read(rec + 1) = Read(rec) BY <1>3, <2>4, <3>1, <3>3, NextRecord
    <3>5. QED BY <2>1, <2>2, <2>4, <3>4 DEF SeenInv
  <2>5. QED BY <1>4, <2>2, <2>3, <2>4
<1>10. CASE ReadRecord
  <2>1. /\ seen' = seen /\ pc = "replay" /\ pc' = "pace" /\ rec' = rec + 1
        /\ rec < Len(file.records) /\ Incl <= kFrameBuf
    BY <1>10 DEF ReadRecord, Reading
  <2>2. Handled' = Handled BY <1>3, <2>1 DEF Handled
  <2>3. truth.framed => file.records[rec'].frame.len <= kFrameBuf
    <3>1. HAVE truth.framed
    <3>2. rec + 1 \in 1 .. Len(file.records) BY <1>2, <1>3, <2>1
    <3>3. Incl = Following.frame.len BY <3>1, <3>2, StoredLength DEF Incl, Following
    <3>4. QED BY <2>1, <3>3 DEF Following
  <2>4. QED BY <1>5, <2>1, <2>2, <2>3
<1>11. ASSUME HandleOther \/ HandleUdp
       PROVE  \E h \in Nat : /\ rec = h + 1 /\ h + 1 <= Len(file.records) /\ Handled = h /\ Handled' = h + 1
                              /\ pc = "pace" /\ pc' = "replay" /\ Current = file.records[h + 1]
  <2>1. pc = "pace" /\ pc' = "replay" /\ rec' = rec
    BY <1>11 DEF HandleOther, HandleUdp, Handling
  <2>2. PICK h \in Nat : rec = h + 1
    <3>1. rec - 1 \in Nat /\ rec = (rec - 1) + 1 BY <1>3, <2>1
    <3>2. QED BY <3>1
  <2>3. Handled = h /\ Handled' = h + 1 BY <2>1, <2>2 DEF Handled
  <2>4. QED BY <1>3, <2>1, <2>2, <2>3 DEF Current
<1>12. CASE HandleOther
  <2>1. PICK h \in Nat : /\ rec = h + 1 /\ h + 1 <= Len(file.records) /\ Handled = h /\ Handled' = h + 1
                         /\ pc = "pace" /\ pc' = "replay" /\ Current = file.records[h + 1]
    BY <1>11, <1>12
  <2>2. seen' = seen /\ ~Wanted(Current.frame) BY <1>12 DEF HandleOther
  <2>3. IsSeq(seen') /\ pc' # "write" /\ pc' # "pace" /\ pc' # "done" BY <2>1, <2>2 DEF SeenInv
  <2>4. ASSUME truth.framed PROVE Subsequence(seen', truth.dgrams, Chosen(Read(h + 1)))
    <3> DEFINE r == file.records[h + 1]
    <3>1. Subsequence(seen, truth.dgrams, Chosen(Read(h))) BY <2>1, <2>4 DEF SeenInv
    <3>2. /\ Read(h) \in Nat
          /\ ~Carries(r) => Read(h + 1) = Read(h)
          /\ Carries(r) => Read(h + 1) = Read(h) + 1 /\ truth.dgrams[Read(h) + 1] = Shown(file.order, r)
      BY <2>1, <2>4, NextRecord
    <3>3. Carries(r) => ~ForUs(Shown(file.order, r))
      BY <2>1, <2>2 DEF Carries, Wanted, ForUs, Shown
    <3> HIDE DEF r
    <3>4. Chosen(Read(h + 1)) = Chosen(Read(h))
      <4>1. CASE ~Carries(r) BY <3>2, <4>1
      <4>2. CASE Carries(r)
        <5>1. PICK m \in Nat : m = Read(h) BY <3>2
        <5>2. Read(h + 1) = m + 1 /\ ~ForUs(truth.dgrams[m + 1]) BY <3>2, <3>3, <4>2, <5>1
        <5>3. Chosen(m + 1) = Chosen(m) BY <5>2, ChosenGrows
        <5>4. QED BY <5>1, <5>2, <5>3
      <4>3. QED BY <4>1, <4>2
    <3>5. QED BY <2>2, <3>1, <3>4
  <2>5. QED BY <1>4, <2>1, <2>3, <2>4
<1>13. CASE HandleUdp
  <2>1. PICK h \in Nat : /\ rec = h + 1 /\ h + 1 <= Len(file.records) /\ Handled = h /\ Handled' = h + 1
                         /\ pc = "pace" /\ pc' = "replay" /\ Current = file.records[h + 1]
    BY <1>11, <1>13
  <2> DEFINE r == file.records[h + 1]
             e == Shown(file.order, r)
  <2>2. seen' = Append(seen, e) /\ Wanted(Current.frame)
    <3>1. maybe_swap32(Current.ts) = InOrder(file.order, Current.ts) BY DEF maybe_swap32, InOrder
    <3>2. QED BY <1>13, <2>1, <3>1 DEF HandleUdp, Shown
  <2>3. IsSeq(seen) BY DEF SeenInv
  <2>4. IsSeq(seen') /\ pc' # "write" /\ pc' # "pace" /\ pc' # "done"
    <3> HIDE DEF e
    <3>1. QED BY <2>1, <2>2, <2>3, IsSeqFacts
  <2>5. ASSUME truth.framed PROVE Subsequence(seen', truth.dgrams, Chosen(Read(h + 1)))
    <3>1. Subsequence(seen, truth.dgrams, Chosen(Read(h))) /\ r.frame.len <= kFrameBuf
      BY <2>1, <2>5 DEF SeenInv
    <3>2. Carries(r) /\ ForUs(e) BY <2>1, <2>2, <3>1 DEF Carries, Wanted, ForUs, Shown
    <3>3. /\ Read(h) \in Nat /\ Read(h + 1) = Read(h) + 1 /\ truth.dgrams[Read(h) + 1] = e
      BY <2>1, <2>5, <3>2, NextRecord
    <3> HIDE DEF e, r
    <3>4. PICK m \in Nat : m = Read(h) BY <3>3
    <3>5. Chosen(m) \subseteq 1 .. m /\ Chosen(m + 1) = Chosen(m) \cup {m + 1}
      BY <3>2, <3>3, <3>4, ChosenGrows
    <3>6. Subsequence(Append(seen, truth.dgrams[m + 1]), truth.dgrams, Chosen(m) \cup {m + 1})
      BY <2>3, <3>1, <3>4, <3>5, SubsequenceGrows
    <3>7. QED BY <2>2, <3>3, <3>4, <3>5, <3>6
  <2>6. h + 1 \in Nat OBVIOUS
  <2>7. QED BY <1>4, <2>1, <2>4, <2>5, <2>6
<1>14. QED BY <1>6, <1>7, <1>8, <1>9, <1>10, <1>12, <1>13 DEF Replay

\* Every step keeps it.
LEMMA SeenStep ==
    ASSUME FileInv, FileInv', LinkInv, SeenInv, [NextPcap]_pcapVars PROVE SeenInv'
<1>1. CASE Open \/ Replay \/ ClockAdvance \/ UNCHANGED pcapVars BY <1>1, ReadingSees
<1>2. CASE \/ Generate \/ write_heartbeat \/ DiskFull
           \/ \E len \in BodyLens : write_mold_packet(len)
           \/ \E c \in Noise : Capture(c)
  <2>1. pc = "write" /\ UNCHANGED <<pc, rec, seen>>
    BY <1>2 DEF Generate, write_heartbeat, write_mold_packet, write_packet, Capture,
         AppendRecords, DiskFull, readVars
  <2>2. rec = 0 BY <2>1 DEF FileInv, ReadInv
  <2>3. QED BY <2>1, <2>2, WritingSees
<1>3. QED BY <1>1, <1>2 DEF NextPcap

\* At the start nothing is written and nothing seen.
LEMMA SeenInit == InitPcap => LinkInv /\ SeenInv
<1> SUFFICES ASSUME InitPcap PROVE LinkInv /\ SeenInv OBVIOUS
<1>1. <<>> \in Seq({}) /\ Len(<<>>) = 0 OBVIOUS
<1>2. IsSeq(<<>>) BY <1>1 DEF IsSeq
<1>3. /\ file.records = <<>> /\ truth.dgrams = <<>> /\ seen = <<>> /\ pc = "write" /\ rec = 0
  BY DEF InitPcap
<1>4. Positions(<<>>) = {} BY <1>1 DEF Positions
<1>5. Cardinality(Positions(<<>>)) = 0 BY <1>4, FS_EmptySet
<1>6. LinkInv BY <1>1, <1>2, <1>3, <1>4, <1>5 DEF LinkInv, FormsOK, Linked, Complete
<1>7. Chosen(Read(0)) = {} BY FileInit, NoneChosen
<1>8. Subsequence(<<>>, truth.dgrams, {}) BY SubsequenceOfNone
<1>9. SeenInv BY <1>2, <1>3, <1>7, <1>8 DEF SeenInv, Handled
<1>10. QED BY <1>6, <1>9

\* The records handled show datagrams of the stream; all of them, when the
\* file is complete and read to its end.
LEMMA ReadWithin ==
    ASSUME FileInv, LinkInv, truth.framed, NEW h \in Nat
    PROVE  /\ Len(truth.dgrams) \in Nat /\ Read(h) \in 0 .. Len(truth.dgrams)
           /\ ~file.full /\ h = Len(file.records) => Read(h) = Len(truth.dgrams)
<1> DEFINE P == Positions(file.records)
<1>1. IsSeq(file.records) /\ IsSeq(truth.dgrams) BY DEF FileInv, RecordsInv, RecordsOK, LinkInv
<1>2. /\ Len(file.records) \in Nat /\ Len(truth.dgrams) \in Nat
      /\ P \subseteq 1 .. Len(file.records) /\ Cardinality(P) \in Nat
  BY <1>1, PositionsFacts, IsSeqFacts
<1>3. Cardinality(P) <= Len(truth.dgrams) /\ (file.full \/ Cardinality(P) = Len(truth.dgrams))
  BY DEF LinkInv, Linked, Complete
<1> HIDE DEF P
<1>4. IsFiniteSet(P) /\ Upto(P, Len(file.records)) = P BY <1>2, UptoFacts
<1>5. Upto(P, h) \in SUBSET P BY DEF Upto
<1>6. Cardinality(Upto(P, h)) \in Nat /\ Cardinality(Upto(P, h)) <= Cardinality(P)
  BY <1>4, <1>5, FS_Subset, FS_CardinalityType
<1>7. Read(h) = Cardinality(Upto(P, h)) BY DEF Read, P
<1>8. QED BY <1>2, <1>3, <1>4, <1>6, <1>7

\* The datagrams shown by the records that were handled are the witness.
LEMMA RoundTripFromInv == FileInv /\ LinkInv /\ SeenInv => RoundTrip
<1> SUFFICES ASSUME FileInv, LinkInv, SeenInv, truth.framed
             PROVE  \E m \in 0 .. Len(truth.dgrams) :
                      /\ Subsequence(seen, truth.dgrams, {i \in 1 .. m : ForUs(truth.dgrams[i])})
                      /\ pc = "done" /\ Readable /\ ~file.full => m = Len(truth.dgrams)
  BY DEF RoundTrip
<1>1. PICK h \in Nat : h = Handled BY DEF Handled, FileInv, ReadInv
<1>2. PICK m \in 0 .. Len(truth.dgrams) : m = Read(h) BY ReadWithin
<1>3. Subsequence(seen, truth.dgrams, {i \in 1 .. m : ForUs(truth.dgrams[i])})
  BY <1>1, <1>2 DEF SeenInv, Chosen
<1>4. pc = "done" /\ Readable /\ ~file.full => m = Len(truth.dgrams)
  <2>1. HAVE pc = "done" /\ Readable /\ ~file.full
  <2>2. h = Len(file.records) BY <1>1, <2>1 DEF Handled, SeenInv
  <2>3. QED BY <1>2, <2>1, <2>2, ReadWithin
<1>5. QED BY <1>2, <1>3, <1>4

\* PcapWriter and PcapReader are inverse (pcap_replay.hpp): for every file,
\* in either byte order and with whatever else was captured, the callback
\* gets the datagrams written and captured for its port, in order and with
\* their stamps, and all of them once the file was written and read
\* completely, as long as no payload was too long for its frame.
THEOREM RoundTripCorrect == SpecPcap => []RoundTrip
<1>1. PcapInv => FileInv BY DEF PcapInv
<1>2. FileInv /\ LinkInv /\ SeenInv /\ [NextPcap]_pcapVars => LinkInv' /\ SeenInv'
  BY FileStep, LinkStep, SeenStep
<1>3. QED BY <1>1, <1>2, PcapInvariance, SeenInit, RoundTripFromInv, PTL DEF SpecPcap

-----------------------------------------------------------------------------
(* The stream with the gap that was asked for.                             *)

\* A whole datagram before the gap, one behind it, and one without messages.
Early(d) ==
    /\ d.seq_num \in Nat /\ d.msg_count \in Nat \ {0} /\ d.blocks = d.msg_count
    /\ d.seq_num >= 1 /\ d.seq_num + d.msg_count <= opt.gap_at
Late(d) ==
    /\ d.seq_num \in Nat /\ d.msg_count \in Nat \ {0}
    /\ d.seq_num >= opt.gap_at + opt.gap_len
Silent(d) == d \in {Bad, Heartbeat(0)}
After(d) == d.seq_num + d.msg_count

\* The first k of ds lead up to number n; one of them lies behind the gap.
Reaches(ds, k, n) == n = 1 \/ \E j \in 1 .. k : Early(ds[j].dgram) /\ After(ds[j].dgram) = n
Passed(ds, k) == \E j \in 1 .. k : Late(ds[j].dgram)

\* What may come after the first k: nothing new, the next before the gap, or,
\* once that is reached, the first behind it and more.
MayFollow(ds, k, w) ==
    \/ Silent(w.dgram)
    \/ /\ w.port = FeedPort /\ Early(w.dgram) /\ Reaches(ds, k, w.dgram.seq_num)
    \/ /\ w.port = FeedPort /\ Late(w.dgram) /\ Reaches(ds, k, opt.gap_at)
       /\ w.dgram.seq_num = opt.gap_at + opt.gap_len \/ Passed(ds, k)
Orderly(ds) == IsSeq(ds) /\ \A i \in 1 .. Len(ds) : MayFollow(ds, i - 1, ds[i])

\* The generator has come up to a packet's end before the gap, or past it.
BeforeGap ==
    /\ gen.seq = gen.msgs_written + 1 /\ gen.seq <= opt.gap_at
    /\ \E q \in Nat : gen.msgs_written = opt.msgs_per_pkt * q
    /\ Reaches(truth.dgrams, Len(truth.dgrams), gen.seq)
BehindGap ==
    /\ gen.seq >= opt.gap_at + opt.gap_len
    /\ Reaches(truth.dgrams, Len(truth.dgrams), opt.gap_at)
    /\ Passed(truth.dgrams, Len(truth.dgrams))
StreamInv ==
    /\ pc # "write" => gen.msgs_written >= opt.count
    /\ truth.own /\ GapIsAsked =>
         Orderly(truth.dgrams) /\ gen.seq \in Nat /\ (BeforeGap \/ BehindGap)

\* Only the first k matter for what follows them.
LEMMA PrefixMatters ==
    ASSUME NEW ds, NEW es, NEW k \in Nat, \A j \in 1 .. k : es[j] = ds[j]
    PROVE  /\ \A n : Reaches(es, k, n) <=> Reaches(ds, k, n)
           /\ Passed(es, k) <=> Passed(ds, k)
           /\ \A w : MayFollow(es, k, w) <=> MayFollow(ds, k, w)
<1>1. \A n : Reaches(es, k, n) <=> Reaches(ds, k, n) BY DEF Reaches
<1>2. Passed(es, k) <=> Passed(ds, k) BY DEF Passed
<1>3. QED BY <1>1, <1>2 DEF MayFollow

\* A datagram that may follow is added.
LEMMA OrderlyGrows ==
    ASSUME NEW ds, Orderly(ds), NEW w, MayFollow(ds, Len(ds), w)
    PROVE  LET es == Append(ds, w) IN
           /\ Orderly(es) /\ Len(es) = Len(ds) + 1 /\ Len(ds) \in Nat
           /\ \A n : Reaches(ds, Len(ds), n) => Reaches(es, Len(es), n)
           /\ Passed(ds, Len(ds)) => Passed(es, Len(es))
           /\ Early(w.dgram) => Reaches(es, Len(es), After(w.dgram))
           /\ Late(w.dgram) => Passed(es, Len(es))
           /\ \A v : v.dgram = w.dgram /\ v.port = w.port => MayFollow(es, Len(es), v)
<1> DEFINE es == Append(ds, w)
           m == Len(ds)
<1>1. IsSeq(ds) /\ \A i \in 1 .. m : MayFollow(ds, i - 1, ds[i]) BY DEF Orderly
<1>2. /\ m \in Nat /\ IsSeq(es) /\ Len(es) = m + 1 /\ es[m + 1] = w
      /\ \A k \in 1 .. m : es[k] = ds[k]
  BY <1>1, IsSeqFacts
<1> HIDE DEF es, m
<1>3. ASSUME NEW i \in 1 .. m + 1 PROVE MayFollow(es, i - 1, es[i])
  <2>1. PICK k \in Nat : k = i - 1 /\ k <= m BY <1>2
  <2>2. \A j \in 1 .. k : j \in 1 .. m BY <1>2, <2>1
  <2>3. \A j \in 1 .. k : es[j] = ds[j] BY <1>2, <2>2
  <2>4. MayFollow(ds, k, es[i])
    <3>1. CASE i = m + 1
      <4>1. k = m /\ es[i] = w BY <1>2, <2>1, <3>1
      <4>2. QED BY <4>1 DEF m
    <3>2. CASE i # m + 1
      <4>1. i \in 1 .. m BY <1>2, <3>2
      <4>2. QED BY <1>1, <1>2, <2>1, <4>1
    <3>3. QED BY <3>1, <3>2
  <2>5. MayFollow(es, k, es[i]) BY <2>3, <2>4, PrefixMatters
  <2>6. QED BY <2>1, <2>5
<1>4. Orderly(es) BY <1>2, <1>3 DEF Orderly
<1>5. m + 1 \in 1 .. m + 1 /\ \A j \in 1 .. m : j \in 1 .. m + 1 BY <1>2
<1>6. \A n : Reaches(ds, m, n) => Reaches(es, m + 1, n) BY <1>2, <1>5 DEF Reaches
<1>7. Passed(ds, m) => Passed(es, m + 1) BY <1>2, <1>5 DEF Passed
<1>8. Early(w.dgram) => Reaches(es, m + 1, After(w.dgram)) BY <1>2, <1>5 DEF Reaches
<1>9. Late(w.dgram) => Passed(es, m + 1) BY <1>2, <1>5 DEF Passed
<1>10. ASSUME NEW v, v.dgram = w.dgram, v.port = w.port PROVE MayFollow(es, m + 1, v)
  <2>1. MayFollow(ds, m, w) BY DEF m
  <2>2. QED BY <1>6, <1>7, <1>10, <2>1 DEF MayFollow
<1>11. QED BY <1>2, <1>4, <1>6, <1>7, <1>8, <1>9, <1>10 DEF es, m

\* What is added to the stream.
LEMMA AppendAdds ==
    ASSUME NEW new, NEW expected, NEW framed, NEW extra,
           AppendRecords(new, expected, framed, extra)
    PROVE  /\ truth'.dgrams = truth.dgrams \o expected /\ opt' = opt /\ pc' = pc
           /\ truth'.own =>
                /\ truth.own
                /\ extra = 0 \/ \A k \in DOMAIN expected : expected[k].dgram \in {Bad, Heartbeat(0)}
BY DEF AppendRecords, readVars

\* What write_packet adds to it.
LEMMA WriteAdds ==
    ASSUME IsSeq(truth.dgrams), NEW a, NEW b, NEW ws, NEW extra, write_packet(ws, extra)
    PROVE  /\ ws = <<a>> => truth'.dgrams = Append(truth.dgrams, WillShow(a))
           /\ ws = <<a, b>> =>
                truth'.dgrams = Append(Append(truth.dgrams, WillShow(a)), WillShow(b))
           /\ truth'.own => /\ truth.own
                            /\ extra = 0 \/ (ws = <<a>> => Silent(a.dgram))
           /\ opt' = opt /\ pc' = pc
<1> DEFINE exp == [k \in DOMAIN ws |-> [dgram |-> ws[k].dgram, ts |-> ws[k].ts, port |-> FeedPort]]
<1>1. /\ truth'.dgrams = truth.dgrams \o exp /\ opt' = opt /\ pc' = pc
      /\ truth'.own => /\ truth.own
                       /\ \/ extra = 0
                          \/ \A k \in DOMAIN exp : exp[k].dgram \in {Bad, Heartbeat(0)}
  <2>1. \E new, framed : AppendRecords(new, exp, framed, extra) BY DEF write_packet
  <2> HIDE DEF exp
  <2>2. QED BY <2>1, AppendAdds
<1>2. ASSUME ws = <<a>> PROVE exp = <<WillShow(a)>> /\ DOMAIN exp = {1} /\ exp[1] = WillShow(a)
  <2>1. DOMAIN ws = {1} /\ ws[1] = a BY <1>2
  <2>2. exp = [k \in {1} |-> WillShow(a)] BY <2>1 DEF WillShow
  <2>3. \A x : <<x>> = [k \in {1} |-> x] OBVIOUS
  <2>4. QED BY <2>2, <2>3
<1>3. ASSUME ws = <<a, b>> PROVE exp = <<WillShow(a), WillShow(b)>>
  <2>1. DOMAIN ws = {1, 2} /\ ws[1] = a /\ ws[2] = b BY <1>3
  <2>2. exp = [k \in {1, 2} |-> IF k = 1 THEN WillShow(a) ELSE WillShow(b)] BY <2>1 DEF WillShow
  <2>3. \A x, y : <<x, y>> = [k \in {1, 2} |-> IF k = 1 THEN x ELSE y] OBVIOUS
  <2> HIDE DEF exp
  <2>4. QED BY <2>2, <2>3
<1> HIDE DEF exp
<1>4. ws = <<a>> => truth'.dgrams = Append(truth.dgrams, WillShow(a))
  <2>1. \A x : truth.dgrams \o <<x>> = Append(truth.dgrams, x) BY ShortSeqs
  <2>2. QED BY <1>1, <1>2, <2>1
<1>5. ws = <<a, b>> =>
        truth'.dgrams = Append(Append(truth.dgrams, WillShow(a)), WillShow(b))
  <2>1. \A x, y : truth.dgrams \o <<x, y>> = Append(Append(truth.dgrams, x), y) BY ShortSeqs
  <2>2. QED BY <1>1, <1>3, <2>1
<1>6. truth'.own => /\ truth.own
                    /\ extra = 0 \/ (ws = <<a>> => Silent(a.dgram))
  BY <1>1, <1>2 DEF WillShow, Silent
<1>7. QED BY <1>1, <1>4, <1>5, <1>6

\* A datagram whose length does not wrap is whole.
LEMMA WholeDatagram ==
    ASSUME NEW seq, NEW n \in Nat, kMoldHeaderSize + n * BlockSize < U16
    PROVE  Datagram(seq, n, (kMoldHeaderSize + n * BlockSize) % U16)
             = [seq_num |-> seq, msg_count |-> n, blocks |-> n,
                kept |-> Min({n, kMaxPacketBytes \div BlockSize})]
<1>1. U16 \in Nat \ {0} BY PcapAssumption
<1>2. (kMoldHeaderSize + n * BlockSize) % U16 = kMoldHeaderSize + n * BlockSize
  <2>1. PICK x \in Nat : x = kMoldHeaderSize + n * BlockSize BY DEF kMoldHeaderSize, BlockSize
  <2>2. x < U16 BY <2>1
  <2>3. \A u \in Nat : x < u => x % u = x OBVIOUS
  <2>4. QED BY <1>1, <2>1, <2>2, <2>3
<1>3. ((kMoldHeaderSize + n * BlockSize) - kMoldHeaderSize) \div BlockSize = n
  BY DEF kMoldHeaderSize, BlockSize
<1>4. Min({n, n}) = n BY MinOfTwo
<1>5. ~(kMoldHeaderSize + n * BlockSize < kMoldHeaderSize) BY DEF kMoldHeaderSize, BlockSize
<1>6. QED BY <1>2, <1>3, <1>4, <1>5 DEF Datagram

\* The numbers of the next packet: up to the gap's start, from its end, on.
LEMMA NextPacket ==
    ASSUME FileInv, GapIsAsked, gen.seq \in Nat, BeforeGap \/ BehindGap,
           gen.msgs_written < opt.count
    PROVE  LET seq == SkipGap(gen.seq)
               n == Min({opt.msgs_per_pkt, opt.count - gen.msgs_written})
               g == opt.gap_at
               l == opt.gap_len IN
           /\ seq \in Nat /\ n \in Nat \ {0} /\ n <= opt.msgs_per_pkt
           /\ \/ /\ BeforeGap /\ seq = gen.seq /\ seq + n <= g
                 /\ seq + n = (gen.msgs_written + n) + 1
                 /\ \E q \in Nat : gen.msgs_written + n = opt.msgs_per_pkt * q
              \/ BeforeGap /\ gen.seq = g /\ seq = g + l
              \/ BehindGap /\ seq = gen.seq /\ seq >= g + l
<1> DEFINE seq == SkipGap(gen.seq)
           c == opt.msgs_per_pkt
           w == gen.msgs_written
           n == Min({c, opt.count - w})
           g == opt.gap_at
           l == opt.gap_len
<1>1. /\ opt.count \in Nat /\ c \in Nat \ {0} /\ w \in 0 .. opt.count
      /\ g \in Nat /\ l \in Nat
  BY PcapAssumption DEF FileInv, GenInv
<1>2. g \in 2 .. opt.count /\ l > 0 /\ (g - 1) % c = 0 BY DEF GapIsAsked, Straddles
<1>3. n = (IF c <= opt.count - w THEN c ELSE opt.count - w) /\ opt.count - w \in Nat \ {0}
  <2>1. opt.count - w \in Nat \ {0} BY <1>1
  <2>2. QED BY <1>1, <2>1, MinOfTwo
<1>4. n \in Nat \ {0} /\ n <= c BY <1>1, <1>3
<1>5. seq = IF g # 0 /\ gen.seq \in g .. g + l - 1 THEN gen.seq + l ELSE gen.seq BY DEF SkipGap
<1> HIDE DEF seq, n
<1>6. CASE BeforeGap /\ gen.seq # g
  <2>1. gen.seq = w + 1 /\ gen.seq < g BY <1>1, <1>6 DEF BeforeGap
  <2>2. PICK q \in Nat : w = c * q BY <1>6 DEF BeforeGap
  <2>3. g - 1 \in Nat BY <1>1, <1>2
  <2>4. PICK q0 \in Nat : g - 1 = c * q0
    <3>1. g - 1 = c * ((g - 1) \div c) + 0 /\ (g - 1) \div c \in Nat
      BY <1>1, <1>2, <2>3, Division
    <3>2. PICK z \in Nat : z = (g - 1) \div c BY <3>1
    <3>3. c * z \in Nat BY <1>1
    <3>4. g - 1 = c * z BY <3>1, <3>2, <3>3
    <3>5. QED BY <3>4
  <2>5. c * q < c * q0 BY <1>1, <2>1, <2>2, <2>4
  <2>6. c * q + c <= c * q0 BY <1>1, <2>5, MultiplesApart
  <2>7. w + c <= g - 1 BY <2>2, <2>4, <2>6
  <2>8. n = c BY <1>1, <1>2, <1>3, <2>7
  <2>9. w + n = c * (q + 1)
    <3>1. \A x, y \in Nat : x * y + x = x * (y + 1) OBVIOUS
    <3>2. QED BY <1>1, <2>2, <2>8, <3>1
  <2>10. seq = gen.seq BY <1>1, <1>5, <2>1
  <2>11. seq + n <= g /\ seq + n = (w + n) + 1 BY <1>1, <2>1, <2>7, <2>8, <2>10
  <2>12. q + 1 \in Nat OBVIOUS
  <2>13. QED BY <1>4, <1>6, <2>9, <2>10, <2>11, <2>12 DEF seq, n
<1>7. CASE BeforeGap /\ gen.seq = g
  <2>1. seq = g + l BY <1>1, <1>2, <1>5, <1>7
  <2>2. QED BY <1>1, <1>4, <1>7, <2>1 DEF seq, n
<1>8. CASE BehindGap
  <2>1. gen.seq >= g + l BY <1>8 DEF BehindGap
  <2>2. seq = gen.seq BY <1>1, <1>5, <2>1
  <2>3. QED BY <1>4, <1>8, <2>1, <2>2 DEF seq, n
<1>9. QED BY <1>6, <1>7, <1>8

\* The options stay as they are, so a stream may be judged before or after.
LEMMA OptionsStay ==
    ASSUME opt' = opt, NEW ds, NEW k, NEW n, NEW w
    PROVE  /\ Early(w)' <=> Early(w)
           /\ Late(w)' <=> Late(w)
           /\ Reaches(ds, k, n)' <=> Reaches(ds, k, n)
           /\ Passed(ds, k)' <=> Passed(ds, k)
           /\ MayFollow(ds, k, w)' <=> MayFollow(ds, k, w)
<1>1. \A d : Early(d)' <=> Early(d) BY DEF Early
<1>2. \A d : Late(d)' <=> Late(d) BY DEF Late
<1>3. Reaches(ds, k, n)' <=> Reaches(ds, k, n) BY <1>1 DEF Reaches, After
<1>4. Passed(ds, k)' <=> Passed(ds, k) BY <1>2 DEF Passed
<1>5. MayFollow(ds, k, w)' <=> MayFollow(ds, k, w)
  <2>1. \A x : Reaches(ds, k, x)' <=> Reaches(ds, k, x) BY <1>1 DEF Reaches, After
  <2>2. QED BY <1>1, <1>2, <1>4, <2>1 DEF MayFollow, Silent
<1>6. QED BY <1>1, <1>2, <1>3, <1>4, <1>5

\* So an orderly stream stays one.
LEMMA OrderlyStays ==
    ASSUME opt' = opt, NEW ds PROVE Orderly(ds)' <=> Orderly(ds)
<1>1. \A k, w : MayFollow(ds, k, w)' <=> MayFollow(ds, k, w) BY OptionsStay
<1>2. QED BY <1>1 DEF Orderly

\* A turn of gen_pcap's loop.
LEMMA GenerateStreams == ASSUME FileInv, StreamInv, Generate PROVE StreamInv'
<1> DEFINE seq  == SkipGap(gen.seq)
           n    == Min({opt.msgs_per_pkt, opt.count - gen.msgs_written})
           len  == (kMoldHeaderSize + n * BlockSize) % U16
           w(k) == [ts |-> gen.ts_us + k * opt.rate_us, len |-> len,
                    dgram |-> Datagram(seq, n, len)]
           ws   == IF opt.dup_at # 0 /\ seq = opt.dup_at THEN <<w(0), w(1)>> ELSE <<w(0)>>
           d    == [seq_num |-> seq, msg_count |-> n, blocks |-> n,
                    kept |-> Min({n, kMaxPacketBytes \div BlockSize})]
<1>1. /\ pc = "write" /\ gen.msgs_written < opt.count /\ write_packet(ws, 0)
      /\ gen'.seq = seq + n /\ gen'.msgs_written = gen.msgs_written + n
  BY DEF Generate
<1>2. opt' = opt /\ pc' = pc /\ (truth'.own => truth.own)
  BY <1>1 DEF write_packet, AppendRecords, readVars
<1>3. SUFFICES ASSUME truth'.own, GapIsAsked'
               PROVE  Orderly(truth.dgrams)' /\ gen'.seq \in Nat /\ (BeforeGap' \/ BehindGap')
  BY <1>1, <1>2 DEF StreamInv
<1>4. GapIsAsked BY <1>2, <1>3 DEF GapIsAsked, Straddles
<1>5. Orderly(truth.dgrams) /\ gen.seq \in Nat /\ (BeforeGap \/ BehindGap)
  BY <1>2, <1>3, <1>4 DEF StreamInv
<1>6. /\ seq \in Nat /\ n \in Nat \ {0} /\ n <= opt.msgs_per_pkt
      /\ \/ /\ BeforeGap /\ seq = gen.seq /\ seq + n <= opt.gap_at
            /\ seq + n = (gen.msgs_written + n) + 1
            /\ \E q \in Nat : gen.msgs_written + n = opt.msgs_per_pkt * q
         \/ BeforeGap /\ gen.seq = opt.gap_at /\ seq = opt.gap_at + opt.gap_len
         \/ BehindGap /\ seq = gen.seq /\ seq >= opt.gap_at + opt.gap_len
  BY <1>1, <1>4, <1>5, NextPacket
<1>7. opt.gap_at \in Nat /\ opt.gap_len \in Nat /\ opt.msgs_per_pkt \in Nat
  BY PcapAssumption DEF FileInv, GenInv
<1>8. Datagram(seq, n, len) = d
  <2>1. kMoldHeaderSize + opt.msgs_per_pkt * BlockSize < U16 BY <1>4 DEF GapIsAsked
  <2>2. U16 \in Nat BY PcapAssumption
  <2>3. kMoldHeaderSize + n * BlockSize < U16
    BY <1>6, <1>7, <2>1, <2>2 DEF kMoldHeaderSize, BlockSize
  <2> HIDE DEF seq, n
  <2>4. QED BY <1>6, <2>3, WholeDatagram
<1>9. \A k \in {0, 1} : WillShow(w(k)).dgram = d /\ WillShow(w(k)).port = FeedPort
  BY <1>8 DEF WillShow
<1> DEFINE x == WillShow(w(0))
           y == WillShow(w(1))
           ds == truth.dgrams
<1>10. x.dgram = d /\ y.dgram = d /\ x.port = FeedPort /\ y.port = FeedPort BY <1>9
<1>11. d.seq_num = seq /\ d.msg_count = n /\ d.blocks = n /\ After(d) = seq + n BY DEF After
<1>12. truth'.dgrams \in {Append(ds, x), Append(Append(ds, x), y)}
  <2>1. IsSeq(truth.dgrams) BY <1>5 DEF Orderly
  <2>2. ws = <<w(0)>> \/ ws = <<w(0), w(1)>> OBVIOUS
  <2> HIDE DEF ws, w
  <2>3. QED BY <1>1, <2>1, <2>2, WriteAdds
<1> HIDE DEF seq, n, d, x, y, ws, w, len
\* The packet may follow, and so may its copy.
<1>13. MayFollow(ds, Len(ds), x)
  <2>1. CASE BeforeGap /\ seq = gen.seq /\ seq + n <= opt.gap_at
             /\ seq + n = (gen.msgs_written + n) + 1
    <3>1. Reaches(ds, Len(ds), seq) BY <2>1 DEF BeforeGap
    <3>2. seq >= 1
      <4>1. gen.msgs_written \in Nat /\ gen.seq = gen.msgs_written + 1
        BY <2>1 DEF BeforeGap, FileInv, GenInv
      <4>2. QED BY <2>1, <4>1
    <3>3. Early(d) BY <1>6, <1>11, <2>1, <3>2 DEF Early
    <3>4. QED BY <1>10, <1>11, <3>1, <3>3 DEF MayFollow
  <2>2. CASE BeforeGap /\ gen.seq = opt.gap_at /\ seq = opt.gap_at + opt.gap_len
    <3>1. Reaches(ds, Len(ds), opt.gap_at) BY <2>2 DEF BeforeGap
    <3>2. Late(d) BY <1>6, <1>7, <1>11, <2>2 DEF Late
    <3>3. QED BY <1>10, <1>11, <2>2, <3>1, <3>2 DEF MayFollow
  <2>3. CASE BehindGap /\ seq >= opt.gap_at + opt.gap_len
    <3>1. Reaches(ds, Len(ds), opt.gap_at) /\ Passed(ds, Len(ds)) BY <2>3 DEF BehindGap
    <3>2. Late(d) BY <1>6, <1>11, <2>3 DEF Late
    <3>3. QED BY <1>10, <3>1, <3>2 DEF MayFollow
  <2>4. QED BY <1>6, <2>1, <2>2, <2>3
<1> DEFINE Grown(es) ==
             /\ Orderly(es)
             /\ \A k : Reaches(ds, Len(ds), k) => Reaches(es, Len(es), k)
             /\ Early(d) => Reaches(es, Len(es), After(d))
             /\ Late(d) => Passed(es, Len(es))
<1>14. Grown(Append(ds, x)) /\ MayFollow(Append(ds, x), Len(Append(ds, x)), y)
  BY <1>5, <1>10, <1>13, OrderlyGrows
<1>15. Grown(Append(Append(ds, x), y))
  <2> DEFINE es == Append(ds, x)
  <2>1. Grown(es) /\ MayFollow(es, Len(es), y) BY <1>14
  <2> HIDE DEF es
  <2>2. Grown(Append(es, y)) BY <1>10, <2>1, OrderlyGrows
  <2>3. QED BY <2>2 DEF es
<1>16. PICK es : es = truth'.dgrams /\ Grown(es) BY <1>12, <1>14, <1>15
<1> HIDE DEF ds
<1>17. Orderly(truth.dgrams)'
  <2>1. Orderly(es) BY <1>16
  <2>2. Orderly(es)' BY <1>2, <2>1, OrderlyStays
  <2>3. QED BY <1>16, <2>2
<1>18. \A k : Reaches(es, Len(es), k) => Reaches(truth.dgrams, Len(truth.dgrams), k)'
  <2>1. \A k : Reaches(es, Len(es), k)' <=> Reaches(es, Len(es), k) BY <1>2, OptionsStay
  <2>2. QED BY <1>16, <2>1
<1>19. Passed(es, Len(es)) => Passed(truth.dgrams, Len(truth.dgrams))'
  <2>1. Passed(es, Len(es))' <=> Passed(es, Len(es)) BY <1>2, OptionsStay
  <2>2. QED BY <1>16, <2>1
<1>20. gen'.seq \in Nat BY <1>1, <1>6
<1>21. BeforeGap' \/ BehindGap'
  <2>1. CASE /\ BeforeGap /\ seq = gen.seq /\ seq + n <= opt.gap_at
             /\ seq + n = (gen.msgs_written + n) + 1
             /\ \E q \in Nat : gen.msgs_written + n = opt.msgs_per_pkt * q
    <3>1. Early(d)
      <4>1. gen.msgs_written \in Nat /\ gen.seq = gen.msgs_written + 1
        BY <2>1 DEF BeforeGap, FileInv, GenInv
      <4>2. seq >= 1 BY <2>1, <4>1
      <4>3. QED BY <1>6, <1>11, <2>1, <4>2 DEF Early
    <3>2. Reaches(es, Len(es), seq + n) BY <1>11, <1>16, <3>1
    <3>3. BeforeGap'
      <4>1. PICK z \in Nat : z = seq + n BY <1>6
      <4>2. Reaches(truth.dgrams, Len(truth.dgrams), z)' BY <1>18, <3>2, <4>1
      <4>3. z = gen'.seq BY <1>1, <4>1
      <4>4. Reaches(truth.dgrams, Len(truth.dgrams), gen.seq)' BY <4>2, <4>3
      <4>5. QED BY <1>1, <1>2, <2>1, <4>4 DEF BeforeGap
    <3>4. QED BY <3>3
  <2>2. CASE \/ BeforeGap /\ gen.seq = opt.gap_at /\ seq = opt.gap_at + opt.gap_len
             \/ BehindGap /\ seq = gen.seq /\ seq >= opt.gap_at + opt.gap_len
    <3>1. seq >= opt.gap_at + opt.gap_len BY <1>7, <2>2
    <3>2. Late(d) BY <1>6, <1>11, <3>1 DEF Late
    <3>3. Reaches(ds, Len(ds), opt.gap_at) BY <2>2 DEF BeforeGap, BehindGap, ds
    <3>4. Reaches(es, Len(es), opt.gap_at) /\ Passed(es, Len(es)) BY <1>16, <3>2, <3>3
    <3>5. Passed(truth.dgrams, Len(truth.dgrams))' BY <1>19, <3>4
    <3>6. Reaches(truth.dgrams, Len(truth.dgrams), opt.gap_at)'
      <4>1. PICK z \in Nat : z = opt.gap_at BY <1>7
      <4>2. Reaches(truth.dgrams, Len(truth.dgrams), z)' BY <1>18, <3>4, <4>1
      <4>3. QED BY <1>2, <4>1, <4>2
    <3>7. gen'.seq >= opt.gap_at + opt.gap_len BY <1>1, <1>6, <1>7, <3>1
    <3>8. BehindGap' BY <1>2, <3>5, <3>6, <3>7 DEF BehindGap
    <3>9. QED BY <3>8
  <2>3. QED BY <1>6, <2>1, <2>2
<1>22. QED BY <1>17, <1>20, <1>21

\* What else is written or captured, when it carries no messages.
LEMMA OthersStream ==
    ASSUME FileInv, StreamInv, \/ write_heartbeat
                               \/ \E len \in BodyLens : write_mold_packet(len)
                               \/ \E c \in Noise : Capture(c)
    PROVE  StreamInv'
<1>0. opt' = opt /\ pc' = pc /\ pc = "write" /\ (truth'.own => truth.own)
  <2>1. pc = "write" /\ \E new, expected, framed, extra : AppendRecords(new, expected, framed, extra)
    BY DEF write_heartbeat, write_mold_packet, Capture, write_packet
  <2>2. QED BY <2>1, AppendAdds
<1>1. SUFFICES ASSUME truth'.own, GapIsAsked'
               PROVE  Orderly(truth.dgrams)' /\ gen'.seq \in Nat /\ (BeforeGap' \/ BehindGap')
  BY <1>0 DEF StreamInv
<1>2. GapIsAsked BY <1>0, <1>1 DEF GapIsAsked, Straddles
<1>3. Orderly(truth.dgrams) /\ gen.seq \in Nat /\ (BeforeGap \/ BehindGap)
  BY <1>0, <1>1, <1>2 DEF StreamInv
<1>4. IsSeq(truth.dgrams) BY <1>3 DEF Orderly
<1>5. \/ gen' = gen /\ truth'.dgrams = truth.dgrams
      \/ gen' = gen /\ \E v : Silent(v.dgram) /\ truth'.dgrams = Append(truth.dgrams, v)
  <2>1. CASE write_heartbeat
    <3> DEFINE a == [ts |-> gen.ts_us, len |-> kMoldHeaderSize, dgram |-> Heartbeat(0)]
    <3>1. gen' = gen /\ write_packet(<<a>>, 1) BY <2>1 DEF write_heartbeat
    <3>2. Silent(WillShow(a).dgram) BY DEF WillShow, Silent
    <3> HIDE DEF a
    <3>3. truth'.dgrams = Append(truth.dgrams, WillShow(a)) BY <1>4, <3>1, WriteAdds
    <3>4. QED BY <3>1, <3>2, <3>3
  <2>2. ASSUME NEW body_len \in BodyLens, write_mold_packet(body_len) PROVE FALSE
    <3> DEFINE b == Single(gen.seq, body_len)
               a == [ts |-> gen.ts_us, len |-> (kMoldHeaderSize + 2 + body_len) % U16, dgram |-> b]
    <3>1. write_packet(<<a>>, 1) BY <2>2 DEF write_mold_packet
    <3>2. a.dgram.msg_count = 1 BY DEF Single
    <3> HIDE DEF a
    <3>3. truth'.own => 1 = 0 \/ (<<a>> = <<a>> => Silent(a.dgram)) BY <1>4, <3>1, WriteAdds
    <3>4. QED BY <1>1, <3>2, <3>3 DEF Silent, Bad, Heartbeat
  <2>3. ASSUME NEW c \in Noise, Capture(c)
        PROVE  \/ gen' = gen /\ truth'.dgrams = truth.dgrams
               \/ gen' = gen /\ \E v : Silent(v.dgram) /\ truth'.dgrams = Append(truth.dgrams, v)
    <3> DEFINE v == [dgram |-> c.frame.dgram, ts |-> c.ts, port |-> c.frame.port]
               exp == IF c.udp THEN <<v>> ELSE <<>>
    <3>1. /\ gen' = gen /\ truth'.dgrams = truth.dgrams \o exp
          /\ \A k \in DOMAIN exp : exp[k].dgram \in {Bad, Heartbeat(0)}
      <4>1. gen' = gen /\ AppendRecords(<<Record(file.order, c.ts, c.frame)>>, exp, TRUE, 1)
        BY <2>3 DEF Capture
      <4> HIDE DEF exp
      <4>2. \E new, framed : AppendRecords(new, exp, framed, 1) BY <4>1
      <4>3. /\ truth'.dgrams = truth.dgrams \o exp
            /\ truth'.own => 1 = 0 \/ \A k \in DOMAIN exp : exp[k].dgram \in {Bad, Heartbeat(0)}
        BY <4>2, AppendAdds
      <4>4. QED BY <1>1, <4>1, <4>3
    <3> HIDE DEF v
    <3>2. CASE c.udp
      <4>1. exp = <<v>> /\ 1 \in DOMAIN exp /\ exp[1] = v BY <3>2
      <4> HIDE DEF exp
      <4>2. Silent(v.dgram) BY <3>1, <4>1 DEF Silent
      <4>3. \A x : truth.dgrams \o <<x>> = Append(truth.dgrams, x) BY <1>4, ShortSeqs
      <4>4. QED BY <3>1, <4>1, <4>2, <4>3
    <3>3. CASE ~c.udp
      <4>1. truth.dgrams \o <<>> = truth.dgrams BY <1>4, ShortSeqs
      <4>2. QED BY <3>1, <3>3, <4>1
    <3>4. QED BY <3>2, <3>3
  <2>4. QED BY <2>1, <2>2, <2>3
<1> DEFINE ds == truth.dgrams
<1>6. PICK es : /\ es = truth'.dgrams /\ Orderly(es)
                /\ \A k : Reaches(ds, Len(ds), k) => Reaches(es, Len(es), k)
                /\ Passed(ds, Len(ds)) => Passed(es, Len(es))
  <2>1. CASE truth'.dgrams = truth.dgrams BY <1>3, <2>1
  <2>2. ASSUME NEW v, Silent(v.dgram), truth'.dgrams = Append(ds, v)
        PROVE  /\ Orderly(Append(ds, v))
               /\ \A k : Reaches(ds, Len(ds), k) => Reaches(Append(ds, v), Len(Append(ds, v)), k)
               /\ Passed(ds, Len(ds)) => Passed(Append(ds, v), Len(Append(ds, v)))
    <3>1. MayFollow(ds, Len(ds), v) BY <2>2 DEF MayFollow
    <3> HIDE DEF ds
    <3>2. Orderly(ds) BY <1>3 DEF ds
    <3>3. QED BY <3>1, <3>2, OrderlyGrows
  <2>3. QED BY <1>5, <2>1, <2>2
<1>7. gen' = gen BY <1>5
<1>8. Orderly(truth.dgrams)'
  <2>1. Orderly(es)' BY <1>0, <1>6, OrderlyStays
  <2>2. QED BY <1>6, <2>1
<1>9. \A k : Reaches(ds, Len(ds), k) => Reaches(truth.dgrams, Len(truth.dgrams), k)'
  <2>1. \A k : Reaches(es, Len(es), k)' <=> Reaches(es, Len(es), k) BY <1>0, OptionsStay
  <2>2. QED BY <1>6, <2>1
<1>10. Passed(ds, Len(ds)) => Passed(truth.dgrams, Len(truth.dgrams))'
  <2>1. Passed(es, Len(es))' <=> Passed(es, Len(es)) BY <1>0, OptionsStay
  <2>2. QED BY <1>6, <2>1
<1>11. CASE BeforeGap
  <2>1. PICK z : z = gen.seq /\ Reaches(ds, Len(ds), z) BY <1>11 DEF BeforeGap
  <2>2. Reaches(truth.dgrams, Len(truth.dgrams), z)' BY <1>9, <2>1
  <2>3. Reaches(truth.dgrams, Len(truth.dgrams), gen.seq)' BY <1>7, <2>1, <2>2
  <2>4. BeforeGap' BY <1>0, <1>7, <1>11, <2>3 DEF BeforeGap
  <2>5. QED BY <1>3, <1>7, <1>8, <2>4
<1>12. CASE BehindGap
  <2>1. PICK z : z = opt.gap_at /\ Reaches(ds, Len(ds), z) BY <1>12 DEF BehindGap
  <2>2. Reaches(truth.dgrams, Len(truth.dgrams), z)' BY <1>9, <2>1
  <2>3. Reaches(truth.dgrams, Len(truth.dgrams), opt.gap_at)' BY <1>0, <2>1, <2>2
  <2>4. BehindGap' BY <1>0, <1>7, <1>10, <1>12, <2>3 DEF BehindGap
  <2>5. QED BY <1>3, <1>7, <1>8, <2>4
<1>13. QED BY <1>3, <1>11, <1>12

\* Every step keeps the stream.
LEMMA StreamStep == ASSUME FileInv, StreamInv, [NextPcap]_pcapVars PROVE StreamInv'
<1>1. ASSUME UNCHANGED <<opt, gen, truth>>, pc' # "write" => gen.msgs_written >= opt.count
      PROVE  StreamInv'
  <2>1. PICK ds : ds = truth.dgrams OBVIOUS
  <2>2. PICK z, g : z = gen.seq /\ g = opt.gap_at OBVIOUS
  <2>3. /\ Orderly(ds)' <=> Orderly(ds)
        /\ Reaches(ds, Len(ds), z)' <=> Reaches(ds, Len(ds), z)
        /\ Reaches(ds, Len(ds), g)' <=> Reaches(ds, Len(ds), g)
        /\ Passed(ds, Len(ds))' <=> Passed(ds, Len(ds))
    BY <1>1, OptionsStay, OrderlyStays
  <2>4. BeforeGap => BeforeGap' BY <1>1, <2>1, <2>2, <2>3 DEF BeforeGap
  <2>5. BehindGap => BehindGap' BY <1>1, <2>1, <2>2, <2>3 DEF BehindGap
  <2>6. Orderly(truth.dgrams) => Orderly(truth.dgrams)' BY <1>1, <2>1, <2>3
  <2>7. GapIsAsked' => GapIsAsked BY <1>1 DEF GapIsAsked, Straddles
  <2>8. QED BY <1>1, <2>4, <2>5, <2>6, <2>7 DEF StreamInv
<1>2. CASE Open
  BY <1>1, <1>2 DEF Open, writeVars
<1>3. CASE DiskFull \/ Replay \/ ClockAdvance \/ UNCHANGED pcapVars
  <2>1. UNCHANGED <<opt, gen, truth>> /\ (pc' # "write" => pc # "write")
    BY <1>3 DEF DiskFull, Replay, ReadEnd, SkipOversized, ReadRecord, HandleOther, HandleUdp, Reading,
         Handling, ClockAdvance, writeVars, readVars, pcapVars
  <2>2. QED BY <1>1, <2>1 DEF StreamInv
<1>4. QED BY <1>2, <1>3, GenerateStreams, OthersStream DEF NextPcap

\* At the start the stream is empty and the generator at number 1.
LEMMA StreamInit == InitPcap => StreamInv
<1> SUFFICES ASSUME InitPcap PROVE StreamInv OBVIOUS
<1>1. truth.dgrams = <<>> /\ gen = [seq |-> 1, ts_us |-> opt.ts_us, msgs_written |-> 0]
      /\ pc = "write" /\ opt \in Options
  BY DEF InitPcap
<1>2. <<>> \in Seq({}) /\ Len(<<>>) = 0 OBVIOUS
<1>3. Orderly(truth.dgrams) BY <1>1, <1>2 DEF Orderly, IsSeq
<1>4. GapIsAsked => BeforeGap
  <2>1. HAVE GapIsAsked
  <2>2. opt.gap_at \in 2 .. opt.count /\ opt.count \in Nat /\ opt.msgs_per_pkt \in Nat
    BY <1>1, <2>1, PcapAssumption DEF GapIsAsked
  <2>3. gen.msgs_written = opt.msgs_per_pkt * 0 BY <1>1, <2>2
  <2>4. gen.seq = 1 /\ gen.seq = gen.msgs_written + 1 /\ gen.seq <= opt.gap_at BY <1>1, <2>2
  <2>5. QED BY <2>3, <2>4 DEF BeforeGap, Reaches
<1>5. QED BY <1>1, <1>3, <1>4 DEF StreamInv

-----------------------------------------------------------------------------
(* What the buffer makes of that stream.                                   *)

Reported == {<<e.first, e.last>> : e \in gap_events}
NoGapYet == gap.start = 0 /\ gap_events = {} /\ stats.gaps = 0
GapFound ==
    /\ gap.start = opt.gap_at /\ next_expected = opt.gap_at /\ stats.gaps = 1
    /\ Reported = {<<opt.gap_at, opt.gap_at + opt.gap_len - 1>>}
RingBehindGap ==
    \A i \in 0 .. kCapacity - 1 :
        slots[i].occupied => slots[i].seq_num >= opt.gap_at + opt.gap_len

\* The buffer when it was given the first m of ds.
Heard(ds, m) ==
    /\ ~session_synced => (\A j \in 1 .. m : Silent(ds[j].dgram)) /\ NoGapYet
    /\ session_synced /\ synced_at # 0 =>
         /\ next_expected \in 1 .. opt.gap_at /\ RingBehindGap
         /\ \A j \in 1 .. m : Early(ds[j].dgram) => After(ds[j].dgram) <= next_expected
         /\ IF Passed(ds, m) THEN GapFound ELSE NoGapYet

\* A datagram without messages is neither before nor behind the gap.
LEMMA SilentIsNeither ==
    ASSUME NEW d PROVE Silent(d) => ~Early(d) /\ ~Late(d)
BY DEF Silent, Early, Late, Bad, Heartbeat

\* One more datagram has been looked at.
LEMMA OneMore ==
    ASSUME NEW ds, NEW m \in Nat
    PROVE  /\ Passed(ds, m + 1) <=> Passed(ds, m) \/ Late(ds[m + 1].dgram)
           /\ \A x : (\A j \in 1 .. m + 1 : Early(ds[j].dgram) => After(ds[j].dgram) <= x)
                <=> /\ \A j \in 1 .. m : Early(ds[j].dgram) => After(ds[j].dgram) <= x
                    /\ Early(ds[m + 1].dgram) => After(ds[m + 1].dgram) <= x
           /\ (\A j \in 1 .. m + 1 : Silent(ds[j].dgram))
                <=> (\A j \in 1 .. m : Silent(ds[j].dgram)) /\ Silent(ds[m + 1].dgram)
<1>1. \A j : j \in 1 .. m + 1 <=> j \in 1 .. m \/ j = m + 1 OBVIOUS
<1>2. Passed(ds, m + 1) <=> Passed(ds, m) \/ Late(ds[m + 1].dgram) BY <1>1 DEF Passed
<1>3. QED BY <1>1, <1>2

\* A flush that finds nothing changes nothing.
LEMMA NothingToFlush ==
    ASSUME NEW sl \in [0 .. kCapacity - 1 -> SlotType], NEW n \in Nat, ~Holds(sl, n)
    PROVE  AfterFlush(sl, n) = n /\ Drained(sl, n) = sl
<1>1. ChainClosed({}, sl, n) BY DEF ChainClosed
<1>2. Flushed(sl, n) = {} BY <1>1, FlushedIsLeast
<1>3. AfterFlush(sl, n) = Greatest({n}) BY <1>2 DEF AfterFlush
<1>4. Greatest({n}) = n BY DEF Greatest
<1>5. Drained(sl, n) = [i \in DOMAIN sl |-> sl[i]] BY <1>2 DEF Drained
<1>6. QED BY <1>3, <1>4, <1>5

\* A ring behind the gap holds nothing that a flush before it could use.
LEMMA RingIsOutOfReach ==
    ASSUME RingBehindGap, opt \in Options, GapIsAsked, NEW n \in Nat, n <= opt.gap_at
    PROVE  ~Holds(slots, n)
<1>1. opt.gap_at \in Nat /\ opt.gap_len \in Nat /\ opt.gap_len > 0
  BY PcapAssumption DEF GapIsAsked
<1>2. n % kCapacity \in 0 .. kCapacity - 1 BY IndexInRange
<1>3. QED BY <1>1, <1>2 DEF RingBehindGap, Holds, SlotOf

\* A heartbeat numbered 0 opens the session at 0, or changes nothing here.
LEMMA HeartbeatHeard ==
    ASSUME IInv, IInv', opt' = opt, NEW ds, NEW m \in Nat, Heard(ds, m),
           Silent(ds[m + 1].dgram), NEW t \in Timestamps, IngestHeartbeat(0, t)
    PROVE  Heard(ds, m + 1)'
<1>1. Sync(0) /\ next_expected' = Expected(0) /\ CheckGapTimeout(gap, slots, t)
      /\ slots' = slots /\ gap_events' = gap_events
  BY DEF IngestHeartbeat
<1>2. session_synced' = TRUE /\ (session_synced => Expected(0) = next_expected /\ synced_at' = synced_at)
  BY <1>1, SyncFacts
<1>3. CASE ~session_synced
  <2>1. NeedsSync BY <1>3 DEF NeedsSync, IInv, UnsyncedIsBlank
  <2>2. synced_at' = 0 BY <1>1, <2>1 DEF Sync
  <2>3. QED BY <1>2, <2>2 DEF Heard
<1>4. CASE session_synced /\ synced_at = 0
  BY <1>2, <1>4 DEF Heard
<1>5. CASE session_synced /\ synced_at # 0
  <2>1. next_expected' = next_expected /\ synced_at' = synced_at BY <1>1, <1>2, <1>5
  <2>2. gap \in TrackerType /\ stats \in StatsType BY DEF IInv, TypeOK, TrackerType
  <2>3. gap.start # 0 => gap.start = next_expected' BY <2>1 DEF IInv, TrackerAtHead
  <2>4. CheckGapTimeout(gap, slots', t) BY <1>1
  <2>5. gap'.start = gap.start
    <3>1. gap' = gap \/ gap' = [gap EXCEPT !.last_retx = t] BY <1>2, <2>2, <2>3, <2>4, GapIsKept
    <3>2. QED BY <2>2, <3>1 DEF TrackerType
  <2>6. stats'.gaps = stats.gaps BY <2>2 DEF IngestHeartbeat, StatsType
  <2>7. /\ NoGapYet' <=> NoGapYet
        /\ GapFound' <=> GapFound
        /\ RingBehindGap' <=> RingBehindGap
    BY <1>1, <2>1, <2>5, <2>6 DEF NoGapYet, GapFound, Reported, RingBehindGap
  <2>8. ~Early(ds[m + 1].dgram) /\ ~Late(ds[m + 1].dgram) BY SilentIsNeither
  <2>9. /\ next_expected \in 1 .. opt.gap_at /\ RingBehindGap
        /\ \A j \in 1 .. m + 1 : Early(ds[j].dgram) => After(ds[j].dgram) <= next_expected
        /\ IF Passed(ds, m + 1) THEN GapFound ELSE NoGapYet
    BY <1>5, <2>8, OneMore DEF Heard
  <2>10. \A d : Early(d)' <=> Early(d) BY OptionsStay
  <2>11. Passed(ds, m + 1)' <=> Passed(ds, m + 1) BY OptionsStay
  <2>12. \A j \in 1 .. m + 1 : (Early(ds[j].dgram) => After(ds[j].dgram) <= next_expected)'
    BY <2>1, <2>9, <2>10 DEF After
  <2>13. (IF Passed(ds, m + 1) THEN GapFound ELSE NoGapYet)' BY <2>7, <2>9, <2>11
  <2>14. next_expected' \in 1 .. opt'.gap_at /\ RingBehindGap' BY <2>1, <2>7, <2>9
  <2>15. QED BY <1>2, <2>12, <2>13, <2>14 DEF Heard
<1>6. QED BY <1>3, <1>4, <1>5

\* The state in which the next datagram is expected at n.
Ready(ds, m, n) ==
    /\ n \in 1 .. opt.gap_at /\ RingBehindGap
    /\ \A j \in 1 .. m : Early(ds[j].dgram) => After(ds[j].dgram) <= n
    /\ IF Passed(ds, m) THEN GapFound /\ n = opt.gap_at ELSE NoGapYet

\* A buffer that was given what it should is in it, before or after its sync.
LEMMA ReadyFacts ==
    ASSUME IInv, NEW ds, NEW m \in Nat, Heard(ds, m), NEW seq \in Nat,
           session_synced => synced_at # 0, ~session_synced => seq \in 1 .. opt.gap_at
    PROVE  Ready(ds, m, Expected(seq))
<1>1. CASE session_synced
  <2>1. Expected(seq) = next_expected BY <1>1 DEF Expected, NeedsSync
  <2>2. QED BY <1>1, <2>1 DEF Heard, Ready, GapFound
<1>2. CASE ~session_synced
  <2>1. Expected(seq) = seq BY <1>2 DEF Expected, NeedsSync, IInv, UnsyncedIsBlank
  <2>2. RingBehindGap BY <1>2 DEF RingBehindGap, IInv, TypeOK, UnsyncedIsBlank
  <2>3. (\A j \in 1 .. m : Silent(ds[j].dgram)) /\ NoGapYet BY <1>2 DEF Heard
  <2>4. \A j \in 1 .. m : ~Early(ds[j].dgram) /\ ~Late(ds[j].dgram) BY <2>3, SilentIsNeither
  <2>5. ~Passed(ds, m) BY <2>4 DEF Passed
  <2>6. QED BY <1>2, <2>1, <2>2, <2>3, <2>4, <2>5 DEF Ready
<1>3. QED BY <1>1, <1>2

\* And from such a state to the next.
LEMMA HeardFromReady ==
    ASSUME opt' = opt, NEW ds, NEW m \in Nat, session_synced', Ready(ds, m + 1, next_expected)'
    PROVE  Heard(ds, m + 1)'
BY DEF Ready, Heard

\* A session opened at 0 stays out of account.
LEMMA OpenedAtZero ==
    ASSUME NEW seq \in Nat, IInv, Sync(seq), session_synced, synced_at = 0, NEW ds, NEW m
    PROVE  Heard(ds, m)'
<1>1. session_synced' = TRUE /\ synced_at' = 0 BY SyncFacts
<1>2. QED BY <1>1 DEF Heard

\* A datagram before the gap is delivered or a duplicate.
LEMMA EarlyHeard ==
    ASSUME IInv, opt' = opt, opt \in Options, GapIsAsked, NEW ds, NEW m \in Nat, Heard(ds, m),
           NEW d \in Packets, d = ds[m + 1].dgram, Early(d), Reaches(ds, m, d.seq_num),
           NEW t \in Timestamps, Ingest(d, t)
    PROVE  Heard(ds, m + 1)'
<1> DEFINE n == Expected(d.seq_num)
           seq == d.seq_num
           g == opt.gap_at
<1>1. Receive(d, t) BY DEF Ingest, IngestDuplicate, IngestGap, IngestInOrder
<1>2. Sync(seq) /\ Counted(d) \in StatsType BY <1>1, ReceiveFacts DEF IInv
<1>3. /\ seq \in Nat /\ d.msg_count \in Nat \ {0} /\ d.blocks = d.msg_count
      /\ seq >= 1 /\ seq + d.msg_count <= g /\ g \in Nat /\ opt.gap_len \in Nat
  BY PcapAssumption DEF Early
<1>4. CASE session_synced /\ synced_at = 0 BY <1>2, <1>3, <1>4, OpenedAtZero
<1>5. CASE session_synced => synced_at # 0
  <2>1. seq \in 1 .. g BY <1>3
  <2>2. Ready(ds, m, n) BY <1>3, <1>5, <2>1, ReadyFacts
  <2>3. session_synced' = TRUE BY <1>2, <1>3, SyncFacts
  <2>4. n \in Nat /\ n >= 1 /\ n <= g BY <1>3, <2>2 DEF Ready
  <2>5. seq <= n
    <3>1. CASE seq = 1 BY <2>4, <3>1
    <3>2. CASE seq # 1
      <4>1. PICK j \in 1 .. m : Early(ds[j].dgram) /\ After(ds[j].dgram) = seq BY <3>2 DEF Reaches
      <4>2. QED BY <2>2, <4>1 DEF Ready
    <3>3. QED BY <3>1, <3>2
  <2>6. slots \in [0 .. kCapacity - 1 -> SlotType] /\ stats \in StatsType
    BY DEF IInv, TypeOK
  <2>7. /\ next_expected' \in Nat /\ next_expected' >= n /\ next_expected' <= g
        /\ next_expected' >= After(d)
        /\ slots' = slots /\ gap' = gap /\ gap_events' = gap_events /\ stats'.gaps = stats.gaps
    <3> HIDE DEF n
    <3>1. CASE IngestDuplicate(d, t)
      <4>1. /\ seq + d.msg_count - 1 < n /\ next_expected' = n
            /\ slots' = slots /\ gap' = gap /\ gap_events' = gap_events
            /\ stats' = [Counted(d) EXCEPT !.duplicates = @ + 1]
        BY <3>1 DEF IngestDuplicate, IsDuplicate, n
      <4>2. stats'.gaps = stats.gaps BY <2>6, <4>1 DEF Counted, StatsType
      <4>3. After(d) <= n BY <1>3, <2>4, <4>1 DEF After
      <4>4. QED BY <2>4, <4>1, <4>2, <4>3
    <3>2. CASE IngestInOrder(d, t)
      <4> DEFINE mid == AfterDelivery(seq, d.blocks, n)
      <4>1. /\ ~(seq + d.msg_count - 1 < n) /\ next_expected' = AfterFlush(slots, mid)
            /\ slots' = Drained(slots, mid) /\ gap_events' = gap_events /\ stats' = Counted(d)
            /\ gap' = IF gap.start # 0 /\ next_expected' > gap.start
                        THEN [gap EXCEPT !.start = 0] ELSE gap
        BY <3>2 DEF IngestInOrder, IsDuplicate, n
      <4>2. mid = After(d) /\ mid \in Nat /\ mid >= n /\ mid <= g
        <5>1. seq + d.blocks \in Nat /\ n <= seq + d.blocks BY <1>3, <2>4, <4>1
        <5>2. mid = seq + d.blocks BY <2>4, <5>1, GreatestOfTwo DEF AfterDelivery
        <5>3. QED BY <1>3, <5>1, <5>2 DEF After
      <4>3. ~Holds(slots, mid) BY <2>2, <4>2, RingIsOutOfReach DEF Ready
      <4> HIDE DEF mid
      <4>4. AfterFlush(slots, mid) = mid /\ Drained(slots, mid) = slots
        BY <2>6, <4>2, <4>3, NothingToFlush
      <4>5. stats'.gaps = stats.gaps BY <2>6, <4>1 DEF Counted, StatsType
      <4>6. gap.start # 0 => gap.start = g BY <2>2 DEF Ready, GapFound, NoGapYet
      <4>7. gap' = gap BY <1>3, <4>1, <4>2, <4>4, <4>6
      <4>8. QED BY <4>1, <4>2, <4>4, <4>5, <4>7
    <3>3. CASE IngestGap(d, t)
      <4>1. seq > n BY <3>3 DEF IngestGap, n
      <4>2. QED BY <1>3, <2>4, <2>5, <4>1
    <3>4. QED BY <3>1, <3>2, <3>3 DEF Ingest
  <2>8. ~Late(d)
    <3>1. \A x, y, z, k \in Nat : x + y <= z /\ y # 0 => ~(x >= z + k) OBVIOUS
    <3>2. ~(seq >= g + opt.gap_len) BY <1>3, <3>1
    <3>3. QED BY <3>2 DEF Late
  <2>9. /\ NoGapYet => NoGapYet'
        /\ GapFound /\ n = g => GapFound'
        /\ RingBehindGap => RingBehindGap'
    <3>1. n = g => next_expected' = g BY <1>3, <2>4, <2>7
    <3> HIDE DEF n
    <3>2. QED BY <2>7, <3>1 DEF NoGapYet, GapFound, Reported, RingBehindGap
  <2>10. /\ \A j \in 1 .. m + 1 : Early(ds[j].dgram) => After(ds[j].dgram) <= next_expected'
    <3>1. PICK x \in Nat : x = next_expected' /\ x >= n /\ x >= After(d) BY <2>7
    <3>2. \A j \in 1 .. m : Early(ds[j].dgram) => After(ds[j].dgram) <= x
      <4>1. SUFFICES ASSUME NEW j \in 1 .. m, Early(ds[j].dgram) PROVE After(ds[j].dgram) <= x
        OBVIOUS
      <4>2. After(ds[j].dgram) <= n BY <2>2, <4>1 DEF Ready
      <4>3. After(ds[j].dgram) \in Nat BY <4>1 DEF Early, After
      <4>4. QED BY <2>4, <3>1, <4>2, <4>3
    <3>3. After(d) \in Nat BY <1>3 DEF After
    <3>4. After(ds[m + 1].dgram) <= x BY <3>1, <3>3
    <3>5. QED BY <3>1, <3>2, <3>4, OneMore
  <2>11. Passed(ds, m + 1) <=> Passed(ds, m) BY <2>8, OneMore
  <2>12. \A c : Early(c)' <=> Early(c) BY OptionsStay
  <2>13. Passed(ds, m + 1)' <=> Passed(ds, m + 1) BY OptionsStay
  <2>14. IF Passed(ds, m) THEN GapFound /\ n = g ELSE NoGapYet BY <2>2 DEF Ready
  <2>15. (IF Passed(ds, m + 1) THEN GapFound /\ next_expected = opt.gap_at ELSE NoGapYet)'
    <3>1. GapFound' => next_expected' = opt'.gap_at BY DEF GapFound
    <3> HIDE DEF n, g
    <3>2. QED BY <2>9, <2>11, <2>13, <2>14, <3>1
  <2>16. next_expected' \in 1 .. opt'.gap_at BY <1>3, <2>4, <2>7
  <2>17. \A j \in 1 .. m + 1 : (Early(ds[j].dgram) => After(ds[j].dgram) <= next_expected)'
    BY <2>10, <2>12 DEF After
  <2>18. RingBehindGap' BY <2>2, <2>9 DEF Ready
  <2>19. Ready(ds, m + 1, next_expected)' BY <2>15, <2>16, <2>17, <2>18 DEF Ready
  <2>20. QED BY <2>3, <2>19, HeardFromReady
<1>6. QED BY <1>4, <1>5

\* A datagram behind the gap is buffered; the first of them opens the gap.
LEMMA LateHeard ==
    ASSUME IInv, IInv', opt' = opt, opt \in Options, GapIsAsked, NEW ds, NEW m \in Nat, Heard(ds, m),
           NEW d \in Packets, d = ds[m + 1].dgram, Late(d), Reaches(ds, m, opt.gap_at),
           d.seq_num = opt.gap_at + opt.gap_len \/ Passed(ds, m),
           NEW t \in Timestamps, Ingest(d, t)
    PROVE  Heard(ds, m + 1)'
<1> DEFINE seq == d.seq_num
           g == opt.gap_at
           l == opt.gap_len
<1>1. Receive(d, t) BY DEF Ingest, IngestDuplicate, IngestGap, IngestInOrder
<1>2. Sync(seq) /\ Counted(d) \in StatsType BY <1>1, ReceiveFacts DEF IInv
<1>3. /\ seq \in Nat /\ d.msg_count \in Nat \ {0} /\ seq >= g + l
      /\ g \in Nat /\ g >= 2 /\ l \in Nat /\ l > 0
  <2>1. opt.count \in Nat /\ g \in Nat /\ l \in Nat BY PcapAssumption
  <2>2. QED BY <2>1 DEF Late, GapIsAsked
<1>4. CASE session_synced /\ synced_at = 0 BY <1>2, <1>3, <1>4, OpenedAtZero
<1>5. CASE session_synced => synced_at # 0
  <2>1. PICK i \in 1 .. m : Early(ds[i].dgram) /\ After(ds[i].dgram) = g BY <1>3 DEF Reaches
  <2>2. session_synced
    <3>1. SUFFICES ASSUME ~session_synced PROVE FALSE OBVIOUS
    <3>2. Silent(ds[i].dgram) BY <3>1 DEF Heard
    <3>3. QED BY <2>1, <3>2, SilentIsNeither
  <2>3. Expected(seq) = next_expected BY <2>2 DEF Expected, NeedsSync
  <2>4. Ready(ds, m, next_expected) BY <1>3, <1>5, <2>2, <2>3, ReadyFacts
  <2>5. next_expected = g
    <3>1. g <= next_expected /\ next_expected \in 1 .. g BY <2>1, <2>4 DEF Ready
    <3>2. QED BY <1>3, <3>1
  <2>6. IngestGap(d, t)
    <3>1. seq > g BY <1>3
    <3>2. ~IsDuplicate(d) BY <1>3, <2>3, <2>5 DEF IsDuplicate
    <3>3. ~IngestInOrder(d, t) BY <1>3, <2>3, <2>5, <3>1 DEF IngestInOrder
    <3>4. QED BY <3>2, <3>3 DEF Ingest, IngestDuplicate
  <2> DEFINE tr == Tracking(gap, g, t)
  <2>7. /\ next_expected' = g /\ slots' = Buffered(slots, d, t)
        /\ CheckGapTimeout(tr, slots', t)
        /\ gap_events' = IF gap.start # 0 THEN gap_events
                         ELSE gap_events \cup
                           {[n |-> stats.gaps, first |-> g, last |-> seq - 1, at |-> t]}
    BY <2>3, <2>5, <2>6 DEF IngestGap
  <2>8. session_synced' = TRUE BY <1>2, <1>3, SyncFacts
  <2>9. slots \in [0 .. kCapacity - 1 -> SlotType] /\ stats \in StatsType /\ gap \in TrackerType
        /\ stats.gaps \in Nat /\ t \in Nat
    <3>1. t \in Nat BY TimeAssumption
    <3>2. stats \in StatsType BY DEF IInv, TypeOK
    <3>3. stats.gaps \in Nat BY <3>2 DEF StatsType
    <3>4. QED BY <3>1, <3>2, <3>3 DEF IInv, TypeOK, TrackerType
  <2>10. stats'.gaps = stats.gaps + (IF gap.start = 0 THEN 1 ELSE 0)
    BY <2>6, <2>9 DEF IngestGap, Counted, StatsType
  <2>11. gap.start \in {0, g} BY <2>4 DEF Ready, GapFound, NoGapYet
  <2>12. tr \in TrackerType /\ tr.start = g
    <3>1. CASE gap.start = 0
      <4>1. tr = [start |-> g, detected_at |-> t, last_retx |-> 0] BY <3>1 DEF Tracking
      <4>2. QED BY <1>3, <2>9, <4>1 DEF TrackerType
    <3>2. CASE gap.start = g
      <4>1. tr = gap BY <1>3, <3>2 DEF Tracking
      <4>2. QED BY <2>9, <3>2, <4>1
    <3>3. QED BY <2>11, <3>1, <3>2
  <2>13. gap'.start = g
    <3> HIDE DEF tr
    <3>1. gap' = tr \/ gap' = [tr EXCEPT !.last_retx = t] BY <2>7, <2>8, <2>12, GapIsKept
    <3>2. QED BY <2>12, <3>1 DEF TrackerType
  <2>14. RingBehindGap'
    <3>1. ASSUME NEW k \in 0 .. kCapacity - 1, slots'[k].occupied
          PROVE  slots'[k].seq_num >= g + l
      <4>1. slots'[k] = slots[k] \/ slots'[k] = Stored(d, t) BY <2>7, <2>9, BufferedFacts
      <4>2. CASE slots'[k] = slots[k] BY <2>4, <3>1, <4>2 DEF Ready, RingBehindGap
      <4>3. CASE slots'[k] = Stored(d, t) BY <1>3, <4>3 DEF Stored
      <4>4. QED BY <4>1, <4>2, <4>3
    <3>2. QED BY <3>1 DEF RingBehindGap
  <2>15. stats'.gaps = 1 /\ Reported' = {<<g, g + l - 1>>}
    <3>1. CASE Passed(ds, m)
      <4>1. GapFound BY <2>4, <3>1 DEF Ready
      <4>2. gap.start # 0 BY <1>3, <4>1 DEF GapFound
      <4>3. QED BY <2>7, <2>9, <2>10, <4>1, <4>2 DEF GapFound, Reported
    <3>2. CASE ~Passed(ds, m)
      <4>1. NoGapYet /\ seq = g + l BY <2>4, <3>2 DEF Ready
      <4>2. gap_events' = {[n |-> stats.gaps, first |-> g, last |-> seq - 1, at |-> t]}
        BY <2>7, <4>1 DEF NoGapYet
      <4>3. Reported' = {<<g, seq - 1>>} BY <4>2 DEF Reported
      <4>4. stats'.gaps = 1 BY <2>10, <4>1 DEF NoGapYet
      <4>5. PICK z \in Nat : z = seq - 1 /\ z = g + l - 1 BY <1>3, <4>1
      <4>6. Reported' = {<<g, z>>} BY <4>3, <4>5
      <4>7. Reported' = {<<g, g + l - 1>>} BY <4>5, <4>6
      <4>8. QED BY <4>4, <4>7
    <3>3. QED BY <3>1, <3>2
  <2>16. GapFound' BY <2>7, <2>13, <2>15 DEF GapFound
  <2>17. ~Early(d)
    <3>1. \A x, y, z, k \in Nat : x + y <= z /\ y # 0 => ~(x >= z + k) OBVIOUS
    <3>2. QED BY <1>3, <3>1 DEF Early
  <2>18. \A j \in 1 .. m + 1 : Early(ds[j].dgram) => After(ds[j].dgram) <= g
    <3>1. \A j \in 1 .. m : Early(ds[j].dgram) => After(ds[j].dgram) <= g BY <2>4, <2>5 DEF Ready
    <3>2. QED BY <2>17, <3>1, OneMore
  <2>19. \A c : Early(c)' <=> Early(c) BY OptionsStay
  <2>20. Passed(ds, m + 1)
    <3>1. m + 1 \in 1 .. m + 1 OBVIOUS
    <3>2. QED BY <3>1 DEF Passed
  <2>21. Passed(ds, m + 1)' BY <2>20, OptionsStay
  <2>22. \A j \in 1 .. m + 1 : (Early(ds[j].dgram) => After(ds[j].dgram) <= next_expected)'
    BY <2>7, <2>18, <2>19 DEF After
  <2>23. next_expected' \in 1 .. opt'.gap_at /\ next_expected' = opt'.gap_at BY <1>3, <2>7
  <2>24. Ready(ds, m + 1, next_expected)' BY <2>14, <2>16, <2>21, <2>22, <2>23 DEF Ready
  <2>25. QED BY <2>8, <2>24, HeardFromReady
<1>6. QED BY <1>4, <1>5

\* Whatever may follow is heard.
LEMMA NextHeard ==
    ASSUME IInv, IInv', opt' = opt, opt \in Options, GapIsAsked, NEW ds, NEW m \in Nat, Heard(ds, m),
           NEW d, d = ds[m + 1].dgram, MayFollow(ds, m, ds[m + 1]),
           NEW t \in Timestamps, IngestDatagram(d, t)
    PROVE  Heard(ds, m + 1)'
<1>1. \A p \in Packets : p.msg_count # 0 BY InputAssumption DEF PacketType
<1>2. CASE d = Bad
  <2>1. Bad \notin Packets /\ \A h : Bad # Heartbeat(h) BY <1>1 DEF Bad, Heartbeat
  <2>2. UNCHANGED vars BY <1>2, <2>1 DEF IngestDatagram
  <2>3. Silent(d) BY <1>2 DEF Silent
  <2>4. ~Early(d) /\ ~Late(d) BY <2>3, SilentIsNeither
  <2>5. Heard(ds, m + 1) BY <2>3, <2>4, OneMore DEF Heard
  <2>6. \A c : Early(c)' <=> Early(c) BY OptionsStay
  <2>7. Passed(ds, m + 1)' <=> Passed(ds, m + 1) BY OptionsStay
  <2>8. /\ session_synced' = session_synced /\ synced_at' = synced_at
        /\ next_expected' = next_expected /\ slots' = slots /\ gap' = gap
        /\ gap_events' = gap_events /\ stats' = stats
    BY <2>2 DEF vars, history
  <2>9. (NoGapYet' <=> NoGapYet) /\ (GapFound' <=> GapFound) /\ (RingBehindGap' <=> RingBehindGap)
    BY <2>8 DEF NoGapYet, GapFound, Reported, RingBehindGap
  <2>10. QED BY <2>5, <2>6, <2>7, <2>8, <2>9 DEF Heard, Silent, After
<1>3. CASE d = Heartbeat(0)
  <2>1. d \notin Packets /\ d # Bad BY <1>1, <1>3 DEF Bad, Heartbeat
  <2>2. \A h : d = Heartbeat(h) => h = 0 BY <1>3 DEF Heartbeat
  <2>3. IngestHeartbeat(0, t) BY <2>1, <2>2 DEF IngestDatagram
  <2>4. Silent(d) BY <1>3 DEF Silent
  <2>5. QED BY <2>3, <2>4, HeartbeatHeard
<1>4. CASE ~Silent(d)
  <2>1. \/ Early(d) /\ Reaches(ds, m, d.seq_num)
        \/ /\ Late(d) /\ Reaches(ds, m, opt.gap_at)
           /\ d.seq_num = opt.gap_at + opt.gap_len \/ Passed(ds, m)
    BY <1>4 DEF MayFollow
  <2>2. d.msg_count # 0 BY <2>1 DEF Early, Late
  <2>3. d # Bad /\ \A h : d # Heartbeat(h) BY <2>2 DEF Bad, Heartbeat
  <2>4. d \in Packets /\ Ingest(d, t) BY <2>3 DEF IngestDatagram
  <2>5. QED BY <2>1, <2>4, EarlyHeard, LateHeard
<1>5. QED BY <1>2, <1>3, <1>4 DEF Silent

\* A replay of gen_pcap's file, by the program's own port or any.
Alone == truth.own /\ truth.framed /\ GapIsAsked /\ cfg.filter_port \in {0, FeedPort}

\* The buffer is as it should be after the datagrams handled.
HeardInv ==
    /\ pc = "write" => ~session_synced /\ NoGapYet
    /\ Alone => Heard(truth.dgrams, Read(Handled))

\* Steps that leave the buffer alone.
LEMMA HeardStays ==
    ASSUME UNCHANGED <<vars, opt>>, NEW ds, NEW m PROVE Heard(ds, m)' <=> Heard(ds, m)
<1>1. \A c : Early(c)' <=> Early(c) BY OptionsStay
<1>2. Passed(ds, m)' <=> Passed(ds, m) BY OptionsStay
<1>3. /\ session_synced' = session_synced /\ synced_at' = synced_at
      /\ next_expected' = next_expected /\ slots' = slots /\ gap' = gap
      /\ gap_events' = gap_events /\ stats' = stats
  BY DEF vars, history
<1>4. (NoGapYet' <=> NoGapYet) /\ (GapFound' <=> GapFound) /\ (RingBehindGap' <=> RingBehindGap)
  BY <1>3 DEF NoGapYet, GapFound, Reported, RingBehindGap
<1>5. QED BY <1>1, <1>2, <1>3, <1>4 DEF Heard, Silent, After

\* Writing leaves the buffer blank.
LEMMA WritingHears ==
    ASSUME FileInv', HeardInv, pc = "write", pc' = "write", rec' = 0, UNCHANGED vars
    PROVE  HeardInv'
<1>1. ~session_synced' /\ NoGapYet'
  BY DEF HeardInv, NoGapYet, vars, history
<1>2. Handled' = 0 BY DEF Handled
<1>3. Read(0)' = 0
  <2>1. IsSeq(file'.records) BY DEF FileInv, RecordsInv, RecordsOK
  <2>2. PICK rs : rs = file'.records /\ IsSeq(rs) BY <2>1
  <2>3. Len(rs) \in Nat /\ Positions(rs) \subseteq 1 .. Len(rs) BY <2>2, PositionsFacts
  <2>4. Upto(Positions(rs), 0) = {} BY <2>3, UptoFacts
  <2>5. Cardinality(Upto(Positions(rs), 0)) = 0 BY <2>4, FS_EmptySet
  <2>6. QED BY <2>2, <2>5 DEF Read, Positions, Carries, extract_udp, Remaining, Upto
<1>4. Read(Handled)' = 0 BY <1>2, <1>3 DEF Read
<1>5. Heard(truth.dgrams, 0)'
  <2>1. \A j \in 1 .. 0 : FALSE OBVIOUS
  <2>2. QED BY <1>1, <2>1 DEF Heard
<1>6. QED BY <1>1, <1>4, <1>5 DEF HeardInv

\* Reading hands the buffer one datagram after the other.
LEMMA ReadingHears ==
    ASSUME PcapInv, PcapInv', LinkInv, SeenInv, StreamInv, HeardInv,
           Open \/ Replay \/ ClockAdvance \/ UNCHANGED pcapVars
    PROVE  HeardInv'
<1>1. UNCHANGED <<file, truth, cfg, opt>>
  BY DEF Open, Replay, ReadEnd, SkipOversized, ReadRecord, HandleOther, HandleUdp, Reading,
         Handling, ClockAdvance, writeVars, readVars, pcapVars
<1>2. /\ FileInv /\ IInv /\ IInv' /\ opt \in Options
      /\ rec \in Nat /\ rec <= Len(file.records) /\ Len(file.records) \in Nat
      /\ pc = "pace" => rec # 0
  BY IsSeqFacts DEF PcapInv, FileInv, GenInv, ReadInv, RecordsInv, RecordsOK
<1>3. PICK ds : ds = truth.dgrams OBVIOUS
<1>4. (Alone' <=> Alone) /\ \A h : Read(h)' = Read(h)
  BY <1>1 DEF Alone, GapIsAsked, Straddles, Read
<1>5. ASSUME pc' = "write" => pc = "write" /\ UNCHANGED vars,
             Alone => \E h, m : Handled' = h /\ Read(h) = m /\ Heard(ds, m)'
      PROVE  HeardInv'
  <2>1. pc' = "write" => ~session_synced' /\ NoGapYet'
    BY <1>5 DEF HeardInv, NoGapYet, vars, history
  <2>2. ASSUME Alone PROVE Heard(truth.dgrams, Read(Handled))'
    <3>1. PICK h, m : Handled' = h /\ Read(h) = m /\ Heard(ds, m)' BY <1>5, <2>2
    <3>2. Read(Handled)' = m BY <1>1, <3>1 DEF Read
    <3>3. QED BY <1>1, <1>3, <3>1, <3>2
  <2>3. QED BY <1>4, <2>1, <2>2 DEF HeardInv
<1>6. ASSUME UNCHANGED vars, pc' = "write" => pc = "write",
             NEW h, NEW k, Handled = k, Handled' = h, Alone => Read(h) = Read(k)
      PROVE  HeardInv'
  <2>1. ASSUME Alone PROVE \E m : Read(h) = m /\ Heard(ds, m)'
    <3>1. PICK m : m = Read(k) OBVIOUS
    <3>2. Heard(ds, m) BY <1>3, <1>6, <2>1, <3>1 DEF HeardInv
    <3>3. Heard(ds, m)' BY <1>1, <1>6, <3>2, HeardStays
    <3>4. QED BY <1>6, <2>1, <3>1, <3>3
  <2>2. QED BY <1>5, <1>6, <2>1
<1>7. CASE Open \/ ReadEnd \/ ReadRecord \/ ClockAdvance \/ UNCHANGED pcapVars
  <2>1. /\ UNCHANGED vars /\ (pc' = "write" => pc = "write")
        /\ Handled' = Handled
    <3>1. CASE Open BY <3>1 DEF Open, Handled
    <3>2. CASE ReadEnd BY <3>2 DEF ReadEnd, Reading, Handled
    <3>3. CASE ReadRecord
      <4>1. UNCHANGED vars /\ pc = "replay" /\ pc' = "pace" /\ rec' = rec + 1
        BY <3>3 DEF ReadRecord, Reading
      <4>2. QED BY <1>2, <4>1 DEF Handled
    <3>4. CASE ClockAdvance \/ UNCHANGED pcapVars
      BY <3>4 DEF ClockAdvance, pcapVars, readVars, Handled
    <3>5. QED BY <1>7, <3>1, <3>2, <3>3, <3>4
  <2>2. PICK h : h = Handled OBVIOUS
  <2>3. QED BY <1>6, <2>1, <2>2
<1>8. CASE SkipOversized
  <2>1. /\ UNCHANGED vars /\ pc = "replay" /\ pc' = pc /\ rec' = rec + 1
        /\ rec < Len(file.records) /\ Incl > kFrameBuf
    BY <1>8 DEF SkipOversized, Reading
  <2>2. Handled' = rec + 1 /\ Handled = rec BY <2>1 DEF Handled
  <2>3. ASSUME truth.framed PROVE Read(rec + 1) = Read(rec)
    <3>1. rec + 1 \in 1 .. Len(file.records) /\ rec + 1 <= Len(file.records) BY <1>2, <2>1
    <3>2. Incl = Following.frame.len /\ Following.frame.len \in Nat
      BY <1>2, <2>3, <3>1, StoredLength DEF Incl, Following
    <3>3. kFrameBuf \in Nat BY PcapAssumption
    <3>4. ~Carries(file.records[rec + 1]) BY <2>1, <3>2, <3>3 DEF Carries, Following
    <3>5. QED BY <1>2, <2>3, <3>1, <3>4, NextRecord
  <2>4. PICK k \in Nat : k = rec BY <1>2
  <2>5. Alone => Read(k + 1) = Read(k) BY <2>3, <2>4 DEF Alone
  <2>6. pc' = "write" => pc = "write" BY <2>1
  <2>7. QED BY <1>6, <2>1, <2>2, <2>4, <2>5, <2>6
\* The record in hand is the next one.
<1>9. ASSUME HandleOther \/ HandleUdp
      PROVE  /\ pc = "pace" /\ pc' = "replay"
             /\ \E h \in Nat : /\ rec = h + 1 /\ h + 1 <= Len(file.records)
                               /\ Handled = h /\ Handled' = h + 1 /\ Current = file.records[h + 1]
  <2>1. pc = "pace" /\ pc' = "replay" /\ rec' = rec
    BY <1>9 DEF HandleOther, HandleUdp, Handling
  <2>2. PICK h \in Nat : rec = h + 1
    <3>1. rec - 1 \in Nat /\ rec = (rec - 1) + 1 BY <1>2, <2>1
    <3>2. QED BY <3>1
  <2>3. Handled = h /\ Handled' = h + 1 BY <2>1, <2>2 DEF Handled
  <2>4. QED BY <1>2, <2>1, <2>2, <2>3 DEF Current
\* If it shows a datagram, that is the next of the stream and may follow.
<1>10. ASSUME Alone, NEW h \in Nat, h + 1 <= Len(file.records), Handled = h,
              Carries(file.records[h + 1])
       PROVE  \E m \in Nat : /\ Read(h) = m /\ Read(h + 1) = m + 1 /\ Heard(ds, m)
                             /\ ds[m + 1] = Shown(file.order, file.records[h + 1])
                             /\ MayFollow(ds, m, ds[m + 1]) /\ GapIsAsked
  <2>1. truth.framed /\ truth.own /\ GapIsAsked BY <1>10 DEF Alone
  <2>2. /\ Read(h) \in Nat /\ Read(h + 1) = Read(h) + 1
        /\ truth.dgrams[Read(h) + 1] = Shown(file.order, file.records[h + 1])
    BY <1>2, <1>10, <2>1, NextRecord
  <2>3. PICK m \in Nat : m = Read(h) BY <2>2
  <2>4. h + 1 \in Nat OBVIOUS
  <2>5. m + 1 \in 0 .. Len(ds) /\ Len(ds) \in Nat BY <1>2, <1>3, <2>1, <2>2, <2>3, <2>4, ReadWithin
  <2>6. m + 1 \in 1 .. Len(ds) /\ (m + 1) - 1 = m BY <2>5
  <2>7. Orderly(ds) BY <1>3, <2>1 DEF StreamInv
  <2>8. MayFollow(ds, m, ds[m + 1]) BY <2>6, <2>7 DEF Orderly
  <2>9. Heard(ds, m) BY <1>3, <1>10, <2>3 DEF HeardInv
  <2>10. QED BY <1>3, <2>1, <2>2, <2>3, <2>8, <2>9
<1>11. CASE HandleOther
  <2>1. PICK h \in Nat : /\ rec = h + 1 /\ h + 1 <= Len(file.records)
                         /\ Handled = h /\ Handled' = h + 1 /\ Current = file.records[h + 1]
    BY <1>9, <1>11
  <2>2. UNCHANGED vars /\ ~Wanted(Current.frame) BY <1>11 DEF HandleOther
  <2>3. pc' # "write" BY <1>9, <1>11
  <2>4. CASE ~Carries(file.records[h + 1])
    <3>1. truth.framed => Read(h + 1) = Read(h) BY <1>2, <2>1, <2>4, NextRecord
    <3>2. Alone => Read(h + 1) = Read(h) BY <3>1 DEF Alone
    <3>3. QED BY <1>6, <2>1, <2>2, <2>3, <3>2
  <2>5. CASE Carries(file.records[h + 1])
    <3>1. ASSUME Alone PROVE \E m : Read(h + 1) = m /\ Heard(ds, m)'
      <4>1. PICK m \in Nat : /\ Read(h) = m /\ Read(h + 1) = m + 1 /\ Heard(ds, m)
                             /\ ds[m + 1] = Shown(file.order, file.records[h + 1])
                             /\ MayFollow(ds, m, ds[m + 1])
        BY <1>10, <2>1, <2>5, <3>1
      <4>2. ds[m + 1].port # FeedPort
        BY <2>1, <2>2, <2>5, <3>1, <4>1 DEF Carries, Wanted, Shown, Alone
      <4>3. Silent(ds[m + 1].dgram) BY <4>1, <4>2 DEF MayFollow
      <4>4. ~Early(ds[m + 1].dgram) /\ ~Late(ds[m + 1].dgram) BY <4>3, SilentIsNeither
      <4>5. Heard(ds, m + 1) BY <4>1, <4>3, <4>4, OneMore DEF Heard
      <4>6. Heard(ds, m + 1)' BY <1>1, <2>2, <4>5, HeardStays
      <4>7. QED BY <4>1, <4>6
    <3>2. QED BY <1>5, <2>1, <2>3, <3>1
  <2>6. QED BY <2>4, <2>5
<1>12. CASE HandleUdp
  <2>1. PICK h \in Nat : /\ rec = h + 1 /\ h + 1 <= Len(file.records)
                         /\ Handled = h /\ Handled' = h + 1 /\ Current = file.records[h + 1]
    BY <1>9, <1>12
  <2>2. pc = "pace" /\ pc' # "write" BY <1>9, <1>12
  <2>3. Wanted(Current.frame) /\ IngestDatagram(Current.frame.dgram, ToNs(maybe_swap32(Current.ts)))
    BY <1>12 DEF HandleUdp
  <2>4. PICK t \in Timestamps : t = ToNs(maybe_swap32(Current.ts)) BY <1>2, <2>2, CurrentStamp
  <2>5. ASSUME Alone PROVE \E m : Read(h + 1) = m /\ Heard(ds, m)'
    <3>1. Carries(file.records[h + 1])
      <4>1. Current.frame.len <= kFrameBuf BY <2>2, <2>5 DEF SeenInv, Alone
      <4>2. QED BY <2>1, <2>3, <4>1 DEF Carries, Wanted
    <3>2. PICK m \in Nat : /\ Read(h) = m /\ Read(h + 1) = m + 1 /\ Heard(ds, m)
                           /\ ds[m + 1] = Shown(file.order, file.records[h + 1])
                           /\ MayFollow(ds, m, ds[m + 1]) /\ GapIsAsked
      BY <1>10, <2>1, <2>5, <3>1
    <3>3. PICK d : d = ds[m + 1].dgram /\ d = Current.frame.dgram BY <2>1, <3>2 DEF Shown
    <3>4. IngestDatagram(d, t)
      <4>1. \A e, u : e = Current.frame.dgram /\ u = ToNs(maybe_swap32(Current.ts))
                        => (IngestDatagram(e, u) <=>
                              IngestDatagram(Current.frame.dgram, ToNs(maybe_swap32(Current.ts))))
        OBVIOUS
      <4>2. QED BY <2>3, <2>4, <3>3, <4>1
    <3>5. opt' = opt BY <1>1
    <3>6. Heard(ds, m + 1)' BY <1>2, <3>2, <3>3, <3>4, <3>5, NextHeard
    <3>7. QED BY <3>2, <3>6
  <2>6. QED BY <1>5, <2>1, <2>2, <2>5
<1>13. QED BY <1>7, <1>8, <1>11, <1>12 DEF Replay

\* Every step keeps it.
LEMMA HeardStep ==
    ASSUME PcapInv, PcapInv', LinkInv, SeenInv, StreamInv, HeardInv, [NextPcap]_pcapVars
    PROVE  HeardInv'
<1>1. CASE Open \/ Replay \/ ClockAdvance \/ UNCHANGED pcapVars BY <1>1, ReadingHears
<1>2. CASE \/ Generate \/ write_heartbeat \/ DiskFull
           \/ \E len \in BodyLens : write_mold_packet(len)
           \/ \E c \in Noise : Capture(c)
  <2>1. pc = "write" /\ pc' = pc /\ rec' = rec /\ UNCHANGED vars
    BY <1>2 DEF Generate, write_heartbeat, write_mold_packet, write_packet, Capture,
         AppendRecords, DiskFull, readVars
  <2>2. rec' = 0 /\ FileInv' BY <2>1 DEF PcapInv, FileInv, ReadInv
  <2>3. QED BY <2>1, <2>2, WritingHears
<1>3. QED BY <1>1, <1>2 DEF NextPcap

\* At the start the buffer is blank.
LEMMA HeardInit == InitPcap => HeardInv
<1> SUFFICES ASSUME InitPcap PROVE HeardInv OBVIOUS
<1>1. ~session_synced /\ NoGapYet /\ pc = "write" /\ rec = 0 /\ file.records = <<>>
  BY DEF InitPcap, Init, NoGapYet
<1>2. Len(<<>>) = 0 OBVIOUS
<1>3. Upto(Positions(<<>>), 0) = {} BY <1>2 DEF Upto, Positions
<1>4. Read(Handled) = 0 BY <1>1, <1>3, FS_EmptySet DEF Read, Handled
<1>5. Heard(truth.dgrams, 0)
  <2>1. \A j \in 1 .. 0 : FALSE OBVIOUS
  <2>2. QED BY <1>1, <2>1 DEF Heard
<1>6. QED BY <1>1, <1>4, <1>5 DEF HeardInv

\* At the end everything was heard, and some of it lies behind the gap.
LEMMA GapAsAskedFromInv ==
    PcapInv /\ LinkInv /\ SeenInv /\ StreamInv /\ HeardInv => GapAsAsked
<1> SUFFICES ASSUME PcapInv, LinkInv, SeenInv, StreamInv, HeardInv, pc = "done", Readable,
                    ~file.full, truth.framed, truth.own, GapIsAsked,
                    cfg.filter_port \in {0, FeedPort}, synced_at # 0
             PROVE  GapFound
  BY DEF GapAsAsked, GapFound, Reported
<1>1. FileInv /\ IInv BY DEF PcapInv
<1>2. PICK h \in Nat : h = Handled /\ h = Len(file.records)
  BY <1>1 DEF Handled, SeenInv, FileInv, ReadInv
<1>3. Read(Handled) = Len(truth.dgrams) BY <1>1, <1>2, ReadWithin
<1>4. Heard(truth.dgrams, Len(truth.dgrams)) BY <1>3 DEF HeardInv, Alone
<1>5. session_synced BY <1>1 DEF IInv, UnsyncedIsBlank
<1>6. Passed(truth.dgrams, Len(truth.dgrams))
  <2>1. gen.msgs_written >= opt.count /\ (BeforeGap \/ BehindGap) BY DEF StreamInv
  <2>2. opt.gap_at \in 2 .. opt.count /\ opt.count \in Nat /\ gen.msgs_written \in 0 .. opt.count
    BY <1>1, PcapAssumption DEF GapIsAsked, FileInv, GenInv
  <2>3. ~BeforeGap BY <2>1, <2>2 DEF BeforeGap
  <2>4. QED BY <2>1, <2>3 DEF BehindGap
<1>7. QED BY <1>4, <1>5, <1>6 DEF Heard

\* gen_pcap --gap-at S --gap-len L, replayed (gen_pcap.cpp:9-10, docs/
\* loss-handling.md:144): for every command line whose packets do not
\* straddle S and fit their length field, in either byte order, among
\* heartbeats and other traffic without messages, the sequencer reports the
\* gap S .. S + L - 1 and no other, and waits at S, unless a heartbeat opened
\* the session.
THEOREM GapAsAskedCorrect == SpecPcap => []GapAsAsked
<1> DEFINE Inv == LinkInv /\ SeenInv /\ StreamInv /\ HeardInv
<1>1. InitPcap => Inv BY SeenInit, StreamInit, HeardInit
<1>2. PcapInv /\ Inv /\ [NextPcap]_pcapVars => Inv'
  <2>1. SUFFICES ASSUME PcapInv, Inv, [NextPcap]_pcapVars PROVE Inv' OBVIOUS
  <2>2. PcapInv' BY <2>1, PcapStep
  <2>3. FileInv /\ FileInv' BY <2>1, <2>2 DEF PcapInv
  <2>4. LinkInv' /\ SeenInv' BY <2>1, <2>3, LinkStep, SeenStep
  <2>5. StreamInv' BY <2>1, <2>3, StreamStep
  <2>6. HeardInv' BY <2>1, <2>2, HeardStep
  <2>7. QED BY <2>4, <2>5, <2>6
<1>3. PcapInv /\ Inv => GapAsAsked BY GapAsAskedFromInv
<1>4. QED BY <1>1, <1>2, <1>3, PcapInvariance, PTL DEF SpecPcap

=============================================================================

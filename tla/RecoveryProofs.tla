--------------------------- MODULE RecoveryProofs ---------------------------
(***************************************************************************)
(* Theorems about the recovery loop, for every stream, ring, timing and    *)
(* pattern of losses, delays and lost answers: it runs the buffer of       *)
(* GapBuffer, and no request reaches beyond what an arrival has shown to   *)
(* exist.  (That losses are made good in the end is liveness: TLC's.)      *)
(***************************************************************************)
EXTENDS Recovery, GapBufferProofs

Indices == 1 .. Len(Stream)

\* The stream is one, its numbers and its end are what heartbeats carry.
LEMMA StreamFacts ==
    /\ IsStream(Stream) /\ Len(Stream) \in Nat /\ 1 \in Indices
    /\ \A k \in Indices : /\ Stream[k] \in Packets /\ Stream[k].seq_num \in HeartbeatSeqs
                          /\ EndOfPacket(Stream[k]) \in HeartbeatSeqs
<1>1. IsStream(Stream) BY RecoveryAssumption DEF IsStream, EndOfPacket
<1>2. Len(Stream) \in Nat /\ 1 \in Indices BY RecoveryAssumption DEF Indices
<1>3. QED BY <1>1, <1>2, RecoveryAssumption, StreamPacket DEF Indices, EndOfPacket

-----------------------------------------------------------------------------
(* The loop runs the buffer.                                               *)

\* What is on its way is of the stream, and the caller's clock is in range.
NetInv ==
    /\ pos \in 1 .. Len(Stream) + 1 /\ now \in Timestamps
    /\ late \subseteq Indices /\ answers \in [Indices -> Nat]
    /\ \A r \in received : OfStream(Stream, r.pkt)

\* A call with a datagram of the stream.
FromStream == \E k \in Indices : Ingest(Stream[k], now)

\* What a step of the loop does to the buffer and to the network.
LEMMA LoopShape ==
    ASSUME NetInv, NextRecovery
    PROVE  /\ \/ FromStream
              \/ UNCHANGED vars
              \/ \E t \in Timestamps :
                    Tick(t) \/ \E h \in HeartbeatSeqs : IngestHeartbeat(h, t)
           /\ pos' \in 1 .. Len(Stream) + 1 /\ now' \in Timestamps
           /\ late' \subseteq Indices /\ answers' \in [Indices -> Nat]
<1>0. Len(Stream) \in Nat /\ 1 \in Indices BY StreamFacts
<1>1. ASSUME NEW left \in [Indices -> Nat], Answering(left) PROVE answers' \in [Indices -> Nat]
  <2>1. \A k \in Indices : left[k] + (IF k \in Resent THEN 1 ELSE 0) \in Nat OBVIOUS
  <2>2. QED BY <1>1, <2>1 DEF Answering, Indices
<1>2. CASE Publish
  <2>1. pos \in Indices /\ pos' \in 1 .. Len(Stream) + 1 /\ now' = now
    BY <1>0, <1>2 DEF Publish, NetInv, Indices
  <2>2. CASE Ingest(Stream[pos], now) /\ Answering(answers) /\ UNCHANGED <<lost, late>>
    BY <1>1, <2>1, <2>2 DEF FromStream, NetInv
  <2>3. CASE UNCHANGED <<vars, answers, late>> BY <2>1, <2>3 DEF NetInv
  <2>4. CASE late' = late \cup {pos} /\ UNCHANGED <<vars, answers>>
    BY <2>1, <2>4 DEF NetInv
  <2>5. QED BY <1>2, <2>2, <2>3, <2>4 DEF Publish
<1>3. CASE SendHeartbeat
  <2>1. NextSeq \in HeartbeatSeqs
    <3>1. CASE pos = 1 BY <1>0, <3>1, StreamFacts DEF NextSeq
    <3>2. CASE pos # 1
      <4>1. pos - 1 \in Indices BY <1>0, <3>2 DEF NetInv, Indices
      <4>2. QED BY <3>2, <4>1, StreamFacts DEF NextSeq, EndOfPacket
    <3>3. QED BY <3>1, <3>2
  <2>2. QED BY <1>1, <1>3, <2>1 DEF SendHeartbeat, NetInv
<1>4. CASE TickNext
  <2>1. (IF now = TimeMod - 1 THEN 1 ELSE now + 1) \in Timestamps
    BY RecoveryAssumption, TimeAssumption DEF NetInv
  <2>2. QED BY <1>1, <1>4, <2>1 DEF TickNext, NetInv
<1>5. ASSUME NEW k \in Indices, AnswerArrives(k) \/ AnswerLost(k) \/ LateArrives(k)
      PROVE  /\ FromStream \/ UNCHANGED vars
             /\ pos' = pos /\ now' = now /\ late' \subseteq Indices /\ answers' \in [Indices -> Nat]
  <2>1. answers[k] > 0 => OneLess(k) \in [Indices -> Nat] BY DEF OneLess, NetInv
  <2>2. CASE AnswerArrives(k)
    BY <1>1, <2>1, <2>2 DEF AnswerArrives, FromStream, NetInv
  <2>3. CASE AnswerLost(k) BY <2>1, <2>3 DEF AnswerLost, NetInv
  <2>4. CASE LateArrives(k) BY <1>1, <2>4 DEF LateArrives, FromStream, NetInv
  <2>5. QED BY <1>5, <2>2, <2>3, <2>4
<1>6. QED BY <1>2, <1>3, <1>4, <1>5 DEF NextRecovery, NetInv, Indices

\* So every step is a call of the buffer or leaves it alone.
LEMMA LoopStep ==
    ASSUME IInv, NetInv, [NextRecovery]_recoveryVars
    PROVE  NetInv' /\ [Next]_vars
<1>1. CASE UNCHANGED recoveryVars
  BY <1>1 DEF recoveryVars, netVars, vars, history, NetInv
<1>2. CASE NextRecovery
  <2>1. /\ \/ FromStream \/ UNCHANGED vars
           \/ \E t \in Timestamps : Tick(t) \/ \E h \in HeartbeatSeqs : IngestHeartbeat(h, t)
        /\ pos' \in 1 .. Len(Stream) + 1 /\ now' \in Timestamps
        /\ late' \subseteq Indices /\ answers' \in [Indices -> Nat]
    BY <1>2, LoopShape
  <2>2. CASE FromStream
    <3>1. PICK k \in Indices : Ingest(Stream[k], now) BY <2>2 DEF FromStream
    <3>2. Stream[k] \in Packets /\ now \in Timestamps BY StreamFacts DEF NetInv
    <3>3. received' = received \cup {[pkt |-> Stream[k], at |-> now]}
      BY <3>1, <3>2, IngestReceives
    <3>4. \A r \in received' : OfStream(Stream, r.pkt)
      BY <3>3 DEF NetInv, OfStream, Indices
    <3>5. QED BY <2>1, <3>1, <3>2, <3>4 DEF NetInv, Next
  <2>3. CASE UNCHANGED vars BY <2>1, <2>3 DEF vars, history, NetInv
  <2>4. ASSUME NEW t \in Timestamps, Tick(t) PROVE NetInv' /\ [Next]_vars
    BY <2>1, <2>4 DEF Tick, NetInv, Next
  <2>5. ASSUME NEW t \in Timestamps, NEW h \in HeartbeatSeqs, IngestHeartbeat(h, t)
        PROVE  NetInv' /\ [Next]_vars
    BY <2>1, <2>5 DEF IngestHeartbeat, NetInv, Next
  <2>6. QED BY <2>1, <2>2, <2>3, <2>4, <2>5
<1>3. QED BY <1>1, <1>2

RecoveryInv == IInv /\ FramedInv /\ NetInv

\* The buffer's invariants hold in the loop, whose feed is uniform.
LEMMA RecoveryInvStep ==
    ASSUME RecoveryInv, [NextRecovery]_recoveryVars
    PROVE  RecoveryInv' /\ [Next]_vars /\ Uniform(PacketsOf(received'))
<1>1. NetInv' /\ [Next]_vars BY LoopStep DEF RecoveryInv
<1>2. IInv' BY <1>1, NextIInv DEF RecoveryInv
<1>3. Uniform(PacketsOf(received')) BY <1>1, StreamFacts, StreamIsUniform DEF NetInv
<1>4. FramedInv' BY <1>1, <1>2, <1>3, FramedStep DEF RecoveryInv
<1>5. QED BY <1>1, <1>2, <1>3, <1>4 DEF RecoveryInv

\* They hold in every reachable state.
LEMMA RecoveryInvariance == SpecRecovery => []RecoveryInv
<1>1. InitRecovery => RecoveryInv
  <2>1. InitRecovery => NetInv
    <3>1. 1 \in Timestamps BY RecoveryAssumption, TimeAssumption
    <3>2. 1 \in 1 .. Len(Stream) + 1 BY StreamFacts
    <3>3. QED BY <3>1, <3>2 DEF InitRecovery, Init, NetInv, Indices
  <2>2. QED BY <2>1, InitIInv, InitFramed DEF RecoveryInv, InitRecovery
<1>2. RecoveryInv /\ [NextRecovery]_recoveryVars => RecoveryInv' BY RecoveryInvStep
<1>3. QED BY <1>1, <1>2, PTL DEF SpecRecovery

\* The loop runs the buffer of GapBuffer: every theorem about Spec holds of it.
THEOREM RecoveryUsesTheBuffer == SpecRecovery => Spec
<1>1. InitRecovery => Init BY DEF InitRecovery
<1>2. RecoveryInv /\ [NextRecovery]_recoveryVars => [Next]_vars BY RecoveryInvStep
<1>3. QED BY <1>1, <1>2, RecoveryInvariance, PTL DEF SpecRecovery, Spec

-----------------------------------------------------------------------------
(* Requests.                                                               *)

\* While a gap is tracked something from beyond it waits in the ring.
ShownInv ==
    /\ gap.start # 0 => \E i \in DOMAIN slots : slots[i].occupied
    /\ AsksForWhatWasShown

\* An in-order datagram of a uniform feed always moves the expected number, so
\* it always closes the gap.
LEMMA InOrderClosesGap ==
    ASSUME IInv, NEW p \in Packets, NEW t \in Timestamps, IngestInOrder(p, t), IsWhole(p)
    PROVE  gap'.start = 0
<1> DEFINE n == Expected(p.seq_num)
           mid == AfterDelivery(p.seq_num, p.blocks, n)
<1>1. p.seq_num \in Nat /\ p.msg_count \in Nat /\ p.blocks \in Nat /\ Sync(p.seq_num)
  BY ReceiveFacts DEF IngestInOrder, IInv
<1>2. n \in Nat /\ (gap.start # 0 => gap.start = n) BY <1>1, SyncFacts
<1>3. /\ next_expected' = AfterFlush(slots, mid)
      /\ ~(p.seq_num + p.msg_count - 1 < n)
      /\ gap' = IF gap.start # 0 /\ next_expected' > gap.start
                  THEN [gap EXCEPT !.start = 0] ELSE gap
  BY DEF IngestInOrder, IsDuplicate
<1> HIDE DEF n
<1>4. mid = Greatest({n, p.seq_num + p.blocks}) BY DEF AfterDelivery
<1>5. p.blocks = p.msg_count BY DEF IsWhole
<1>6. mid \in Nat /\ mid > n BY <1>1, <1>2, <1>3, <1>4, <1>5, GreatestOfTwo
<1> HIDE DEF mid
<1>7. RingUpTo(slots, MaxSeq + mid) /\ mid <= MaxSeq + mid /\ MaxSeq + mid \in Nat
  BY <1>6, RingIsBounded
<1>8. AfterFlush(slots, mid) \in Nat /\ mid <= AfterFlush(slots, mid)
  BY <1>6, <1>7, FlushChain
<1>9. next_expected' > n BY <1>2, <1>3, <1>6, <1>8
<1>10. gap \in [start : Nat, detected_at : Nat, last_retx : Nat] BY DEF IInv, TypeOK
<1>11. CASE gap.start = 0 BY <1>3, <1>11
<1>12. CASE gap.start # 0
  <2>1. next_expected' > gap.start BY <1>2, <1>9, <1>12
  <2>2. gap' = [gap EXCEPT !.start = 0] BY <1>3, <1>12, <2>1
  <2>3. QED BY <1>10, <2>2
<1>13. QED BY <1>11, <1>12

\* A gap that is tracked after a call has something buffered beyond it.
LEMMA TrackedIsBuffered ==
    ASSUME IInv, IInv', ShownInv, Next, Uniform(PacketsOf(received')), gap'.start # 0
    PROVE  \E i \in DOMAIN slots' : slots'[i].occupied
<1>0. /\ gap \in TrackerType /\ stats \in StatsType /\ requests \subseteq RequestType
      /\ slots \in [0 .. kCapacity - 1 -> SlotType]
  BY DEF IInv, TypeOK, TrackerType, RequestType
<1>1. CASE slots' = slots /\ gap'.start \in {0, gap.start} BY <1>1 DEF ShownInv
<1>2. ASSUME NEW t \in Timestamps, NEW h \in HeartbeatSeqs, IngestHeartbeat(h, t)
      PROVE  slots' = slots /\ gap'.start \in {0, gap.start}
  BY <1>0, <1>2, CheckGapTimeoutFacts DEF IngestHeartbeat
<1>3. ASSUME NEW t \in Timestamps, Tick(t)
      PROVE  slots' = slots /\ gap'.start \in {0, gap.start}
  BY <1>0, <1>3, CheckGapTimeoutFacts DEF Tick
<1>4. ASSUME NEW t \in Timestamps, NEW p \in Packets, IngestDuplicate(p, t)
      PROVE  slots' = slots /\ gap'.start \in {0, gap.start}
  BY <1>4 DEF IngestDuplicate
<1>5. ASSUME NEW t \in Timestamps, NEW p \in Packets, IngestInOrder(p, t) PROVE FALSE
  <2>1. received' = received \cup {[pkt |-> p, at |-> t]}
    BY <1>5, IngestReceives DEF Ingest
  <2>2. [pkt |-> p, at |-> t] \in received' /\ [pkt |-> p, at |-> t].pkt = p BY <2>1
  <2>3. p \in PacketsOf(received') BY <2>2 DEF PacketsOf
  <2>4. IsWhole(p) BY <2>3 DEF Uniform
  <2>5. QED BY <1>5, <2>4, InOrderClosesGap
<1>6. ASSUME NEW t \in Timestamps, NEW p \in Packets, IngestGap(p, t)
      PROVE  \E i \in DOMAIN slots' : slots'[i].occupied
  <2> DEFINE i == p.seq_num % kCapacity
  <2>1. p.seq_num \in Nat BY InputAssumption DEF PacketType
  <2>2. i \in 0 .. kCapacity - 1 BY <2>1, IndexInRange
  <2>3. slots' = Buffered(slots, p, t) BY <1>6 DEF IngestGap
  <2>4. CASE Collides(slots, p)
    <3>1. slots' = slots /\ slots[i].occupied BY <2>3, <2>4 DEF Buffered, Collides, SlotOf
    <3>2. QED BY <1>0, <2>2, <3>1
  <2>5. CASE ~Collides(slots, p)
    <3>1. slots' = [slots EXCEPT ![i] = Stored(p, t)] BY <2>3, <2>5 DEF Buffered
    <3>2. slots'[i].occupied /\ i \in DOMAIN slots' BY <1>0, <2>2, <3>1 DEF Stored
    <3>3. QED BY <3>2
  <2>6. QED BY <2>4, <2>5
<1>7. QED BY <1>1, <1>2, <1>3, <1>4, <1>5, <1>6 DEF Next, Ingest

\* A request is sent only for a gap that stays tracked.
LEMMA RequestKeepsTracking ==
    ASSUME IInv, IInv', Next, NEW r \in requests' \ requests PROVE gap'.start # 0
<1>1. Monotone BY StepIsMonotone
<1>2. PICK t \in Timestamps : Resolving \/ Checking(t) BY CallShape
<1>3. Checking(t) BY <1>2 DEF Resolving
<1>4. PICK g \in TrackerType : CheckedWith(g, t) BY <1>1, <1>3, CheckingFacts
<1>5. gap'.start = g.start /\ RequestDue(g, t) BY <1>4 DEF CheckedWith
<1>6. QED BY <1>5 DEF RequestDue

\* Every step keeps ShownInv.
LEMMA ShownStep ==
    ASSUME IInv, IInv', FramedInv', ShownInv, [Next]_vars, Uniform(PacketsOf(received'))
    PROVE  ShownInv'
<1>1. CASE UNCHANGED vars BY <1>1 DEF vars, history, ShownInv, AsksForWhatWasShown
<1>2. CASE Next
  <2>1. gap'.start # 0 => \E i \in DOMAIN slots' : slots'[i].occupied
    BY <1>2, TrackedIsBuffered
  <2>2. received \subseteq received' BY <1>2, StepIsMonotone DEF Monotone
  <2>3. ASSUME NEW q \in requests'
        PROVE  \E r \in received' : r.pkt.seq_num >= q.first_seq + q.count
    <3>1. CASE q \in requests BY <2>2, <3>1 DEF ShownInv, AsksForWhatWasShown
    <3>2. CASE q \notin requests
      <4>1. q \in requests' \ requests BY <3>2
      <4>2. gap'.start # 0 BY <1>2, <4>1, RequestKeepsTracking
      <4>3. PICK i \in DOMAIN slots' : slots'[i].occupied BY <2>1, <4>2
      <4>4. MissingOnly(q) BY <1>2, <4>1, StepAsksForMissing
      <4>5. slots'[i].seq_num > next_expected' BY <4>3 DEF FramedInv, NoStaleSlot
      <4>6. PICK r \in received' : r.pkt.seq_num = slots'[i].seq_num
        BY <4>3 DEF IInv, SlotsAreReceived
      <4>7. /\ slots'[i].seq_num \in Nat /\ next_expected' \in Nat
            /\ q.first_seq \in Nat /\ q.count \in Nat
        BY <4>3 DEF IInv, TypeOK, SlotType
      <4> DEFINE a == slots'[i].seq_num
                 e == next_expected'
                 f == q.first_seq
                 c == q.count
                 s == f + c - 1
      <4>8. a \in Nat /\ e \in Nat /\ f \in Nat /\ c \in Nat BY <4>7
      <4>9. f = e /\ c \in 1 .. RequestLimit BY <4>4 DEF MissingOnly
      <4>10. RequestLimit \in Nat
        BY CapacityAssumption, ConfigAssumption DEF RequestLimit
      <4>11. a >= e
        <5>1. a > e BY <4>5
        <5>2. \A x, y \in Nat : x > y => x >= y OBVIOUS
        <5>3. QED BY <4>8, <5>1, <5>2
      <4>12. \A x \in f .. s : x < a BY <4>3, <4>4, <4>11 DEF MissingOnly
      <4> HIDE DEF a, e, f, c
      <4>13. s \in f .. s BY <4>8, <4>9, <4>10
      <4>14. s < a BY <4>12, <4>13
      <4>15. a >= f + c BY <4>8, <4>14
      <4>16. QED BY <4>6, <4>15 DEF a, f, c
    <3>3. QED BY <3>1, <3>2
  <2>4. QED BY <2>1, <2>3 DEF ShownInv, AsksForWhatWasShown
<1>3. QED BY <1>1, <1>2

\* No request reaches beyond what an arrival has shown to exist.
THEOREM RequestsWereShown == SpecRecovery => []AsksForWhatWasShown
<1>1. InitRecovery => ShownInv
  BY DEF InitRecovery, Init, ShownInv, AsksForWhatWasShown
<1>2. RecoveryInv /\ ShownInv /\ [NextRecovery]_recoveryVars => ShownInv'
  BY RecoveryInvStep, ShownStep DEF RecoveryInv
<1>3. ShownInv => AsksForWhatWasShown BY DEF ShownInv
<1>4. QED BY <1>1, <1>2, <1>3, RecoveryInvariance, PTL DEF SpecRecovery

=============================================================================

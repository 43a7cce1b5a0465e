--------------------------- MODULE ReceiverProofs ---------------------------
(***************************************************************************)
(* Theorems about the receive loop, for every queue, timing and order of   *)
(* datagrams, errors, signals and failing open() calls: it runs the buffer *)
(* of GapBuffer, its counters agree with the buffer's, and with receive    *)
(* timestamps from CLOCK_MONOTONIC the debounce lasts as long as it should.*)
(***************************************************************************)
EXTENDS Receiver, GapBufferProofs

Stamps == {0} \cup 1 .. MaxTime + ClockOffset
QueueItem == [dgram : Datagrams, stamp : Stamps]
CountersType == [recv_calls : Nat, messages_delivered : Nat, parse_errors : Nat,
                 errors : Nat, arrivals : Nat, opens : Nat, leaked : Nat]

\* The clock is in range and the queue holds stamped datagrams.
QueueInv == mono \in 1 .. MaxTime /\ queue \in Seq(QueueItem)

-----------------------------------------------------------------------------
(* The loop runs the buffer.                                               *)

\* A datagram that is dequeued is one the network may send, and the time that
\* ingest() is given is one a clock may show.
LEMMA HeadFacts ==
    ASSUME QueueInv, queue # <<>>
    PROVE  Head(queue).dgram \in Datagrams /\ StampOf(Head(queue)) \in Timestamps
<1>1. Head(queue) \in QueueItem BY DEF QueueInv
<1>2. Head(queue).dgram \in Datagrams /\ Head(queue).stamp \in Stamps BY <1>1 DEF QueueItem
<1>3. 1 .. MaxTime \subseteq 1 .. MaxTime + ClockOffset BY ReceiverAssumption
<1>4. mono \in Timestamps BY <1>3, ReceiverAssumption DEF QueueInv
<1>5. Head(queue).stamp # 0 => Head(queue).stamp \in Timestamps
  BY <1>2, ReceiverAssumption DEF Stamps
<1>6. QED BY <1>2, <1>4, <1>5 DEF StampOf

\* Every step of the receiver is a call of the buffer or leaves it alone.
LEMMA ReceiverCalls ==
    ASSUME QueueInv, [NextReceiver]_receiverVars PROVE [Next]_vars
<1>1. CASE UNCHANGED receiverVars BY <1>1 DEF receiverVars
<1>2. CASE RecvDatagram
  <2> DEFINE d == Head(queue).dgram
             t == StampOf(Head(queue))
  <2>1. IngestDatagram(d, t) /\ queue # <<>> BY <1>2 DEF RecvDatagram
  <2>2. t \in Timestamps BY <2>1, HeadFacts
  <2> HIDE DEF d, t
  <2>3. QED BY <2>1, <2>2 DEF IngestDatagram, Next
<1>3. CASE RunTick
  <2>1. 1 .. MaxTime \subseteq 1 .. MaxTime + ClockOffset BY ReceiverAssumption
  <2>2. mono \in Timestamps BY <2>1, ReceiverAssumption DEF QueueInv
  <2>3. QED BY <1>3, <2>2 DEF RunTick, Next
<1>4. CASE RecvNothing \/ RecvError BY <1>4 DEF RecvNothing, RecvError
<1>5. CASE ClockAdvance \/ Signal \/ close \/ EnterRun \/ LeaveRun
  BY <1>5 DEF ClockAdvance, Signal, close, EnterRun, LeaveRun
<1>6. ASSUME NEW d \in Datagrams, KernelReceive(d) PROVE UNCHANGED vars
  BY <1>6 DEF KernelReceive
<1>7. ASSUME NEW f \in FailedCalls, open(f) PROVE UNCHANGED vars BY <1>7 DEF open
<1>8. QED BY <1>1, <1>2, <1>3, <1>4, <1>5, <1>6, <1>7 DEF NextReceiver, Loop

\* The clock stays in range and the queue keeps its type.
LEMMA QueueStep ==
    ASSUME QueueInv, [NextReceiver]_receiverVars PROVE QueueInv'
<1>0. MaxTime \in Nat /\ ClockOffset \in Nat BY ReceiverAssumption
<1>1. CASE UNCHANGED <<mono, queue>> BY <1>1 DEF QueueInv
<1>2. CASE UNCHANGED receiverVars BY <1>1, <1>2 DEF receiverVars, rxVars
<1>3. CASE RecvDatagram
  <2>1. mono' = mono /\ queue' = Tail(queue) /\ queue # <<>>
    BY <1>3 DEF RecvDatagram, Receiving
  <2>2. QED BY <2>1 DEF QueueInv
<1>4. CASE RunTick \/ RecvNothing \/ RecvError
  BY <1>1, <1>4 DEF RunTick, RecvNothing, RecvError, Receiving
<1>5. CASE ClockAdvance
  <2>1. mono' \in 1 .. MaxTime /\ queue' = queue BY <1>0, <1>5 DEF ClockAdvance, QueueInv
  <2>2. QED BY <2>1 DEF QueueInv
<1>6. CASE Signal \/ EnterRun \/ LeaveRun
  BY <1>1, <1>6 DEF Signal, EnterRun, LeaveRun
<1>7. CASE mono' = mono /\ queue' = <<>> BY <1>7 DEF QueueInv
<1>8. CASE close BY <1>7, <1>8 DEF close
<1>9. ASSUME NEW f \in FailedCalls, open(f) PROVE QueueInv' BY <1>7, <1>9 DEF open
<1>10. ASSUME NEW d \in Datagrams, KernelReceive(d) PROVE QueueInv'
  <2> DEFINE it == [dgram |-> d, stamp |-> KernelStamp]
  <2>1. KernelStamp \in Stamps
    <3>1. mono + ClockOffset \in 1 .. MaxTime + ClockOffset BY <1>0 DEF QueueInv
    <3>2. QED BY <3>1 DEF KernelStamp, Stamps
  <2>2. it \in QueueItem BY <2>1 DEF QueueItem
  <2>3. mono' = mono /\ (queue' = queue \/ queue' = Append(queue, it))
    BY <1>10 DEF KernelReceive
  <2> HIDE DEF it
  <2>4. Append(queue, it) \in Seq(QueueItem) BY <2>2 DEF QueueInv
  <2>5. QED BY <2>3, <2>4 DEF QueueInv
<1>11. QED
  BY <1>2, <1>3, <1>4, <1>5, <1>6, <1>8, <1>9, <1>10 DEF NextReceiver, Loop

ReceiverInv == IInv /\ QueueInv

\* What a step of the receiver may rely on.
LEMMA ReceiverStep ==
    ASSUME ReceiverInv, [NextReceiver]_receiverVars
    PROVE  ReceiverInv' /\ [Next]_vars
BY ReceiverCalls, QueueStep, NextIInv DEF ReceiverInv

\* It holds in every reachable state.
LEMMA ReceiverInvariance == SpecReceiver => []ReceiverInv
<1>1. InitReceiver => ReceiverInv
  BY InitIInv, ReceiverAssumption DEF InitReceiver, ReceiverInv, QueueInv
<1>2. ReceiverInv /\ [NextReceiver]_receiverVars => ReceiverInv' BY ReceiverStep
<1>3. QED BY <1>1, <1>2, PTL DEF SpecReceiver

\* The receiver runs the buffer of GapBuffer: every theorem about Spec holds
\* of it.
THEOREM ReceiverUsesTheBuffer == SpecReceiver => Spec
<1>1. InitReceiver => Init BY DEF InitReceiver
<1>2. ReceiverInv /\ [NextReceiver]_receiverVars => [Next]_vars BY ReceiverStep
<1>3. QED BY <1>1, <1>2, ReceiverInvariance, PTL DEF SpecReceiver, Spec

-----------------------------------------------------------------------------
(* Counters.                                                               *)

CountInv == rx \in CountersType /\ CountersAgree

\* A datagram that is dequeued is counted once, by the buffer or as an error.
LEMMA EachIsCounted ==
    ASSUME IInv, QueueInv, RecvDatagram
    PROVE  stats'.packets + stats'.heartbeats + (IF Head(queue).dgram = Bad THEN 1 ELSE 0)
             = stats.packets + stats.heartbeats + 1
<1> DEFINE d == Head(queue).dgram
           t == StampOf(Head(queue))
<1>1. IngestDatagram(d, t) /\ queue # <<>> BY DEF RecvDatagram
<1>2. d \in Datagrams /\ t \in Timestamps BY <1>1, HeadFacts
<1>3. stats.packets \in Nat /\ stats.heartbeats \in Nat BY DEF IInv, TypeOK, StatsType
<1> HIDE DEF d, t
<1>4. CASE d = Bad /\ UNCHANGED vars
  <2>1. stats' = stats BY <1>4 DEF vars
  <2>2. QED BY <1>3, <1>4, <2>1 DEF d
<1>5. CASE d \in Packets /\ Ingest(d, t)
  <2>1. d.msg_count # 0 BY <1>5, InputAssumption DEF PacketType
  <2>2. d # Bad BY <2>1 DEF Bad
  <2>3. stats'.packets = stats.packets + 1 /\ stats'.heartbeats = stats.heartbeats
    BY <1>2, <1>5, IngestReceives
  <2>4. QED BY <1>3, <2>2, <2>3 DEF d
<1>6. ASSUME NEW h \in HeartbeatSeqs, d = Heartbeat(h) /\ IngestHeartbeat(h, t)
      PROVE  stats'.packets + stats'.heartbeats + (IF d = Bad THEN 1 ELSE 0)
               = stats.packets + stats.heartbeats + 1
  <2>1. d.kept = 0 /\ Bad.kept = 1 BY <1>6 DEF Heartbeat, Bad
  <2>2. d # Bad BY <2>1
  <2>3. stats'.packets = stats.packets /\ stats'.heartbeats = stats.heartbeats + 1
    BY <1>2, <1>6, HeartbeatFacts
  <2>4. QED BY <1>3, <2>2, <2>3
<1>7. QED BY <1>1, <1>4, <1>5, <1>6 DEF IngestDatagram, d

\* recv_one() with a datagram keeps the counters in agreement.
LEMMA RecvCounts ==
    ASSUME IInv, IInv', QueueInv, CountInv, Monotone, RecvDatagram PROVE CountInv'
<1> DEFINE e == IF Head(queue).dgram = Bad THEN 1 ELSE 0
           k == NewlyDelivered
<1>1. /\ k \in Nat
      /\ next_expected' - synced_at' = next_expected - synced_at + k
  BY DeliveredGrows
<1>2. Cardinality(delivered) \in Nat /\ Cardinality(delivered') \in Nat
  <2>1. IsFiniteSet(delivered) BY DeliveredCount
  <2>2. IsFiniteSet(delivered') BY DeliveredCountNext
  <2>3. QED BY <2>1, <2>2, FS_CardinalityType
<1>3. /\ rx.recv_calls \in Nat /\ rx.messages_delivered \in Nat /\ rx.parse_errors \in Nat
      /\ rx.arrivals \in Nat /\ rx \in CountersType
  BY DEF CountInv, CountersType
<1>4. rx.messages_delivered + Cardinality(delivered') - Cardinality(delivered)
        = rx.messages_delivered + k
  <2>1. \A x, y, z \in Nat : x + y - z = x + (y - z) OBVIOUS
  <2>2. QED BY <1>2, <1>3, <2>1 DEF NewlyDelivered
<1>5. e \in Nat OBVIOUS
<1>6. rx' = [rx EXCEPT !.recv_calls = rx.recv_calls + 1,
                       !.messages_delivered = rx.messages_delivered + k,
                       !.parse_errors = rx.parse_errors + e]
  BY <1>4 DEF RecvDatagram
<1>7. stats'.packets + stats'.heartbeats + e = stats.packets + stats.heartbeats + 1
  BY EachIsCounted
<1>8. stats.packets \in Nat /\ stats.heartbeats \in Nat
      /\ stats'.packets \in Nat /\ stats'.heartbeats \in Nat
      /\ next_expected \in Nat /\ synced_at \in Nat
  BY DEF IInv, TypeOK, StatsType
<1> HIDE DEF e, k
<1>9. rx.recv_calls + 1 \in Nat /\ rx.messages_delivered + k \in Nat
      /\ rx.parse_errors + e \in Nat
  BY <1>1, <1>3, <1>5
<1>10. /\ rx' \in CountersType /\ rx'.arrivals = rx.arrivals
       /\ rx'.recv_calls = rx.recv_calls + 1
       /\ rx'.messages_delivered = rx.messages_delivered + k
       /\ rx'.parse_errors = rx.parse_errors + e
  <2> DEFINE a == rx.recv_calls + 1
             b == rx.messages_delivered + k
             c == rx.parse_errors + e
  <2>1. rx' = [rx EXCEPT !.recv_calls = a, !.messages_delivered = b, !.parse_errors = c]
    BY <1>6
  <2>2. a \in Nat /\ b \in Nat /\ c \in Nat BY <1>9
  <2> HIDE DEF a, b, c
  <2>3. /\ rx' \in CountersType /\ rx'.arrivals = rx.arrivals
        /\ rx'.recv_calls = a /\ rx'.messages_delivered = b /\ rx'.parse_errors = c
    BY <1>3, <2>1, <2>2 DEF CountersType
  <2>4. QED BY <2>3 DEF a, b, c
<1>11. rx'.recv_calls = stats'.packets + stats'.heartbeats + rx'.parse_errors
  <2>1. rx.recv_calls = stats.packets + stats.heartbeats + rx.parse_errors
    BY DEF CountInv, CountersAgree
  <2>2. \A u, v, w, x, y, z \in Nat :
          x + y + e = u + v + 1 /\ z = u + v + w => z + 1 = x + y + (w + e)
    BY <1>5
  <2>3. rx.recv_calls + 1 = stats'.packets + stats'.heartbeats + (rx.parse_errors + e)
    BY <1>3, <1>7, <1>8, <2>1, <2>2
  <2>4. QED BY <1>10, <2>3
<1>12. rx'.messages_delivered = next_expected' - synced_at'
  <2>1. rx.messages_delivered = next_expected - synced_at BY DEF CountInv, CountersAgree
  <2>2. QED BY <1>1, <1>10, <2>1
<1>13. rx'.recv_calls + Len(queue') <= rx'.arrivals
  <2>1. queue \in Seq(QueueItem) /\ queue # <<>> /\ queue' = Tail(queue)
    BY DEF QueueInv, RecvDatagram
  <2>2. Len(queue) \in Nat /\ Len(queue') = Len(queue) - 1 BY <2>1
  <2>3. rx.recv_calls + Len(queue) <= rx.arrivals BY DEF CountInv, CountersAgree
  <2>4. (rx.recv_calls + 1) + (Len(queue) - 1) <= rx.arrivals BY <1>3, <2>2, <2>3
  <2>5. QED BY <1>10, <2>2, <2>4
<1>14. QED BY <1>10, <1>11, <1>12, <1>13 DEF CountInv, CountersAgree

\* Every other step of the receiver leaves the counts the buffer keeps alone.
LEMMA OthersCount ==
    ASSUME IInv, QueueInv, CountInv, [NextReceiver]_receiverVars, ~RecvDatagram
    PROVE  CountInv'
<1>0. /\ rx \in CountersType /\ stats \in StatsType
      /\ rx.recv_calls \in Nat /\ rx.arrivals \in Nat /\ Len(queue) \in Nat
      /\ rx.recv_calls + Len(queue) <= rx.arrivals
  BY DEF CountInv, CountersAgree, CountersType, IInv, TypeOK, QueueInv
<1>1. CASE /\ UNCHANGED <<next_expected, synced_at>>
           /\ stats'.packets = stats.packets /\ stats'.heartbeats = stats.heartbeats
           /\ rx' \in CountersType /\ rx'.recv_calls = rx.recv_calls
           /\ rx'.messages_delivered = rx.messages_delivered
           /\ rx'.parse_errors = rx.parse_errors
           /\ rx.recv_calls + Len(queue') <= rx'.arrivals
  BY <1>1 DEF CountInv, CountersAgree
<1>2. CASE UNCHANGED <<vars, queue, rx>> BY <1>0, <1>1, <1>2 DEF vars, history
<1>3. CASE UNCHANGED receiverVars BY <1>2, <1>3 DEF receiverVars, rxVars
<1>4. CASE RecvNothing BY <1>2, <1>4 DEF RecvNothing
<1>5. CASE RecvError
  <2>1. UNCHANGED vars /\ queue' = queue /\ rx' = [rx EXCEPT !.errors = @ + 1]
    BY <1>5 DEF RecvError
  <2>2. rx' \in CountersType /\ rx'.arrivals = rx.arrivals /\ rx'.recv_calls = rx.recv_calls
        /\ rx'.messages_delivered = rx.messages_delivered
        /\ rx'.parse_errors = rx.parse_errors
    BY <1>0, <2>1 DEF CountersType
  <2>3. QED BY <1>0, <1>1, <2>1, <2>2 DEF vars, history
<1>6. CASE RunTick
  <2>1. CASE UNCHANGED vars BY <1>2, <1>6, <2>1 DEF RunTick
  <2>2. CASE Tick(mono)
    <3>1. stats'.packets = stats.packets /\ stats'.heartbeats = stats.heartbeats
          /\ UNCHANGED <<next_expected, synced_at>>
      BY <1>0, <2>2 DEF Tick, StatsType
    <3>2. UNCHANGED <<queue, rx>> BY <1>6 DEF RunTick
    <3>3. QED BY <1>0, <1>1, <3>1, <3>2
  <2>3. QED BY <1>6, <2>1, <2>2 DEF RunTick
<1>7. CASE ClockAdvance \/ Signal \/ EnterRun \/ LeaveRun
  BY <1>2, <1>7 DEF ClockAdvance, Signal, EnterRun, LeaveRun
<1>8. CASE close
  <2>1. UNCHANGED vars /\ rx' = rx /\ queue' = <<>> BY <1>8 DEF close
  <2>2. rx.recv_calls + Len(queue') <= rx.arrivals BY <1>0, <2>1
  <2>3. QED BY <1>0, <1>1, <2>1, <2>2 DEF vars, history
<1>9. ASSUME NEW f \in FailedCalls, open(f) PROVE CountInv'
  <2>1. UNCHANGED vars /\ queue' = <<>> BY <1>9 DEF open
  <2>2. rx' = [rx EXCEPT !.opens = @ + 1, !.leaked = @ + IF fd = "closed" THEN 0 ELSE 1]
    BY <1>9 DEF open
  <2>3. rx.opens + 1 \in Nat /\ rx.leaked + (IF fd = "closed" THEN 0 ELSE 1) \in Nat
    BY <1>0 DEF CountersType
  <2>4. rx' \in CountersType /\ rx'.arrivals = rx.arrivals /\ rx'.recv_calls = rx.recv_calls
        /\ rx'.messages_delivered = rx.messages_delivered
        /\ rx'.parse_errors = rx.parse_errors
    BY <1>0, <2>2, <2>3 DEF CountersType
  <2>5. rx.recv_calls + Len(queue') <= rx'.arrivals BY <1>0, <2>1, <2>4
  <2>6. QED BY <1>1, <2>1, <2>4, <2>5 DEF vars, history
<1>10. ASSUME NEW d \in Datagrams, KernelReceive(d) PROVE CountInv'
  <2> DEFINE it == [dgram |-> d, stamp |-> KernelStamp]
  <2>1. /\ UNCHANGED vars /\ rx' = [rx EXCEPT !.arrivals = @ + 1]
        /\ queue' = queue \/ queue' = Append(queue, it)
    BY <1>10 DEF KernelReceive
  <2> HIDE DEF it
  <2>2. rx' \in CountersType /\ rx'.arrivals = rx.arrivals + 1
        /\ rx'.recv_calls = rx.recv_calls
        /\ rx'.messages_delivered = rx.messages_delivered
        /\ rx'.parse_errors = rx.parse_errors
    BY <1>0, <2>1 DEF CountersType
  <2>3. Len(queue') \in {Len(queue), Len(queue) + 1} BY <2>1 DEF QueueInv
  <2>4. rx.recv_calls + Len(queue') <= rx.arrivals + 1 BY <1>0, <2>3
  <2>5. QED BY <1>1, <2>1, <2>2, <2>4 DEF vars, history
<1>11. QED
  BY <1>3, <1>4, <1>5, <1>6, <1>7, <1>8, <1>9, <1>10 DEF NextReceiver, Loop

\* The receiver's counters account for every datagram and every message.
THEOREM CountersAlwaysAgree == SpecReceiver => []CountersAgree
<1>1. InitReceiver => CountInv
  BY DEF InitReceiver, Init, CountInv, CountersAgree, CountersType
<1>2. ReceiverInv /\ CountInv /\ [NextReceiver]_receiverVars => CountInv'
  BY ReceiverStep, StepIsMonotone, RecvCounts, OthersCount DEF ReceiverInv
<1>3. CountInv => CountersAgree BY DEF CountInv
<1>4. QED BY <1>1, <1>2, <1>3, ReceiverInvariance, PTL DEF SpecReceiver

-----------------------------------------------------------------------------
(* The debounce.                                                           *)

\* Without kernel stamps every call of the buffer is made at CLOCK_MONOTONIC,
\* so the tracker's detection time is the one the tracker was really set at.
DebounceInv ==
    /\ \A i \in 1 .. Len(queue) : queue[i].stamp = 0
    /\ gap.start # 0 => tracked_at = gap.detected_at

\* A datagram without a stamp reaches the buffer at CLOCK_MONOTONIC.
LEMMA CallsAreAtMono ==
    ASSUME ReceiverInv, DebounceInv, RecvDatagram, vars' # vars
    PROVE  clock' = mono
<1> DEFINE d == Head(queue).dgram
<1>1. queue # <<>> /\ IngestDatagram(d, StampOf(Head(queue))) BY DEF RecvDatagram
<1>2. queue \in Seq(QueueItem) BY DEF ReceiverInv, QueueInv
<1>3. Head(queue).stamp = 0 BY <1>1, <1>2 DEF DebounceInv
<1>4. StampOf(Head(queue)) = mono BY <1>3 DEF StampOf
<1> HIDE DEF d
<1>5. CASE Ingest(d, mono)
  BY <1>5 DEF Ingest, IngestDuplicate, IngestGap, IngestInOrder, Receive, CallAt
<1>6. CASE \E h \in HeartbeatSeqs : IngestHeartbeat(h, mono) BY <1>6 DEF IngestHeartbeat, CallAt
<1>7. QED BY <1>1, <1>4, <1>5, <1>6 DEF IngestDatagram

\* What a call does to the tracker's start and detection time: it clears the
\* tracker, keeps it, or sets it at the time of the call.
LEMMA TrackerMoves ==
    ASSUME IInv, IInv', Next
    PROVE  /\ \/ gap'.start = 0
              \/ gap'.start = gap.start /\ gap'.detected_at = gap.detected_at
              \/ gap.start = 0 /\ gap'.detected_at = clock'
           /\ \A r \in requests' \ requests : gap'.start # 0 /\ gap'.last_retx = clock'
<1>0. gap \in [start : Nat, detected_at : Nat, last_retx : Nat] BY DEF IInv, TypeOK
<1>1. Monotone BY StepIsMonotone
<1>2. PICK t \in Timestamps : CallAt(t) /\ (Resolving \/ Checking(t)) BY CallShape
<1>3. clock' = t BY <1>2 DEF CallAt
<1>4. CASE Resolving
  <2>1. requests' = requests BY <1>4 DEF Resolving
  <2>2. gap'.start = 0 \/ gap' = gap BY <1>0, <1>4 DEF Resolving
  <2>3. QED BY <2>1, <2>2
<1>5. CASE Checking(t)
  <2>1. PICK g \in TrackerType : CheckedWith(g, t) BY <1>1, <1>5, CheckingFacts
  <2>2. gap'.start = g.start /\ gap'.detected_at = g.detected_at BY <2>1 DEF CheckedWith
  <2>3. ASSUME NEW r \in requests' \ requests PROVE gap'.start # 0 /\ gap'.last_retx = clock'
    BY <1>3, <2>1, <2>2 DEF CheckedWith, RequestDue
  <2>4. g = gap \/ (gap.start = 0 /\ g.detected_at = t) BY <2>1 DEF CheckedWith
  <2>5. QED BY <1>3, <2>2, <2>3, <2>4
<1>6. QED BY <1>2, <1>4, <1>5

\* The queue stays unstamped when SO_TIMESTAMPING is not asked for.
LEMMA StampStep ==
    ASSUME ~enable_software_timestamps, ReceiverInv, DebounceInv, [NextReceiver]_receiverVars
    PROVE  \A i \in 1 .. Len(queue') : queue'[i].stamp = 0
<1>0. /\ queue \in Seq(QueueItem)
      /\ \A i \in 1 .. Len(queue) : queue[i].stamp = 0
  BY DEF ReceiverInv, QueueInv, DebounceInv
<1>1. CASE queue' = queue BY <1>0, <1>1
<1>2. CASE queue' = <<>> BY <1>2
<1>3. CASE RecvDatagram
  <2>1. queue' = Tail(queue) /\ queue # <<>> BY <1>3 DEF RecvDatagram
  <2>2. QED BY <1>0, <2>1
<1>4. ASSUME NEW d \in Datagrams, KernelReceive(d)
      PROVE  \A i \in 1 .. Len(queue') : queue'[i].stamp = 0
  <2> DEFINE it == [dgram |-> d, stamp |-> KernelStamp]
  <2>1. it.stamp = 0 BY DEF KernelStamp
  <2>2. queue' = queue \/ queue' = Append(queue, it) BY <1>4 DEF KernelReceive
  <2> HIDE DEF it
  <2>3. QED BY <1>0, <1>1, <2>1, <2>2
<1>5. CASE UNCHANGED receiverVars BY <1>1, <1>5 DEF receiverVars, rxVars
<1>6. CASE RunTick \/ RecvNothing \/ RecvError
  BY <1>1, <1>6 DEF RunTick, RecvNothing, RecvError
<1>7. CASE ClockAdvance \/ Signal \/ EnterRun \/ LeaveRun
  BY <1>1, <1>7 DEF ClockAdvance, Signal, EnterRun, LeaveRun
<1>8. CASE close BY <1>2, <1>8 DEF close
<1>9. ASSUME NEW f \in FailedCalls, open(f) PROVE queue' = <<>> BY <1>9 DEF open
<1>10. QED
  BY <1>2, <1>3, <1>4, <1>5, <1>6, <1>7, <1>8, <1>9 DEF NextReceiver, Loop

\* The tracker's detection time stays the time it was really set at.
LEMMA TrackedStep ==
    ASSUME ReceiverInv, ReceiverInv', DebounceInv, [NextReceiver]_receiverVars, [Next]_vars
    PROVE  gap'.start # 0 => tracked_at' = gap'.detected_at
<1>0. gap.start # 0 => tracked_at = gap.detected_at BY DEF DebounceInv
<1>1. CASE UNCHANGED vars /\ UNCHANGED tracked_at BY <1>0, <1>1 DEF vars
<1>2. CASE RecvDatagram
  <2>1. tracked_at' = IF gap'.start \notin {0, gap.start} THEN mono ELSE tracked_at
    BY <1>2 DEF RecvDatagram
  <2>2. CASE vars' = vars BY <1>0, <2>1, <2>2 DEF vars
  <2>3. CASE vars' # vars
    <3>1. clock' = mono BY <1>2, <2>3, CallsAreAtMono
    <3>2. \/ gap'.start = 0
          \/ gap'.start = gap.start /\ gap'.detected_at = gap.detected_at
          \/ gap.start = 0 /\ gap'.detected_at = clock'
      BY <2>3, TrackerMoves DEF ReceiverInv
    <3>3. QED BY <1>0, <2>1, <3>1, <3>2
  <2>4. QED BY <2>2, <2>3
<1>3. CASE RunTick
  <2>1. tracked_at' = tracked_at /\ (UNCHANGED vars \/ Tick(mono)) BY <1>3 DEF RunTick
  <2>2. gap \in [start : Nat, detected_at : Nat, last_retx : Nat]
    BY DEF ReceiverInv, IInv, TypeOK
  <2>3. CASE Tick(mono)
    <3>1. gap'.start \in {0, gap.start} /\ gap'.detected_at = gap.detected_at
      BY <2>2, <2>3 DEF Tick, CheckGapTimeout
    <3>2. QED BY <1>0, <2>1, <3>1
  <2>4. QED BY <1>1, <2>1, <2>3
<1>4. CASE RecvNothing \/ RecvError BY <1>1, <1>4 DEF RecvNothing, RecvError
<1>5. CASE ClockAdvance \/ Signal \/ close \/ EnterRun \/ LeaveRun
  BY <1>1, <1>5 DEF ClockAdvance, Signal, close, EnterRun, LeaveRun
<1>6. ASSUME NEW d \in Datagrams, KernelReceive(d) PROVE UNCHANGED vars /\ UNCHANGED tracked_at
  BY <1>6 DEF KernelReceive
<1>7. ASSUME NEW f \in FailedCalls, open(f) PROVE UNCHANGED vars /\ UNCHANGED tracked_at
  BY <1>7 DEF open
<1>8. CASE UNCHANGED receiverVars BY <1>1, <1>8 DEF receiverVars, rxVars
<1>9. QED
  BY <1>1, <1>2, <1>3, <1>4, <1>5, <1>6, <1>7, <1>8 DEF NextReceiver, Loop

\* A call that asks is made at CLOCK_MONOTONIC.
LEMMA AskingIsAtMono ==
    ASSUME ReceiverInv, DebounceInv, [NextReceiver]_receiverVars, requests' # requests
    PROVE  clock' = mono
<1>1. vars' # vars BY DEF vars, history
<1>2. CASE RecvDatagram BY <1>1, <1>2, CallsAreAtMono
<1>3. CASE RunTick BY <1>1, <1>3 DEF RunTick, Tick, CallAt
<1>4. CASE RecvNothing \/ RecvError BY <1>1, <1>4 DEF RecvNothing, RecvError
<1>5. CASE ClockAdvance \/ Signal \/ close \/ EnterRun \/ LeaveRun
  BY <1>1, <1>5 DEF ClockAdvance, Signal, close, EnterRun, LeaveRun
<1>6. ASSUME NEW d \in Datagrams, KernelReceive(d) PROVE UNCHANGED vars
  BY <1>6 DEF KernelReceive
<1>7. ASSUME NEW f \in FailedCalls, open(f) PROVE UNCHANGED vars BY <1>7 DEF open
<1>8. CASE UNCHANGED receiverVars BY <1>1, <1>8 DEF receiverVars
<1>9. QED
  BY <1>1, <1>2, <1>3, <1>4, <1>5, <1>6, <1>7, <1>8 DEF NextReceiver, Loop

\* Without kernel stamps, and on a clock that does not step back, no request
\* is made before the gap has been tracked for gap_timeout_ns of the time that
\* really passes.
THEOREM DebounceIsReal ==
    ~ClockMayStepBack /\ ~enable_software_timestamps => (SpecReceiver => DebounceHolds)
<1> SUFFICES ASSUME ~ClockMayStepBack, ~enable_software_timestamps
             PROVE  SpecReceiver => DebounceHolds
  OBVIOUS
<1>1. InitReceiver => DebounceInv BY DEF InitReceiver, Init, DebounceInv
<1>2. ReceiverInv /\ DebounceInv /\ [NextReceiver]_receiverVars => DebounceInv'
  BY ReceiverStep, StampStep, TrackedStep DEF DebounceInv
<1>3. SpecReceiver => []DebounceInv BY <1>1, <1>2, ReceiverInvariance, PTL DEF SpecReceiver
<1>4. ASSUME ReceiverInv, DebounceInv, DebounceInv', RateInv', [NextReceiver]_receiverVars,
             NEW r \in requests' \ requests
      PROVE  mono - tracked_at' >= gap_timeout_ns
  <2>1. ReceiverInv' /\ [Next]_vars BY <1>4, ReceiverStep
  <2>2. requests' # requests BY <1>4
  <2>3. Next BY <2>1, <2>2 DEF vars, history
  <2>4. clock' = mono BY <1>4, <2>2, AskingIsAtMono
  <2>5. gap'.start # 0 /\ gap'.last_retx = clock'
    BY <1>4, <2>1, <2>3, TrackerMoves DEF ReceiverInv
  <2>6. tracked_at' = gap'.detected_at BY <1>4, <2>5 DEF DebounceInv
  <2>7. mono # 0 BY <1>4, ReceiverAssumption DEF ReceiverInv, QueueInv
  <2>8. gap'.last_retx - gap'.detected_at >= gap_timeout_ns
    BY <1>4, <2>4, <2>5, <2>7 DEF RateInv, TrackerTimes
  <2>9. QED BY <2>4, <2>5, <2>6, <2>8
<1>5. ReceiverInv /\ DebounceInv /\ DebounceInv' /\ RateInv' /\ [NextReceiver]_receiverVars =>
        [\A r \in requests' \ requests : mono - tracked_at' >= gap_timeout_ns]_receiverVars
  BY <1>4
<1>6. SpecReceiver => []RateInv BY ReceiverUsesTheBuffer, RateInvariance, PTL
<1>7. QED BY <1>3, <1>5, <1>6, ReceiverInvariance, PTL DEF SpecReceiver, DebounceHolds
=============================================================================

--------------------------- MODULE TwoLinesProofs ---------------------------
(***************************************************************************)
(* Theorems about the arbitrator between two lossy lines, for every        *)
(* stream, ring size and pattern of losses: the shared buffer runs as if   *)
(* one line fed it (SpecLines implements Spec), so what is proved of the   *)
(* buffer alone holds behind the arbitrator; one line's copy of every      *)
(* datagram is enough; requests and events are about real holes; every     *)
(* delivered message is credited to one line.                              *)
(***************************************************************************)
EXTENDS TwoLines, GapBufferProofs

Indices == 1 .. Len(Stream)

-----------------------------------------------------------------------------
(* The stream.                                                             *)

\* The stream is one, and its numbers are what heartbeats carry.
LEMMA StreamFacts ==
    /\ IsStream(Stream)
    /\ \A k \in Indices : Stream[k].seq_num \in HeartbeatSeqs /\ Stream[k] \in Packets
<1>1. IsStream(Stream) BY StreamAssumption DEF IsStream, EndOfPacket
<1>2. QED BY <1>1, StreamAssumption, StreamPacket DEF Indices

-----------------------------------------------------------------------------
(* The lines.                                                              *)

\* What is received comes from the stream and the session is synced to a
\* datagram of it; what has come on a line has been received.
LineInv ==
    /\ pos \in [FeedLine -> 1 .. Len(Stream) + 1]
    /\ lost \in [FeedLine -> SUBSET Indices]
    /\ \A r \in received : OfStream(Stream, r.pkt)
    /\ \A k \in Indices : Came(k) => \E r \in received : r.pkt = Stream[k]
    /\ session_synced => \E k \in Indices : synced_at = Stream[k].seq_num

\* A step of the lines is a step of the buffer, or leaves it alone.
LEMMA LineStepIsBufferStep ==
    ASSUME LineInv, [NextLines]_allVars PROVE [Next]_vars
<1>1. CASE UNCHANGED allVars BY <1>1 DEF allVars
<1>2. ASSUME NEW l \in FeedLine, Lose(l) \/ ArriveBad(l) PROVE UNCHANGED vars
  BY <1>2 DEF Lose, ArriveBad, ingest_line_bad
<1>3. ASSUME NEW l \in FeedLine, OnWire(l) PROVE pos[l] \in Indices
  BY <1>3, StreamAssumption DEF LineInv, OnWire, Indices
<1>4. ASSUME NEW t \in Timestamps, NEW l \in FeedLine, Arrive(l, t) PROVE Next
  <2>1. pos[l] \in Indices BY <1>3, <1>4 DEF Arrive
  <2>2. Stream[pos[l]] \in Packets BY <2>1, StreamFacts
  <2>3. QED BY <1>4, <2>2 DEF Arrive, ingest_line, Next
<1>5. ASSUME NEW t \in Timestamps, NEW l \in FeedLine, ArriveHeartbeat(l, t) PROVE Next
  <2>1. pos[l] \in Indices BY <1>3, <1>5 DEF ArriveHeartbeat
  <2>2. Stream[pos[l]].seq_num \in HeartbeatSeqs BY <2>1, StreamFacts
  <2>3. QED BY <1>5, <2>2 DEF ArriveHeartbeat, ingest_line_heartbeat, Next
<1>6. ASSUME NEW t \in Timestamps, TickLines(t) PROVE Next
  BY <1>6 DEF TickLines, arbitrator_tick, Next
<1>7. QED BY <1>1, <1>2, <1>4, <1>5, <1>6 DEF NextLines

\* A line that moves past a datagram that was lost brings nothing new.
LEMMA LoseKeepsLines ==
    ASSUME LineInv, NEW l \in FeedLine, Lose(l) PROVE LineInv'
<1>1. pos[l] \in Indices BY StreamAssumption DEF Lose, LineInv, OnWire, Indices
<1>2. UNCHANGED <<received, session_synced, synced_at>> BY DEF Lose, vars, history
<1>3. pos' \in [FeedLine -> 1 .. Len(Stream) + 1] /\ lost' \in [FeedLine -> SUBSET Indices]
  BY <1>1, StreamAssumption DEF Lose, LineInv, Indices
<1>4. ASSUME NEW k \in Indices, Came(k)' PROVE Came(k)
  <2>1. PICK m \in FeedLine : k < pos'[m] /\ k \notin lost'[m]
    BY <1>4 DEF Came, Passed
  <2>2. CASE m # l
    <3>1. pos'[m] = pos[m] /\ lost'[m] = lost[m] BY <2>2 DEF Lose, LineInv
    <3>2. QED BY <2>1, <3>1 DEF Came, Passed
  <2>3. CASE m = l
    <3>1. pos'[l] = pos[l] + 1 /\ lost'[l] = lost[l] \cup {pos[l]} BY DEF Lose, LineInv
    <3>2. k < pos[l] /\ k \notin lost[l]
      BY <1>1, <2>1, <2>3, <3>1, StreamAssumption DEF Indices
    <3>3. QED BY <3>2 DEF Came, Passed
  <2>4. QED BY <2>2, <2>3
<1>5. \A k \in Indices : Came(k)' => \E r \in received' : r.pkt = Stream[k]
  BY <1>2, <1>4 DEF LineInv
<1>6. QED BY <1>2, <1>3, <1>5 DEF LineInv, OfStream

\* What a line brings is received.
LEMMA ArriveKeepsLines ==
    ASSUME IInv, LineInv, NEW l \in FeedLine, NEW t \in Timestamps, Arrive(l, t)
    PROVE  LineInv'
<1> DEFINE p == Stream[pos[l]]
           new == [pkt |-> p, at |-> t]
<1>1. pos[l] \in Indices BY StreamAssumption DEF Arrive, LineInv, OnWire, Indices
<1>2. p \in Packets BY <1>1, StreamFacts
<1>3. Ingest(p, t) BY DEF Arrive, ingest_line
<1>4. /\ received' = received \cup {new} /\ session_synced' = TRUE
      /\ synced_at' = IF session_synced THEN synced_at ELSE p.seq_num
  BY <1>2, <1>3, IngestReceives
<1>5. new \in received' /\ new.pkt = p BY <1>4
<1>6. pos' \in [FeedLine -> 1 .. Len(Stream) + 1] /\ lost' = lost
  BY <1>1, StreamAssumption DEF Arrive, LineInv, Indices
<1>7. \A r \in received' : OfStream(Stream, r.pkt)
  <2>1. OfStream(Stream, p) BY <1>1 DEF OfStream, Indices
  <2>2. QED BY <1>4, <1>5, <2>1 DEF LineInv
<1>8. ASSUME NEW k \in Indices, Came(k)' PROVE \E r \in received' : r.pkt = Stream[k]
  <2>1. PICK m \in FeedLine : k < pos'[m] /\ k \notin lost[m]
    BY <1>6, <1>8 DEF Came, Passed
  <2>2. CASE k < pos[m]
    <3>1. Came(k) BY <2>1, <2>2 DEF Came, Passed
    <3>2. QED BY <1>4, <3>1 DEF LineInv
  <2>3. CASE ~(k < pos[m])
    <3>1. m = l BY <2>1, <2>3 DEF Arrive, LineInv
    <3>2. pos'[l] = pos[l] + 1 BY DEF Arrive, LineInv
    <3>3. k = pos[l] BY <1>1, <2>1, <2>3, <3>1, <3>2, StreamAssumption DEF Indices
    <3>4. QED BY <1>5, <3>3
  <2>4. QED BY <2>2, <2>3
<1>9. \E k \in Indices : synced_at' = Stream[k].seq_num
  <2>1. CASE session_synced BY <1>4, <2>1 DEF LineInv
  <2>2. CASE ~session_synced BY <1>1, <1>4, <2>2
  <2>3. QED BY <2>1, <2>2
<1>10. QED BY <1>6, <1>7, <1>8, <1>9 DEF LineInv

\* Every step keeps LineInv.
LEMMA LinesStep ==
    ASSUME IInv, LineInv, [NextLines]_allVars PROVE LineInv'
<1>1. CASE UNCHANGED <<pos, lost, received, session_synced, synced_at>>
  BY <1>1 DEF LineInv, Came, Passed
<1>2. CASE UNCHANGED allVars BY <1>1, <1>2 DEF allVars, lineVars, vars, history
<1>3. ASSUME NEW l \in FeedLine, ArriveBad(l) PROVE LineInv'
  BY <1>1, <1>3 DEF ArriveBad, ingest_line_bad, vars, history
<1>4. ASSUME NEW t \in Timestamps, TickLines(t) PROVE LineInv'
  BY <1>1, <1>4 DEF TickLines, arbitrator_tick, Tick
<1>5. ASSUME NEW t \in Timestamps, NEW l \in FeedLine, ArriveHeartbeat(l, t) PROVE LineInv'
  <2>1. pos[l] \in Indices
    BY <1>5, StreamAssumption DEF ArriveHeartbeat, LineInv, OnWire, Indices
  <2>2. Stream[pos[l]].seq_num \in HeartbeatSeqs BY <2>1, StreamFacts
  <2>3. /\ received' = received /\ pos' = pos /\ lost' = lost
        /\ synced_at' = IF session_synced THEN synced_at ELSE Stream[pos[l]].seq_num
    BY <1>5, <2>2, HeartbeatFacts DEF ArriveHeartbeat, ingest_line_heartbeat
  <2>4. \E k \in Indices : synced_at' = Stream[k].seq_num
    <3>1. CASE session_synced BY <2>3, <3>1 DEF LineInv
    <3>2. CASE ~session_synced BY <2>1, <2>3, <3>2
    <3>3. QED BY <3>1, <3>2
  <2>5. QED BY <2>3, <2>4 DEF LineInv, Came, Passed, OfStream
<1>6. QED
  BY <1>2, <1>3, <1>4, <1>5, LoseKeepsLines, ArriveKeepsLines DEF NextLines

\* The constructor and two lines nothing has come on yet.
LEMMA InitLineInv == InitLinesAndBuffer => LineInv
<1>1. SUFFICES ASSUME InitLinesAndBuffer PROVE LineInv OBVIOUS
<1>2. 1 \in 1 .. Len(Stream) + 1 BY StreamAssumption
<1>3. ASSUME NEW k \in Indices PROVE ~Came(k)
  BY <1>1, StreamAssumption DEF InitLinesAndBuffer, Came, Passed, Indices
<1>4. QED BY <1>1, <1>2, <1>3 DEF InitLinesAndBuffer, Init, LineInv

\* The invariant of the composition.
LinesInv == IInv /\ FramedInv /\ LineInv

\* What a step of the composition may rely on.
LEMMA LinesInvStep ==
    ASSUME LinesInv, [NextLines]_allVars
    PROVE  LinesInv' /\ [Next]_vars
<1>1. [Next]_vars BY LineStepIsBufferStep DEF LinesInv
<1>2. IInv' BY <1>1, NextIInv DEF LinesInv
<1>3. LineInv' BY LinesStep DEF LinesInv
<1>4. Uniform(PacketsOf(received')) BY <1>3, StreamFacts, StreamIsUniform DEF LineInv
<1>5. FramedInv' BY <1>1, <1>2, <1>4, FramedStep DEF LinesInv
<1>6. QED BY <1>1, <1>2, <1>3, <1>5 DEF LinesInv

\* It holds in every reachable state.
LEMMA LinesInvariance == SpecLines => []LinesInv
<1>1. InitLinesAndBuffer => LinesInv
  BY InitIInv, InitFramed, InitLineInv DEF LinesInv, InitLinesAndBuffer
<1>2. LinesInv /\ [NextLines]_allVars => LinesInv' BY LinesInvStep
<1>3. QED BY <1>1, <1>2, PTL DEF SpecLines

-----------------------------------------------------------------------------
(* Theorems.                                                               *)

\* Behind the arbitrator the shared buffer is the buffer of GapBuffer: every
\* theorem about Spec holds of SpecLines.
THEOREM ArbitratorUsesTheBuffer == SpecLines => Spec
<1>1. InitLinesAndBuffer => Init BY DEF InitLinesAndBuffer
<1>2. LinesInv /\ [NextLines]_allVars => [Next]_vars BY LinesInvStep
<1>3. QED BY <1>1, <1>2, LinesInvariance, PTL DEF SpecLines, Spec

\* The induction along the stream behind EitherLineSuffices.
LEMMA InvSuffices == ASSUME LinesInv PROVE EitherLineSuffices
<1> DEFINE Covered(k) == \A j \in 1 .. k : Stream[j].seq_num < synced_at \/ Came(j)
           Done(k) == \/ Stream[k].seq_num + Stream[k].msg_count <= next_expected
                      \/ Stream[k].seq_num < synced_at
           S == {k \in Indices : Covered(k) /\ ~Done(k)}
<1>1. SUFFICES ASSUME session_synced, stats.overflows = 0, S # {} PROVE FALSE
  BY DEF EitherLineSuffices, Indices
<1>2. Len(Stream) \in Nat /\ S \in SUBSET Nat BY StreamAssumption DEF Indices
<1>3. PICK k \in S : \A x \in S : k <= x BY <1>1, <1>2, LeastExists
<1>4. k \in Indices /\ Covered(k) /\ ~Done(k) BY <1>3
<1>5. Came(k) BY <1>4 DEF Indices
<1>6. PICK r \in received : r.pkt = Stream[k] BY <1>4, <1>5 DEF LinesInv, LineInv
<1>7. ~(EndOfPacket(r.pkt) <= next_expected) BY <1>4, <1>6 DEF EndOfPacket
<1>8. Holds(slots, Stream[k].seq_num)
  BY <1>1, <1>6, <1>7 DEF LinesInv, FramedInv, ReceivedIsKept
<1>9. /\ Stream[k].seq_num \in Nat /\ next_expected \in Nat /\ synced_at \in Nat
      /\ synced_at <= next_expected
      /\ DOMAIN slots = 0 .. kCapacity - 1
  BY <1>4, StreamFacts, StreamPacket DEF LinesInv, IInv, TypeOK, Indices
<1>10. Stream[k].seq_num > next_expected
  BY <1>8, <1>9, IndexInRange DEF Holds, SlotOf, LinesInv, FramedInv, NoStaleSlot
<1>11. PICK i \in Indices : synced_at = Stream[i].seq_num BY <1>1 DEF LinesInv, LineInv
<1>12. i < k
  <2>1. Stream[i].seq_num < Stream[k].seq_num BY <1>9, <1>10, <1>11
  <2>2. QED BY <1>4, <2>1, StreamFacts, StreamNumbers DEF Indices
<1> DEFINE h == k - 1
<1>13. h \in Indices /\ h < Len(Stream) /\ h + 1 = k /\ (i = h \/ i < h) /\ ~(k <= h)
  BY <1>2, <1>4, <1>12 DEF Indices
<1>14. Covered(h) BY <1>2, <1>4, <1>13 DEF Indices
<1>15. Done(h) BY <1>3, <1>13, <1>14
<1> HIDE DEF h
<1>16. EndOfPacket(Stream[h]) = Stream[k].seq_num BY <1>13, StreamFacts, StreamPacket DEF Indices
<1>17. ~(Stream[h].seq_num < synced_at)
  <2>1. CASE i = h BY <1>9, <1>11, <2>1
  <2>2. CASE i < h
    <3>1. EndOfPacket(Stream[i]) <= Stream[h].seq_num
      BY <1>13, <2>2, StreamFacts, StreamOrder DEF Indices
    <3>2. /\ Stream[i].seq_num < EndOfPacket(Stream[i]) /\ EndOfPacket(Stream[i]) \in Nat
          /\ Stream[h].seq_num \in Nat
      BY <1>13, StreamFacts, StreamPacket DEF Indices
    <3>3. QED BY <1>9, <1>11, <3>1, <3>2
  <2>3. QED BY <1>13, <2>1, <2>2
<1>18. Stream[k].seq_num <= next_expected BY <1>15, <1>16, <1>17 DEF EndOfPacket
<1>19. QED BY <1>9, <1>10, <1>18

\* "Whichever line's copy of sequence N arrives first is delivered"
\* (feed_arbitrator.hpp:30), for every stream, skew and pattern of losses.
THEOREM OneCopyIsEnough == SpecLines => []EitherLineSuffices
<1>1. LinesInv => EitherLineSuffices BY InvSuffices
<1>2. QED BY <1>1, LinesInvariance, PTL

\* No retransmission is asked for of a datagram that came on either line.
LEMMA RequestsAreOfHoles ==
    ASSUME LinesInv, LinesInv', [Next]_vars, NEW r \in requests' \ requests, NEW k \in Indices,
           Stream[k].seq_num \in r.first_seq .. r.first_seq + r.count - 1
    PROVE  ~Came(k)' \/ stats'.overflows > 0
<1>1. SUFFICES ASSUME Came(k)', ~(stats'.overflows > 0) PROVE FALSE OBVIOUS
<1>2. MissingOnly(r) BY StepAsksForMissing DEF LinesInv
<1>3. PICK q \in received' : q.pkt = Stream[k] BY <1>1 DEF LinesInv, LineInv
<1>4. /\ Stream[k].seq_num \in Nat /\ EndOfPacket(Stream[k]) \in Nat
      /\ Stream[k].seq_num < EndOfPacket(Stream[k])
  BY StreamFacts, StreamPacket DEF Indices
<1>5. next_expected' \in Nat /\ DOMAIN slots' = 0 .. kCapacity - 1
  BY DEF LinesInv, IInv, TypeOK
<1>6. next_expected' <= Stream[k].seq_num BY <1>2, <1>4, <1>5 DEF MissingOnly
<1>7. Holds(slots', Stream[k].seq_num)
  <2>1. \/ EndOfPacket(q.pkt) <= next_expected' \/ Holds(slots', q.pkt.seq_num)
        \/ stats'.overflows > 0
    BY DEF LinesInv, FramedInv, ReceivedIsKept, Holds, SlotOf, EndOfPacket
  <2>2. QED BY <1>1, <1>3, <1>4, <1>5, <1>6, <2>1
<1> DEFINE i == Stream[k].seq_num % kCapacity
<1>8. i \in DOMAIN slots' BY <1>4, <1>5, IndexInRange
<1>9. slots'[i].occupied /\ slots'[i].seq_num = Stream[k].seq_num
  BY <1>7 DEF Holds, SlotOf
<1>10. Stream[k].seq_num < slots'[i].seq_num BY <1>2, <1>6, <1>8, <1>9 DEF MissingOnly
<1>11. QED BY <1>4, <1>9, <1>10

\* Behind the arbitrator nothing that came on a line is asked for again.
THEOREM RequestsOnlyForHoles == SpecLines => NothingThatCameIsRequested
<1>1. LinesInv /\ LinesInv' /\ [NextLines]_allVars
        => [\A r \in requests' \ requests : \A k \in 1 .. Len(Stream) :
              Stream[k].seq_num \in r.first_seq .. r.first_seq + r.count - 1
                  => ~Came(k)' \/ stats'.overflows > 0]_allVars
  BY LinesInvStep, RequestsAreOfHoles DEF Indices
<1>2. QED BY <1>1, LinesInvariance, PTL DEF SpecLines, NothingThatCameIsRequested

\* Only a datagram from beyond the expected number raises an event.
LEMMA EventsAreFromGaps ==
    ASSUME LinesInv, NextLines, NEW e \in gap_events' \ gap_events
    PROVE  \E l \in FeedLine, t \in Timestamps :
              /\ pos[l] \in Indices /\ Arrive(l, t)
              /\ Stream[pos[l]].seq_num > next_expected' /\ e.first = next_expected'
<1>1. ASSUME NEW l \in FeedLine PROVE ~(Lose(l) \/ ArriveBad(l))
  BY DEF Lose, ArriveBad, ingest_line_bad, vars, history
<1>2. ASSUME NEW t \in Timestamps PROVE ~TickLines(t)
  BY DEF TickLines, arbitrator_tick, Tick
<1>3. ASSUME NEW t \in Timestamps, NEW l \in FeedLine PROVE ~ArriveHeartbeat(l, t)
  BY DEF ArriveHeartbeat, ingest_line_heartbeat, IngestHeartbeat
<1>4. PICK t \in Timestamps, l \in FeedLine : Arrive(l, t) BY <1>1, <1>2, <1>3 DEF NextLines
<1>5. pos[l] \in Indices
  BY <1>4, StreamAssumption DEF Arrive, LinesInv, LineInv, OnWire, Indices
<1> DEFINE p == Stream[pos[l]]
<1>6. Ingest(p, t) BY <1>4 DEF Arrive, ingest_line
<1>7. IngestGap(p, t) BY <1>6 DEF Ingest, IngestDuplicate, IngestInOrder
<1>8. /\ next_expected' = Expected(p.seq_num) /\ p.seq_num > next_expected'
      /\ e.first = next_expected'
  BY <1>7 DEF IngestGap
<1>9. QED BY <1>4, <1>5, <1>8

\* The first number of an event's range is of a datagram that a line has lost.
LEMMA EventsAreOfHoles ==
    ASSUME LinesInv, LinesInv', NextLines, NEW e \in gap_events' \ gap_events,
           NEW k \in Indices, Stream[k].seq_num = e.first, ~(stats'.overflows > 0)
    PROVE  ~Came(k)' /\ \E l \in FeedLine : Passed(l, k)' /\ k \in lost'[l]
<1>1. PICK l \in FeedLine, t \in Timestamps :
              /\ pos[l] \in Indices /\ Arrive(l, t)
              /\ Stream[pos[l]].seq_num > next_expected' /\ e.first = next_expected'
  BY EventsAreFromGaps
<1>2. /\ Stream[k].seq_num \in Nat /\ EndOfPacket(Stream[k]) \in Nat
      /\ Stream[k].seq_num < EndOfPacket(Stream[k]) /\ Stream[pos[l]].seq_num \in Nat
  BY <1>1, StreamFacts, StreamPacket DEF Indices
<1>3. Stream[k].seq_num = next_expected' BY <1>1
<1>4. ~Came(k)'
  <2>1. SUFFICES ASSUME Came(k)' PROVE FALSE OBVIOUS
  <2>2. PICK q \in received' : q.pkt = Stream[k] BY <2>1 DEF LinesInv, LineInv
  <2>3. \/ EndOfPacket(q.pkt) <= next_expected' \/ Holds(slots', q.pkt.seq_num)
        \/ stats'.overflows > 0
    BY DEF LinesInv, FramedInv, ReceivedIsKept, Holds, SlotOf, EndOfPacket
  <2>4. Holds(slots', Stream[k].seq_num) BY <1>2, <1>3, <2>2, <2>3
  <2>5. DOMAIN slots' = 0 .. kCapacity - 1 BY DEF LinesInv, IInv, TypeOK
  <2> DEFINE i == Stream[k].seq_num % kCapacity
  <2>6. i \in DOMAIN slots' BY <1>2, <2>5, IndexInRange
  <2>7. slots'[i].occupied /\ slots'[i].seq_num = Stream[k].seq_num
    BY <2>4 DEF Holds, SlotOf
  <2>8. slots'[i].seq_num > next_expected' BY <2>6, <2>7 DEF LinesInv, FramedInv, NoStaleSlot
  <2>9. QED BY <1>2, <1>3, <2>7, <2>8
<1>5. k < pos[l]
  <2>1. Stream[k].seq_num < Stream[pos[l]].seq_num BY <1>1, <1>2, <1>3
  <2>2. QED BY <1>1, <2>1, StreamFacts, StreamNumbers DEF Indices
<1>6. pos'[l] = pos[l] + 1 BY <1>1 DEF Arrive, LinesInv, LineInv
<1>7. Passed(l, k)' BY <1>1, <1>5, <1>6, StreamAssumption DEF Passed, Indices
<1>8. k \in lost'[l] BY <1>4, <1>7 DEF Came
<1>9. QED BY <1>4, <1>7, <1>8

\* Behind the arbitrator an event is about a hole: a datagram that one line has
\* lost and neither has brought.
THEOREM EventsOnlyForHoles == SpecLines => EventMeansALineLostIt
<1>1. LinesInv /\ LinesInv' /\ [NextLines]_allVars
        => [\A e \in gap_events' \ gap_events : \A k \in 1 .. Len(Stream) :
              Stream[k].seq_num = e.first =>
                  \/ stats'.overflows > 0
                  \/ ~Came(k)' /\ \E l \in FeedLine : Passed(l, k)' /\ k \in lost'[l]]_allVars
  <2>1. SUFFICES ASSUME LinesInv, LinesInv', [NextLines]_allVars, allVars' # allVars,
                        NEW e \in gap_events' \ gap_events, NEW k \in Indices,
                        Stream[k].seq_num = e.first, ~(stats'.overflows > 0)
                 PROVE  ~Came(k)' /\ \E l \in FeedLine : Passed(l, k)' /\ k \in lost'[l]
    BY DEF Indices
  <2>2. QED BY <2>1, EventsAreOfHoles
<1>2. QED BY <1>1, LinesInvariance, PTL DEF SpecLines, EventMeansALineLostIt

-----------------------------------------------------------------------------
(* Attribution.                                                            *)

LineType == [packets : Nat, seq_won : Nat, redundant : Nat, last_win : Nat, bad : Nat]
AttributionInv == lines \in [FeedLine -> LineType] /\ AttributionExact

\* The bookkeeping of a call that delivered c messages.
LEMMA AttributeKeeps ==
    ASSUME IInv, IInv', AttributionInv, NEW l \in FeedLine, NEW t \in Timestamps, NEW c \in Nat,
           Attribute(l, t, c),
           next_expected' - synced_at' = next_expected - synced_at + c,
           stats'.packets + stats'.heartbeats = stats.packets + stats.heartbeats + 1
    PROVE  AttributionInv'
<1>1. /\ next_expected \in Nat /\ synced_at \in Nat /\ next_expected' \in Nat /\ synced_at' \in Nat
      /\ stats.packets \in Nat /\ stats.heartbeats \in Nat
      /\ stats'.packets \in Nat /\ stats'.heartbeats \in Nat
  BY DEF IInv, TypeOK, StatsType
<1>2. t \in Nat /\ t # 0 BY TimeAssumption
<1>3. lines \in [FeedLine -> LineType] BY DEF AttributionInv
<1>4. /\ lines' \in [FeedLine -> LineType]
      /\ \A m \in FeedLine : m # l => lines'[m] = lines[m]
      /\ lines'[l].packets = lines[l].packets + 1
      /\ lines'[l].seq_won = lines[l].seq_won + c
      /\ lines'[l].bad = lines[l].bad
      /\ lines'[l].redundant = lines[l].redundant + (IF c > 0 THEN 0 ELSE 1)
      /\ lines'[l].last_win = IF c > 0 THEN t ELSE lines[l].last_win
  BY <1>2, <1>3 DEF Attribute, LineType
<1>5. lines' \in [FeedLine -> LineType] BY <1>4
<1>6. /\ lines[l].packets \in Nat /\ lines[l].seq_won \in Nat /\ lines[l].redundant \in Nat
      /\ lines[l].last_win \in Nat /\ lines[l].bad \in Nat
  BY <1>3 DEF LineType
<1>7. \A m \in FeedLine :
        /\ lines'[m].redundant + lines'[m].bad <= lines'[m].packets
        /\ lines'[m].packets - lines'[m].redundant - lines'[m].bad <= lines'[m].seq_won
        /\ lines'[m].seq_won > 0 <=> lines'[m].last_win # 0
  <2>1. SUFFICES ASSUME NEW m \in FeedLine
                 PROVE  /\ lines'[m].redundant + lines'[m].bad <= lines'[m].packets
                        /\ lines'[m].packets - lines'[m].redundant - lines'[m].bad
                             <= lines'[m].seq_won
                        /\ lines'[m].seq_won > 0 <=> lines'[m].last_win # 0
    OBVIOUS
  <2>2. CASE m # l BY <1>4, <2>2 DEF AttributionInv, AttributionExact
  <2>3. CASE m = l
    <3>1. /\ lines[l].redundant + lines[l].bad <= lines[l].packets
          /\ lines[l].packets - lines[l].redundant - lines[l].bad <= lines[l].seq_won
          /\ lines[l].seq_won > 0 <=> lines[l].last_win # 0
      BY DEF AttributionInv, AttributionExact
    <3>2. CASE c > 0 BY <1>2, <1>4, <1>6, <2>3, <3>1, <3>2
    <3>3. CASE ~(c > 0) BY <1>2, <1>4, <1>6, <2>3, <3>1, <3>3
    <3>4. QED BY <3>2, <3>3
  <2>4. QED BY <2>2, <2>3
<1>8. /\ lines'["A"].seq_won + lines'["B"].seq_won = next_expected' - synced_at'
      /\ lines'["A"].packets + lines'["B"].packets
           = stats'.packets + stats'.heartbeats + lines'["A"].bad + lines'["B"].bad
  <2>1. /\ lines["A"].seq_won + lines["B"].seq_won = next_expected - synced_at
        /\ lines["A"].packets + lines["B"].packets
             = stats.packets + stats.heartbeats + lines["A"].bad + lines["B"].bad
    BY DEF AttributionInv, AttributionExact
  <2>2. ASSUME NEW m \in FeedLine
        PROVE  lines[m].packets \in Nat /\ lines[m].seq_won \in Nat /\ lines[m].bad \in Nat
    BY DEF AttributionInv, LineType
  <2>3. "A" \in FeedLine /\ "B" \in FeedLine /\ "A" # "B" BY DEF FeedLine
  <2>4. CASE l = "A"
    <3>1. lines'["B"] = lines["B"] BY <1>4, <2>3, <2>4
    <3>2. /\ lines'["A"].packets = lines["A"].packets + 1
          /\ lines'["A"].seq_won = lines["A"].seq_won + c
          /\ lines'["A"].bad = lines["A"].bad
      BY <1>4, <2>4
    <3>3. /\ (lines["A"].seq_won + c) + lines["B"].seq_won = next_expected - synced_at + c
          /\ (lines["A"].packets + 1) + lines["B"].packets
               = stats.packets + stats.heartbeats + 1 + lines["A"].bad + lines["B"].bad
      BY <1>1, <2>1, <2>2, <2>3
    <3>4. /\ lines'["A"].seq_won + lines'["B"].seq_won = next_expected' - synced_at'
          /\ lines'["A"].packets + lines'["B"].packets
               = stats'.packets + stats'.heartbeats + lines'["A"].bad + lines'["B"].bad
      BY <3>1, <3>2, <3>3
    <3>5. QED BY <1>5, <2>3, <3>4 DEF LineType
  <2>5. CASE l = "B"
    <3>1. lines'["A"] = lines["A"] BY <1>4, <2>3, <2>5
    <3>2. /\ lines'["B"].packets = lines["B"].packets + 1
          /\ lines'["B"].seq_won = lines["B"].seq_won + c
          /\ lines'["B"].bad = lines["B"].bad
      BY <1>4, <2>5
    <3>3. /\ (lines["B"].seq_won + c) + lines["A"].seq_won = next_expected - synced_at + c
          /\ (lines["B"].packets + 1) + lines["A"].packets
               = stats.packets + stats.heartbeats + 1 + lines["A"].bad + lines["B"].bad
      BY <1>1, <2>1, <2>2, <2>3
    <3>4. /\ lines'["B"].seq_won + lines'["A"].seq_won = next_expected' - synced_at'
          /\ lines'["B"].packets + lines'["A"].packets
               = stats'.packets + stats'.heartbeats + lines'["A"].bad + lines'["B"].bad
      BY <3>1, <3>2, <3>3
    <3>5. QED BY <1>5, <2>3, <3>4 DEF LineType
  <2>6. QED BY <2>4, <2>5 DEF FeedLine
<1>9. QED BY <1>5, <1>7, <1>8 DEF AttributionInv, AttributionExact

\* Every call keeps the credits exact.
LEMMA AttributionStep ==
    ASSUME LinesInv, LinesInv', AttributionInv, [NextLines]_allVars
    PROVE  AttributionInv'
<1>0. IInv /\ IInv' /\ Monotone
  BY LinesInvStep, StepIsMonotone DEF LinesInv
<1>1. CASE lines' = lines /\ UNCHANGED <<next_expected, synced_at>>
           /\ stats'.packets = stats.packets /\ stats'.heartbeats = stats.heartbeats
  BY <1>1 DEF AttributionInv, AttributionExact
<1>2. CASE UNCHANGED allVars BY <1>1, <1>2 DEF allVars, lineVars, vars, history
<1>3. ASSUME NEW l \in FeedLine, Lose(l) PROVE AttributionInv'
  BY <1>1, <1>3 DEF Lose, vars, history
<1>4. ASSUME NEW t \in Timestamps, TickLines(t) PROVE AttributionInv'
  <2>1. stats \in StatsType BY <1>0 DEF IInv, TypeOK
  <2>2. stats'.packets = stats.packets /\ stats'.heartbeats = stats.heartbeats
    BY <1>4, <2>1 DEF TickLines, arbitrator_tick, Tick, StatsType
  <2>3. QED BY <1>1, <1>4, <2>2 DEF TickLines, arbitrator_tick, Tick
<1>5. ASSUME NEW l \in FeedLine, ArriveBad(l) PROVE AttributionInv'
  <2>1. UNCHANGED <<next_expected, synced_at, stats>>
    BY <1>5 DEF ArriveBad, ingest_line_bad, vars, history
  <2>2. lines' = [lines EXCEPT ![l].packets = @ + 1, ![l].bad = @ + 1]
    BY <1>5 DEF ArriveBad, ingest_line_bad
  <2>3. /\ lines' \in [FeedLine -> LineType]
        /\ \A m \in FeedLine : m # l => lines'[m] = lines[m]
        /\ lines'[l].packets = lines[l].packets + 1
        /\ lines'[l].bad = lines[l].bad + 1 /\ lines'[l].seq_won = lines[l].seq_won
        /\ lines'[l].redundant = lines[l].redundant /\ lines'[l].last_win = lines[l].last_win
    BY <2>2 DEF AttributionInv, LineType
  <2>4. \A m \in FeedLine : m # l => lines'[m] = lines[m] BY <2>3
  <2>5. ASSUME NEW m \in FeedLine
        PROVE  /\ lines[m].packets \in Nat /\ lines[m].seq_won \in Nat
               /\ lines[m].redundant \in Nat /\ lines[m].bad \in Nat
    BY DEF AttributionInv, LineType
  <2>6. ASSUME NEW m \in FeedLine
        PROVE  /\ lines'[m].redundant + lines'[m].bad <= lines'[m].packets
               /\ lines'[m].packets - lines'[m].redundant - lines'[m].bad <= lines'[m].seq_won
               /\ lines'[m].seq_won > 0 <=> lines'[m].last_win # 0
    <3>1. CASE m # l BY <2>4, <3>1 DEF AttributionInv, AttributionExact
    <3>2. CASE m = l BY <2>3, <2>5, <3>2 DEF AttributionInv, AttributionExact
    <3>3. QED BY <3>1, <3>2
  <2>7. /\ lines'["A"].seq_won + lines'["B"].seq_won = next_expected' - synced_at'
        /\ lines'["A"].packets + lines'["B"].packets
             = stats'.packets + stats'.heartbeats + lines'["A"].bad + lines'["B"].bad
    <3>1. "A" \in FeedLine /\ "B" \in FeedLine /\ "A" # "B" BY DEF FeedLine
    <3>2. stats.packets \in Nat /\ stats.heartbeats \in Nat BY <1>0 DEF IInv, TypeOK, StatsType
    <3>3. /\ lines["A"].seq_won + lines["B"].seq_won = next_expected - synced_at
          /\ lines["A"].packets + lines["B"].packets
               = stats.packets + stats.heartbeats + lines["A"].bad + lines["B"].bad
      BY DEF AttributionInv, AttributionExact
    <3>4. CASE l = "A"
      <4>1. lines'["B"] = lines["B"] BY <2>4, <3>1, <3>4
      <4>2. QED BY <2>1, <2>3, <2>5, <3>1, <3>2, <3>3, <3>4, <4>1
    <3>5. CASE l = "B"
      <4>1. lines'["A"] = lines["A"] BY <2>4, <3>1, <3>5
      <4>2. QED BY <2>1, <2>3, <2>5, <3>1, <3>2, <3>3, <3>5, <4>1
    <3>6. QED BY <3>4, <3>5 DEF FeedLine
  <2>8. QED BY <2>3, <2>6, <2>7 DEF AttributionInv, AttributionExact
<1>6. ASSUME NEW t \in Timestamps, NEW l \in FeedLine, Arrive(l, t) PROVE AttributionInv'
  <2>1. pos[l] \in Indices
    BY <1>6, StreamAssumption DEF Arrive, LinesInv, LineInv, OnWire, Indices
  <2>2. Stream[pos[l]] \in Packets BY <2>1, StreamFacts
  <2>3. Ingest(Stream[pos[l]], t) /\ Attribute(l, t, DeliveredNow)
    BY <1>6 DEF Arrive, ingest_line
  <2>4. /\ stats'.packets = stats.packets + 1 /\ stats'.heartbeats = stats.heartbeats
        /\ stats.packets \in Nat /\ stats.heartbeats \in Nat
    BY <1>0, <2>2, <2>3, IngestReceives
  <2>5. stats'.packets + stats'.heartbeats = stats.packets + stats.heartbeats + 1 BY <2>4
  <2>6. DeliveredNow = NewlyDelivered BY DEF DeliveredNow, NewlyDelivered
  <2>7. QED BY <1>0, <2>3, <2>5, <2>6, DeliveredGrows, AttributeKeeps
<1>7. ASSUME NEW t \in Timestamps, NEW l \in FeedLine, ArriveHeartbeat(l, t)
      PROVE  AttributionInv'
  <2>1. pos[l] \in Indices
    BY <1>7, StreamAssumption DEF ArriveHeartbeat, LinesInv, LineInv, OnWire, Indices
  <2>2. Stream[pos[l]].seq_num \in HeartbeatSeqs BY <2>1, StreamFacts
  <2>3. IngestHeartbeat(Stream[pos[l]].seq_num, t) /\ Attribute(l, t, 0)
    BY <1>7 DEF ArriveHeartbeat, ingest_line_heartbeat
  <2>4. /\ stats'.packets = stats.packets /\ stats'.heartbeats = stats.heartbeats + 1
        /\ stats.packets \in Nat /\ stats.heartbeats \in Nat /\ delivered' = delivered
    BY <1>0, <2>2, <2>3, HeartbeatFacts
  <2>5. stats'.packets + stats'.heartbeats = stats.packets + stats.heartbeats + 1 BY <2>4
  <2>6. next_expected' - synced_at' = next_expected - synced_at + 0
    <3>1. Cardinality(delivered) = next_expected - synced_at BY <1>0, DeliveredCount
    <3>2. Cardinality(delivered') = next_expected' - synced_at' BY <1>0, DeliveredCountNext
    <3>3. next_expected \in Nat /\ synced_at \in Nat BY <1>0 DEF IInv, TypeOK
    <3>4. QED BY <2>4, <3>1, <3>2, <3>3
  <2>7. QED BY <1>0, <2>3, <2>5, <2>6, AttributeKeeps
<1>8. QED BY <1>2, <1>3, <1>4, <1>5, <1>6, <1>7 DEF NextLines

\* It holds in every reachable state.
LEMMA AttributionInvariance == SpecLines => []AttributionInv
<1>1. InitLinesAndBuffer => AttributionInv
  BY DEF InitLinesAndBuffer, InitLines, Init, AttributionInv, AttributionExact, LineType, FeedLine
<1>2. LinesInv /\ LinesInv' /\ AttributionInv /\ [NextLines]_allVars => AttributionInv'
  BY AttributionStep
<1>3. QED BY <1>1, <1>2, LinesInvariance, PTL DEF SpecLines

\* Every delivered message is credited to exactly one line.
THEOREM CreditIsExact == SpecLines => []AttributionExact
<1>1. AttributionInv => AttributionExact BY DEF AttributionInv
<1>2. QED BY <1>1, AttributionInvariance, PTL

-----------------------------------------------------------------------------
(* Lines that look dark.                                                   *)

\* With a clock that does not step back: arrivals and wins are past, and every
\* delivered message arrived no later than some line's last win.
LitInv ==
    /\ clock \in 0 .. TimeMod - 1
    /\ \A r \in received : r.at <= clock
    /\ \A l \in FeedLine : lines[l].last_win <= clock
    /\ \A m \in delivered : \E l \in FeedLine : m.recv_ns <= lines[l].last_win

\* Arrival times are numbers other than 0.
LEMMA ArrivalTimes ==
    ASSUME IInv, NEW r \in received PROVE r.at \in Nat /\ r.at # 0
<1>1. r.at \in Timestamps BY DEF IInv, TypeOK
<1>2. \A t \in Timestamps : t \in Nat /\ t # 0 BY TimeAssumption
<1>3. QED BY <1>1, <1>2

\* A call on line l at t that delivered what is new keeps LitInv.
LEMMA LitAttribute ==
    ASSUME IInv, IInv', AttributionInv, AttributionInv', LitInv,
           NEW l \in FeedLine, NEW t \in Timestamps, NEW c \in Nat,
           Attribute(l, t, c), clock <= t, clock' = t,
           \A r \in received' : r \in received \/ r.at = t,
           c = 0 => delivered' = delivered
    PROVE  LitInv'
<1>1. t \in Nat /\ t \in 0 .. TimeMod - 1 /\ clock \in Nat BY TimeAssumption DEF LitInv
<1>2. lines \in [FeedLine -> LineType] BY DEF AttributionInv
<1>3. /\ \A m \in FeedLine : m # l => lines'[m] = lines[m]
      /\ lines'[l].last_win = IF c > 0 THEN t ELSE lines[l].last_win
  BY <1>2 DEF Attribute, LineType
<1>4. \A m \in FeedLine : lines[m].last_win \in Nat /\ lines[m].last_win <= t
  BY <1>1, <1>2 DEF LineType, LitInv
<1>5. \A r \in received' : r.at <= t
  <2>1. \A r \in received : r.at \in Nat /\ r.at <= clock BY ArrivalTimes DEF LitInv
  <2>2. \A r \in received : r.at <= t BY <1>1, <2>1
  <2>3. t <= t BY <1>1
  <2>4. QED BY <2>2, <2>3
<1>6. \A m \in FeedLine : lines[m].last_win <= lines'[m].last_win /\ lines'[m].last_win <= t
  <2>1. SUFFICES ASSUME NEW m \in FeedLine
                 PROVE  lines[m].last_win <= lines'[m].last_win /\ lines'[m].last_win <= t
    OBVIOUS
  <2>2. CASE m # l BY <1>3, <1>4, <2>2
  <2>3. CASE m = l BY <1>1, <1>3, <1>4, <2>3
  <2>4. QED BY <2>2, <2>3
<1>7. ASSUME NEW d \in delivered'
      PROVE  \E m \in FeedLine : d.recv_ns <= lines'[m].last_win
  <2>1. CASE c > 0
    <3>1. PICK r \in received' : r.at = d.recv_ns BY DEF IInv, ArrivalTimePreserved
    <3>2. lines'[l].last_win = t BY <1>3, <2>1
    <3>3. QED BY <1>5, <3>1, <3>2
  <2>2. CASE ~(c > 0)
    <3>1. d \in delivered BY <2>2
    <3>2. PICK m \in FeedLine : d.recv_ns <= lines[m].last_win BY <3>1 DEF LitInv
    <3>3. lines'[m] = lines[m] \/ lines'[m].last_win = lines[m].last_win BY <1>3, <2>2
    <3>4. QED BY <3>2, <3>3
  <2>3. QED BY <2>1, <2>2
<1>8. QED BY <1>1, <1>5, <1>6, <1>7 DEF LitInv

\* Every step keeps it.
LEMMA LitStep ==
    ASSUME ~ClockMayStepBack, LinesInv, LinesInv', AttributionInv, AttributionInv', LitInv,
           [NextLines]_allVars
    PROVE  LitInv'
<1>0. IInv /\ IInv' /\ Monotone BY LinesInvStep, StepIsMonotone DEF LinesInv
<1>1. CASE UNCHANGED <<clock, received, delivered, lines>> BY <1>1 DEF LitInv
<1>2. CASE UNCHANGED allVars BY <1>1, <1>2 DEF allVars, lineVars, vars, history
<1>3. ASSUME NEW l \in FeedLine, Lose(l) PROVE LitInv'
  BY <1>1, <1>3 DEF Lose, vars, history
<1>4. ASSUME NEW l \in FeedLine, ArriveBad(l) PROVE LitInv'
  <2>1. UNCHANGED <<clock, received, delivered>>
    BY <1>4 DEF ArriveBad, ingest_line_bad, vars, history
  <2>2. \A m \in FeedLine : lines'[m].last_win = lines[m].last_win
    BY <1>4 DEF ArriveBad, ingest_line_bad, AttributionInv, LineType
  <2>3. QED BY <2>1, <2>2 DEF LitInv
<1>5. ASSUME NEW t \in Timestamps, TickLines(t) PROVE LitInv'
  <2>1. UNCHANGED <<lines, received, delivered>> /\ clock' = t /\ clock <= t
    BY <1>5 DEF TickLines, arbitrator_tick, Tick, CallAt
  <2>2. t \in Nat /\ t \in 0 .. TimeMod - 1 /\ clock \in Nat BY TimeAssumption DEF LitInv
  <2>3. \A r \in received : r.at <= t
    <3>1. \A r \in received : r.at \in Nat /\ r.at <= clock BY <1>0, ArrivalTimes DEF LitInv
    <3>2. QED BY <2>1, <2>2, <3>1
  <2>4. \A m \in FeedLine : lines[m].last_win <= t
    BY <2>1, <2>2 DEF LitInv, AttributionInv, LineType
  <2>5. QED BY <2>1, <2>2, <2>3, <2>4 DEF LitInv
<1>6. ASSUME NEW t \in Timestamps, NEW l \in FeedLine, Arrive(l, t) PROVE LitInv'
  <2>1. pos[l] \in Indices
    BY <1>6, StreamAssumption DEF Arrive, LinesInv, LineInv, OnWire, Indices
  <2>2. Stream[pos[l]] \in Packets BY <2>1, StreamFacts
  <2>3. Ingest(Stream[pos[l]], t) /\ Attribute(l, t, DeliveredNow)
    BY <1>6 DEF Arrive, ingest_line
  <2>4. /\ received' = received \cup {[pkt |-> Stream[pos[l]], at |-> t]}
        /\ clock' = t /\ clock <= t
    BY <1>0, <2>2, <2>3, IngestReceives
  <2>5. \A r \in received' : r \in received \/ r.at = t BY <2>4
  <2>6. DeliveredNow = NewlyDelivered BY DEF DeliveredNow, NewlyDelivered
  <2>7. QED BY <1>0, <2>3, <2>4, <2>5, <2>6, DeliveredGrows, LitAttribute
<1>7. ASSUME NEW t \in Timestamps, NEW l \in FeedLine, ArriveHeartbeat(l, t) PROVE LitInv'
  <2>1. pos[l] \in Indices
    BY <1>7, StreamAssumption DEF ArriveHeartbeat, LinesInv, LineInv, OnWire, Indices
  <2>2. Stream[pos[l]].seq_num \in HeartbeatSeqs BY <2>1, StreamFacts
  <2>3. IngestHeartbeat(Stream[pos[l]].seq_num, t) /\ Attribute(l, t, 0)
    BY <1>7 DEF ArriveHeartbeat, ingest_line_heartbeat
  <2>4. received' = received /\ delivered' = delivered /\ clock' = t /\ clock <= t
    BY <1>0, <2>2, <2>3, HeartbeatFacts
  <2>5. 0 \in Nat OBVIOUS
  <2>6. QED BY <1>0, <2>3, <2>4, <2>5, LitAttribute
<1>8. QED BY <1>2, <1>3, <1>4, <1>5, <1>6, <1>7 DEF NextLines

\* From it, the query.
LEMMA LitSuffices ==
    ASSUME IInv, AttributionInv, LitInv PROVE DeliveryKeepsALineLit
<1>1. SUFFICES ASSUME NEW t \in clock .. TimeMod - 1, NEW stale \in 0 .. TimeMod - 1,
                      \A l \in FeedLine : line_looks_dark(l, t, stale), NEW d \in delivered
               PROVE  d.recv_ns + stale < t
  BY DEF DeliveryKeepsALineLit
<1>2. PICK l \in FeedLine : d.recv_ns <= lines[l].last_win BY DEF LitInv
<1> DEFINE w == lines[l].last_win
<1>3. w \in Nat /\ w <= clock /\ clock \in Nat /\ TimeMod \in Nat \ {0} /\ stale \in Nat
  BY TimeAssumption DEF LitInv, AttributionInv, LineType
<1>4. d.recv_ns \in Nat /\ d.recv_ns # 0
  <2>1. PICK r \in received : r.at = d.recv_ns BY DEF IInv, ArrivalTimePreserved
  <2>2. QED BY <2>1, ArrivalTimes
<1>5. w # 0 BY <1>2, <1>3, <1>4
<1>6. (t - w) % TimeMod > stale BY <1>1, <1>5 DEF line_looks_dark
<1> HIDE DEF w
<1>7. t \in Nat /\ t - w \in 0 .. TimeMod - 1 BY <1>3
<1>8. (t - w) % TimeMod = t - w BY <1>3, <1>7
<1>9. t - w > stale BY <1>6, <1>8
<1>10. d.recv_ns <= w BY <1>2 DEF w
<1>11. QED BY <1>3, <1>4, <1>7, <1>9, <1>10

\* Both lines look dark only if nothing that arrived lately was delivered, for
\* a caller whose clock does not step back.
THEOREM ALineStaysLit == ~ClockMayStepBack => (SpecLines => []DeliveryKeepsALineLit)
<1> SUFFICES ASSUME ~ClockMayStepBack PROVE SpecLines => []DeliveryKeepsALineLit OBVIOUS
<1>1. InitLinesAndBuffer => LitInv
  BY TimeAssumption DEF InitLinesAndBuffer, Init, InitLines, LitInv, FeedLine
<1>2. LinesInv /\ LinesInv' /\ AttributionInv /\ AttributionInv' /\ LitInv
        /\ [NextLines]_allVars => LitInv'
  BY LitStep
<1>3. LinesInv /\ AttributionInv /\ LitInv => DeliveryKeepsALineLit
  BY LitSuffices DEF LinesInv
<1>4. QED BY <1>1, <1>2, <1>3, LinesInvariance, AttributionInvariance, PTL DEF SpecLines

=============================================================================

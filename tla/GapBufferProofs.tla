--------------------------- MODULE GapBufferProofs ---------------------------
(***************************************************************************)
(* Theorems about GapBuffer for every ring size, configuration, set of     *)
(* datagrams and clock, in three parts.                                    *)
(*                                                                         *)
(* States: flush_buffer's chain is an unbroken run of datagrams that ends  *)
(* where the ring holds nothing (FlushChain); IInv is inductive; the       *)
(* properties are conjuncts of IInv.                                       *)
(*                                                                         *)
(* Calls: a call refines the abstract in-order feed, asks only for         *)
(* messages that are missing, reports a gap once, and asks no more often   *)
(* than the configuration allows.  The first two follow from IInv before   *)
(* and after the call; the others need what an event or a request leaves   *)
(* behind (EventInv, RateInv).                                             *)
(*                                                                         *)
(* Uniform framing: on a feed that is always cut into datagrams the same   *)
(* way, as an exchange's line is, no slot goes stale, nothing that was     *)
(* received is stranded without an overflow being counted, and an overflow *)
(* means a datagram from more than a ring away.  (On a feed that the       *)
(* retransmission server frames anew none of the three holds: run          *)
(* stranded_message.)                                                      *)
(***************************************************************************)
EXTENDS GapBuffer, Sequences, Arithmetic

-----------------------------------------------------------------------------
(* Arithmetic.                                                             *)

\* A ring index is a remainder by the capacity.
LEMMA IndexInRange ==
    ASSUME NEW s \in Nat
    PROVE  s % kCapacity \in 0 .. kCapacity - 1
BY CapacityAssumption

\* A nonempty bounded set of naturals has a greatest element.
LEMMA GreatestExists ==
    ASSUME NEW S \in SUBSET Nat, S # {}, NEW b \in Nat, \A x \in S : x <= b
    PROVE  Greatest(S) \in S /\ \A y \in S : y <= Greatest(S)
<1> DEFINE T == {b - x : x \in S}
<1>1. T \in SUBSET Nat /\ T # {}
  <2>1. \A x \in S : b - x \in Nat OBVIOUS
  <2>2. QED BY <2>1
<1>2. PICK m \in T : \A y \in T : m <= y BY <1>1, LeastExists
<1>3. PICK x \in S : m = b - x BY <1>2
<1>4. \A y \in S : b - x <= b - y BY <1>2, <1>3
<1>5. \A y \in S : y <= x BY <1>4
<1>6. QED BY <1>5 DEF Greatest

\* The greater of two naturals.
LEMMA GreatestOfTwo ==
    ASSUME NEW x \in Nat, NEW y \in Nat
    PROVE  /\ Greatest({x, y}) \in Nat
           /\ Greatest({x, y}) = IF x <= y THEN y ELSE x
<1>1. \E z \in {x, y} : \A w \in {x, y} : w <= z OBVIOUS
<1>2. Greatest({x, y}) \in {x, y} /\ \A w \in {x, y} : w <= Greatest({x, y})
  BY <1>1 DEF Greatest
<1>3. QED BY <1>2

-----------------------------------------------------------------------------
(* The ring.                                                               *)

\* A ring whose datagrams all end at or before b.
RingUpTo(sl, b) ==
    /\ sl \in [0 .. kCapacity - 1 -> SlotType]
    /\ \A i \in 0 .. kCapacity - 1 : sl[i].occupied => sl[i].seq_num + sl[i].kept <= b

\* Facts about one slot.
LEMMA SlotFacts ==
    ASSUME NEW sl \in [0 .. kCapacity - 1 -> SlotType], NEW s \in Nat
    PROVE  /\ SlotOf(sl, s) \in SlotType
           /\ EndOf(sl, s) \in Nat /\ s <= EndOf(sl, s)
<1>1. SlotOf(sl, s) \in SlotType BY IndexInRange DEF SlotOf
<1>2. SlotOf(sl, s).kept \in Nat BY <1>1 DEF SlotType
<1>3. QED BY <1>1, <1>2 DEF EndOf

\* The buffered datagrams are numbers that the ring holds, and all of them.
LEMMA StartsFacts ==
    ASSUME NEW sl \in [0 .. kCapacity - 1 -> SlotType]
    PROVE  /\ Starts(sl) \in SUBSET Nat
           /\ \A s \in Nat : s \in Starts(sl) <=> Holds(sl, s)
<1>1. Starts(sl) \in SUBSET Nat
  BY DEF Starts, SlotType
<1>2. ASSUME NEW s \in Nat, Holds(sl, s) PROVE s \in Starts(sl)
  BY <1>2, IndexInRange DEF Starts, Holds, SlotOf
<1>3. QED BY <1>1, <1>2 DEF Starts

\* Flushed is a closed set of buffered datagrams, contained in every other.
LEMMA FlushedIsLeast ==
    ASSUME NEW sl \in [0 .. kCapacity - 1 -> SlotType], NEW n \in Nat
    PROVE  /\ Flushed(sl, n) \in SUBSET Starts(sl)
           /\ ChainClosed(Flushed(sl, n), sl, n)
           /\ \A V \in SUBSET Starts(sl) : ChainClosed(V, sl, n) => Flushed(sl, n) \subseteq V
<1> DEFINE F == Flushed(sl, n)
<1>1. F \in SUBSET Starts(sl)
  BY DEF Flushed
<1>2. \A V \in SUBSET Starts(sl) : ChainClosed(V, sl, n) => F \subseteq V
  BY DEF Flushed
<1>3. Holds(sl, n) => n \in F
  BY StartsFacts DEF Flushed, ChainClosed
<1>4. ASSUME NEW v \in F, Holds(sl, EndOf(sl, v)) PROVE EndOf(sl, v) \in F
  <2>1. v \in Starts(sl) /\ v \in Nat BY <1>1, <1>4, StartsFacts
  <2>2. EndOf(sl, v) \in Starts(sl) BY <2>1, <1>4, SlotFacts, StartsFacts
  <2>3. ASSUME NEW V \in SUBSET Starts(sl), ChainClosed(V, sl, n) PROVE EndOf(sl, v) \in V
    <3>1. v \in V BY <2>3, <1>2, <1>4
    <3>2. QED BY <3>1, <2>3, <1>4 DEF ChainClosed
  <2>4. QED BY <2>2, <2>3 DEF Flushed
<1>5. ChainClosed(F, sl, n)
  BY <1>3, <1>4 DEF ChainClosed
<1>6. QED BY <1>1, <1>2, <1>5

\* flush_buffer delivers an unbroken run: its datagrams start at or after n,
\* end at or before the new next_expected_ m, do not overlap, cover n .. m - 1,
\* and nothing that starts at m stays behind.
LEMMA FlushChain ==
    ASSUME NEW sl, NEW b \in Nat, RingUpTo(sl, b), NEW n \in Nat, n <= b
    PROVE  LET F == Flushed(sl, n)
               m == AfterFlush(sl, n)
           IN  /\ m \in Nat /\ n <= m
               /\ \A v \in F : /\ v \in Nat /\ Holds(sl, v)
                               /\ n <= v /\ EndOf(sl, v) <= m
               /\ \A v, w \in F : v < w => EndOf(sl, v) <= w
               /\ \A s \in n .. m - 1 : \E v \in F : v <= s /\ s < EndOf(sl, v)
               /\ Holds(sl, m) => m \in F
<1> DEFINE F == Flushed(sl, n)
           m == AfterFlush(sl, n)
           E == {n} \cup {EndOf(sl, v) : v \in F}
<1>0. sl \in [0 .. kCapacity - 1 -> SlotType] BY DEF RingUpTo
<1>1. /\ F \in SUBSET Starts(sl)
      /\ ChainClosed(F, sl, n)
      /\ \A V \in SUBSET Starts(sl) : ChainClosed(V, sl, n) => F \subseteq V
  BY <1>0, FlushedIsLeast
<1>2. \A v \in F : v \in Nat /\ Holds(sl, v) /\ EndOf(sl, v) \in Nat /\ v <= EndOf(sl, v)
  BY <1>0, <1>1, StartsFacts, SlotFacts
<1>3. \A v \in F : EndOf(sl, v) <= b
  BY <1>2, IndexInRange DEF RingUpTo, Holds, SlotOf, EndOf
<1> HIDE DEF F
<1>4. \A v \in F : Holds(sl, EndOf(sl, v)) => EndOf(sl, v) \in F
  BY <1>1 DEF ChainClosed
<1>5. Holds(sl, n) => n \in F
  BY <1>1 DEF ChainClosed
<1>6. \A v \in F : n <= v
  <2> DEFINE V == {v \in F : n <= v}
  <2>1. ChainClosed(V, sl, n) BY <1>2, <1>4, <1>5 DEF ChainClosed
  <2>2. QED BY <2>1, <1>1
<1>7. m \in E /\ \A e \in E : e <= m
  <2>1. E \in SUBSET Nat /\ E # {} /\ \A e \in E : e <= b BY <1>2, <1>3
  <2>2. m = Greatest(E) BY DEF AfterFlush, F
  <2> HIDE DEF m, E
  <2>3. QED BY <2>1, <2>2, GreatestExists
<1>8. m \in Nat /\ n <= m /\ \A v \in F : EndOf(sl, v) <= m
  BY <1>2, <1>7
<1> HIDE DEF m
<1> DEFINE Ordered(w) == \A v \in F : v < w => EndOf(sl, v) <= w
<1>9. \A w \in F : Ordered(w)
  <2> DEFINE V == {w \in F : Ordered(w)}
  <2>1. Holds(sl, n) => n \in V BY <1>2, <1>5, <1>6
  <2>2. ASSUME NEW w \in V, Holds(sl, EndOf(sl, w)) PROVE EndOf(sl, w) \in V
    <3> DEFINE W == {v \in F : v <= w \/ EndOf(sl, w) <= v}
    <3>1. w \in F /\ Ordered(w) /\ EndOf(sl, w) \in F BY <2>2, <1>4
    <3>2. Holds(sl, n) => n \in W BY <3>1, <1>5, <1>6
    <3>3. ASSUME NEW v \in W, Holds(sl, EndOf(sl, v)) PROVE EndOf(sl, v) \in W
      <4>1. EndOf(sl, v) \in F BY <3>3, <1>4
      <4>2. CASE v < w BY <4>1, <4>2, <3>1, <1>2
      <4>3. CASE v = w BY <4>1, <4>3, <1>2
      <4>4. CASE v > w BY <4>1, <4>4, <3>1, <3>3, <1>2
      <4>5. QED BY <4>2, <4>3, <4>4, <3>1, <3>3, <1>2
    <3>4. F \subseteq W BY <3>2, <3>3, <1>1 DEF ChainClosed
    <3>5. Ordered(EndOf(sl, w))
      <4>1. SUFFICES ASSUME NEW v \in F, v < EndOf(sl, w) PROVE EndOf(sl, v) <= EndOf(sl, w)
        OBVIOUS
      <4>2. v <= w BY <4>1, <3>1, <3>4, <1>2
      <4>3. CASE v = w BY <4>3, <1>2
      <4>4. CASE v < w BY <4>4, <3>1, <1>2
      <4>5. QED BY <4>2, <4>3, <4>4, <3>1, <1>2
    <3>6. QED BY <3>1, <3>5
  <2>3. ChainClosed(V, sl, n) BY <2>1, <2>2 DEF ChainClosed
  <2>4. QED BY <2>3, <1>1
<1> DEFINE Covered(w) == \A s \in n .. w - 1 : \E v \in F : v <= s /\ s < EndOf(sl, v)
<1>10. \A w \in F : Covered(EndOf(sl, w))
  <2> DEFINE V == {w \in F : Covered(w)}
  <2>1. ASSUME NEW w \in F, Covered(w) PROVE Covered(EndOf(sl, w))
    <3>1. SUFFICES ASSUME NEW s \in n .. EndOf(sl, w) - 1
                   PROVE  \E v \in F : v <= s /\ s < EndOf(sl, v)
      OBVIOUS
    <3>2. CASE s < w BY <3>2, <2>1, <1>2
    <3>3. CASE w <= s BY <3>3, <2>1, <1>2
    <3>4. QED BY <3>2, <3>3, <2>1, <1>2
  <2>2. Holds(sl, n) => n \in V BY <1>5
  <2>3. ASSUME NEW w \in V, Holds(sl, EndOf(sl, w)) PROVE EndOf(sl, w) \in V
    BY <2>1, <2>3, <1>4
  <2>4. ChainClosed(V, sl, n) BY <2>2, <2>3 DEF ChainClosed
  <2>5. QED BY <2>1, <2>4, <1>1
<1>11. Covered(m)
  <2>1. CASE m = n BY <2>1
  <2>2. CASE \E v \in F : m = EndOf(sl, v) BY <2>2, <1>10
  <2>3. QED BY <2>1, <2>2, <1>7
<1>12. Holds(sl, m) => m \in F
  BY <1>7, <1>4, <1>5
<1>13. QED BY <1>2, <1>6, <1>8, <1>9, <1>11, <1>12 DEF F, m

\* After flush_buffer the ring is a ring, holds nothing new, and nothing at
\* the new next_expected_.
LEMMA DrainedFacts ==
    ASSUME NEW sl, NEW b \in Nat, RingUpTo(sl, b), NEW n \in Nat, n <= b
    PROVE  /\ Drained(sl, n) \in [0 .. kCapacity - 1 -> SlotType]
           /\ \A i \in 0 .. kCapacity - 1 :
                Drained(sl, n)[i].occupied => Drained(sl, n)[i] = sl[i]
           /\ ~Holds(Drained(sl, n), AfterFlush(sl, n))
<1> DEFINE D == Drained(sl, n)
           m == AfterFlush(sl, n)
<1>1. sl \in [0 .. kCapacity - 1 -> SlotType] BY DEF RingUpTo
<1>2. Free \in SlotType /\ ~Free.occupied BY DEF Free, SlotType
<1>3. D \in [0 .. kCapacity - 1 -> SlotType] BY <1>1, <1>2 DEF Drained
<1>4. \A i \in 0 .. kCapacity - 1 : D[i].occupied => D[i] = sl[i]
  BY <1>1, <1>2 DEF Drained
<1>5. m \in Nat /\ (Holds(sl, m) => m \in Flushed(sl, n)) BY FlushChain
<1>6. ASSUME Holds(D, m) PROVE FALSE
  <2>1. m % kCapacity \in 0 .. kCapacity - 1 BY <1>5, IndexInRange
  <2>2. D[m % kCapacity].occupied BY <1>6 DEF Holds, SlotOf
  <2>3. Holds(sl, m) BY <2>1, <2>2, <1>4, <1>6 DEF Holds, SlotOf
  <2>4. D[m % kCapacity] = Free BY <2>1, <2>3, <1>1, <1>5 DEF Drained
  <2>5. QED BY <2>2, <2>4, <1>2
<1>7. QED BY <1>3, <1>4, <1>6

\* buffer_packet changes at most the slot of the datagram's own number.
LEMMA BufferedFacts ==
    ASSUME NEW sl \in [0 .. kCapacity - 1 -> SlotType], NEW p \in Packets, NEW t \in Timestamps
    PROVE  /\ Buffered(sl, p, t) \in [0 .. kCapacity - 1 -> SlotType]
           /\ \A i \in 0 .. kCapacity - 1 :
                \/ Buffered(sl, p, t)[i] = sl[i]
                \/ i = p.seq_num % kCapacity /\ Buffered(sl, p, t)[i] = Stored(p, t)
<1>1. p.seq_num \in Nat /\ p.kept \in Nat BY InputAssumption DEF PacketType
<1>2. t \in Nat BY TimeAssumption
<1>3. p.seq_num % kCapacity \in 0 .. kCapacity - 1 BY <1>1, IndexInRange
<1>4. Stored(p, t) \in SlotType
  BY <1>1, <1>2 DEF SlotType, Stored
<1>5. QED BY <1>3, <1>4 DEF Buffered

\* The size of a request: within the limit, and no number below it is held.
LEMMA MissingCountFacts ==
    ASSUME NEW g, g.start \in Nat, NEW sl
    PROVE  /\ MissingCount(g, sl) \in 0 .. RequestLimit /\ RequestLimit \in Nat \ {0}
           /\ \A j \in 0 .. MissingCount(g, sl) - 1 : ~Holds(sl, g.start + j)
           /\ ~Holds(sl, g.start) => MissingCount(g, sl) # 0
<1> DEFINE K == {k \in 0 .. RequestLimit : k = RequestLimit \/ Holds(sl, g.start + k)}
           Fits(k) == /\ k = RequestLimit \/ Holds(sl, g.start + k)
                      /\ \A j \in 0 .. k - 1 : ~Holds(sl, g.start + j)
<1>1. RequestLimit \in Nat \ {0}
  BY CapacityAssumption, ConfigAssumption DEF RequestLimit
<1>2. K \in SUBSET Nat /\ K # {} BY <1>1
<1> HIDE DEF RequestLimit
<1>3. PICK k \in K : \A j \in K : k <= j BY <1>2, LeastExists
<1>4. Fits(k)
  <2>1. ASSUME NEW j \in 0 .. k - 1, Holds(sl, g.start + j) PROVE FALSE
    <3>1. j \in K BY <2>1, <1>1, <1>3
    <3>2. QED BY <3>1, <2>1, <1>1, <1>3
  <2>2. QED BY <2>1, <1>3
<1>5. \E x \in 0 .. RequestLimit : Fits(x) BY <1>3, <1>4
<1> DEFINE c == CHOOSE x \in 0 .. RequestLimit : Fits(x)
<1>6. c \in 0 .. RequestLimit /\ Fits(c) BY <1>5
<1>7. c = MissingCount(g, sl) BY DEF MissingCount
<1> HIDE DEF c
<1>8. c = 0 => Holds(sl, g.start) BY <1>1, <1>6
<1>9. QED BY <1>1, <1>6, <1>7, <1>8

-----------------------------------------------------------------------------
(* What the parts of a call establish.                                     *)

TrackerType == [start : Nat, detected_at : Nat, last_retx : Nat]
RequestType == [n : Nat, first_seq : Nat, count : Nat, at : Nat]

\* check_gap_timeout keeps the tracker at its gap or clears it, and counts one
\* request at most.
LEMMA CheckGapTimeoutFacts ==
    ASSUME NEW g \in TrackerType, NEW sl, NEW t \in Timestamps,
           stats \in StatsType, requests \subseteq RequestType,
           CheckGapTimeout(g, sl, t)
    PROVE  /\ gap' \in TrackerType /\ gap'.start \in {0, g.start}
           /\ gap'.detected_at = g.detected_at
           /\ requests' \subseteq RequestType
           /\ Requested(g, sl, t) \in 0 .. 1
<1>1. g.start \in Nat /\ g.detected_at \in Nat /\ g.last_retx \in Nat BY DEF TrackerType
<1>2. MissingCount(g, sl) \in Nat BY <1>1, MissingCountFacts
<1>3. t \in Nat BY TimeAssumption
<1>4. stats.retx \in Nat BY DEF StatsType
<1>5. [n |-> stats.retx, first_seq |-> g.start, count |-> MissingCount(g, sl), at |-> t]
        \in RequestType
  BY <1>1, <1>2, <1>3, <1>4 DEF RequestType
<1>6. /\ [g EXCEPT !.start = 0] \in TrackerType
      /\ [g EXCEPT !.last_retx = t] \in TrackerType
      /\ [g EXCEPT !.start = 0].start = 0
      /\ [g EXCEPT !.last_retx = t].start = g.start
      /\ [g EXCEPT !.start = 0].detected_at = g.detected_at
      /\ [g EXCEPT !.last_retx = t].detected_at = g.detected_at
  BY <1>3 DEF TrackerType
<1>7. Requested(g, sl, t) \in 0 .. 1 BY DEF Requested
<1>8. CASE ~RequestDue(g, t) BY <1>7, <1>8 DEF CheckGapTimeout
<1>9. CASE RequestDue(g, t) /\ MissingCount(g, sl) = 0
  BY <1>6, <1>7, <1>9 DEF CheckGapTimeout
<1>10. CASE RequestDue(g, t) /\ MissingCount(g, sl) # 0
  BY <1>5, <1>6, <1>7, <1>10 DEF CheckGapTimeout
<1>11. QED BY <1>8, <1>9, <1>10

\* Syncing: whatever comes first, afterwards the delivered run ends just below
\* the expected number, and the ring and the tracker agree with it.
LEMMA SyncFacts ==
    ASSUME IInv, NEW seq \in Nat, Sync(seq)
    PROVE  /\ Expected(seq) \in Nat /\ session_synced' = TRUE
           /\ synced_at' \in Nat /\ synced_at' <= Expected(seq)
           /\ Seqs(delivered) = synced_at' .. Expected(seq) - 1
           /\ ~Holds(slots, Expected(seq))
           /\ gap.start # 0 => gap.start = Expected(seq)
           /\ session_synced => Expected(seq) = next_expected /\ synced_at' = synced_at
<1> USE DEF IInv, TypeOK
<1>1. CASE session_synced
  <2>1. Expected(seq) = next_expected /\ synced_at' = synced_at /\ session_synced' = TRUE
    BY <1>1 DEF Expected, NeedsSync, Sync
  <2>2. ~Holds(slots, Expected(seq)) BY <1>1, <2>1 DEF NothingDeliverableWaits
  <2>3. gap.start # 0 => gap.start = Expected(seq) BY <2>1 DEF TrackerAtHead
  <2>4. Seqs(delivered) = synced_at' .. Expected(seq) - 1 BY <2>1 DEF InOrderExactlyOnce
  <2>5. QED BY <2>1, <2>2, <2>3, <2>4
<1>2. CASE ~session_synced
  <2>1. Expected(seq) = seq /\ synced_at' = seq /\ session_synced' = TRUE
    BY <1>2 DEF UnsyncedIsBlank, Expected, NeedsSync, Sync
  <2>2. gap.start = 0 /\ delivered = {} /\ \A i \in DOMAIN slots : ~slots[i].occupied
    BY <1>2 DEF UnsyncedIsBlank
  <2>3. ~Holds(slots, seq) BY <2>2, IndexInRange DEF Holds, SlotOf
  <2>4. Seqs(delivered) = {} BY <2>2 DEF Seqs
  <2>5. seq .. seq - 1 = {} OBVIOUS
  <2>6. Seqs(delivered) = synced_at' .. Expected(seq) - 1 BY <2>1, <2>4, <2>5
  <2>7. synced_at' <= Expected(seq) BY <2>1
  <2>8. session_synced => Expected(seq) = next_expected /\ synced_at' = synced_at
    BY <1>2
  <2>9. QED BY Zenon, <2>1, <2>2, <2>3, <2>6, <2>7, <2>8
<1>3. QED BY <1>1, <1>2

-----------------------------------------------------------------------------
(* The inductive invariant.                                                *)

\* The constructor establishes the invariant.
LEMMA InitIInv == Init => IInv
<1> SUFFICES ASSUME Init PROVE IInv OBVIOUS
<1> USE DEF Init
<1>1. Free \in SlotType /\ ~Free.occupied BY DEF Free, SlotType
<1>2. \A i \in DOMAIN slots : ~slots[i].occupied BY <1>1
<1>3. TypeOK
  BY <1>1, <1>2, CapacityAssumption DEF TypeOK, StatsType
<1>4. InOrderExactlyOnce BY DEF InOrderExactlyOnce, Seqs
<1>5. UnsyncedIsBlank /\ SlotsAreReceived /\ CallsArePast /\ ArrivalTimePreserved
  BY <1>2 DEF UnsyncedIsBlank, SlotsAreReceived, CallsArePast, ArrivalTimePreserved
<1>6. NothingDeliverableWaits /\ TrackerAtHead
  BY DEF NothingDeliverableWaits, TrackerAtHead
<1>7. QED BY <1>3, <1>4, <1>5, <1>6 DEF IInv

\* tick() only reads the clock and may send a request.
LEMMA TickStep ==
    ASSUME IInv, NEW t \in Timestamps, Tick(t) PROVE IInv'
<1> USE DEF IInv
<1>1. /\ gap' \in TrackerType /\ gap'.start \in {0, gap.start}
      /\ gap'.detected_at = gap.detected_at
      /\ requests' \subseteq RequestType
      /\ Requested(gap, slots, t) \in 0 .. 1
  BY CheckGapTimeoutFacts DEF Tick, TypeOK, TrackerType, RequestType
<1>2. /\ session_synced' = session_synced /\ next_expected' = next_expected
      /\ slots' = slots /\ synced_at' = synced_at /\ received' = received
      /\ delivered' = delivered /\ gap_events' = gap_events
      /\ clock' \in Nat
  BY TimeAssumption DEF Tick, CallAt
<1>3. stats' \in StatsType /\ stats'.packets = stats.packets
  <2>1. stats' = [stats EXCEPT !.retx = @ + Requested(gap, slots, t)] BY DEF Tick
  <2>2. stats \in StatsType BY DEF TypeOK
  <2>3. stats.retx + Requested(gap, slots, t) \in Nat BY <2>2, <1>1 DEF StatsType
  <2>4. QED BY <2>1, <2>2, <2>3 DEF StatsType
<1>4. TypeOK' BY <1>1, <1>2, <1>3 DEF TypeOK, TrackerType, RequestType
<1>5. /\ InOrderExactlyOnce' /\ ArrivalTimePreserved' /\ SlotsAreReceived'
      /\ NothingDeliverableWaits' /\ CallsArePast' /\ (synced_at <= next_expected)'
  BY <1>2, <1>3 DEF InOrderExactlyOnce, Seqs, ArrivalTimePreserved, SlotsAreReceived,
                    NothingDeliverableWaits, Holds, SlotOf, CallsArePast
<1>6. UnsyncedIsBlank' /\ TrackerAtHead'
  BY <1>1, <1>2 DEF UnsyncedIsBlank, TrackerAtHead
<1>7. QED BY <1>4, <1>5, <1>6

\* What every step leaves: the parts of IInv that are about deliveries and the
\* ring survive a step that delivers nothing and leaves the ring alone.
LEMMA NothingDelivered ==
    ASSUME IInv, NEW seq \in Nat, Sync(seq), next_expected' = Expected(seq),
           slots' = slots, delivered' = delivered, received \subseteq received',
           stats.packets <= stats'.packets, stats'.packets \in Nat, stats.packets \in Nat
    PROVE  /\ InOrderExactlyOnce' /\ ArrivalTimePreserved' /\ SlotsAreReceived'
           /\ NothingDeliverableWaits' /\ CallsArePast' /\ (synced_at <= next_expected)'
           /\ UnsyncedIsBlank'
<1> USE DEF IInv
<1>1. /\ Expected(seq) \in Nat /\ session_synced' = TRUE
      /\ synced_at' \in Nat /\ synced_at' <= Expected(seq)
      /\ Seqs(delivered) = synced_at' .. Expected(seq) - 1
      /\ ~Holds(slots, Expected(seq))
  BY SyncFacts
<1>2. InOrderExactlyOnce' BY <1>1 DEF InOrderExactlyOnce, Seqs
<1>3. ArrivalTimePreserved' /\ SlotsAreReceived'
  BY DEF ArrivalTimePreserved, SlotsAreReceived
<1>4. NothingDeliverableWaits' BY <1>1 DEF NothingDeliverableWaits, Holds, SlotOf
<1>5. \A d \in delivered : d.call \in Nat BY DEF TypeOK, MessageType
<1>6. CallsArePast' BY <1>5 DEF CallsArePast
<1>7. UnsyncedIsBlank' BY <1>1 DEF UnsyncedIsBlank
<1>8. QED BY <1>1, <1>2, <1>3, <1>4, <1>6, <1>7

\* A heartbeat syncs, counts, and may send a request.
LEMMA HeartbeatStep ==
    ASSUME IInv, NEW h \in HeartbeatSeqs, NEW t \in Timestamps, IngestHeartbeat(h, t)
    PROVE  IInv'
<1> USE DEF IInv
<1>1. /\ gap' \in TrackerType /\ gap'.start \in {0, gap.start}
      /\ gap'.detected_at = gap.detected_at
      /\ requests' \subseteq RequestType
      /\ Requested(gap, slots, t) \in 0 .. 1
  BY CheckGapTimeoutFacts DEF IngestHeartbeat, TypeOK, TrackerType, RequestType
<1>2. h \in Nat BY InputAssumption
<1>3. /\ slots' = slots /\ received' = received /\ delivered' = delivered
      /\ gap_events' = gap_events /\ next_expected' = Expected(h) /\ Sync(h)
      /\ clock' \in Nat
  BY TimeAssumption DEF IngestHeartbeat, CallAt
<1>4. /\ Expected(h) \in Nat /\ session_synced' = TRUE /\ synced_at' \in Nat
      /\ gap.start # 0 => gap.start = Expected(h)
  BY <1>2, <1>3, SyncFacts
<1>5. stats' \in StatsType /\ stats'.packets = stats.packets /\ stats.packets \in Nat
  <2>1. stats' = [stats EXCEPT !.heartbeats = @ + 1,
                               !.retx = @ + Requested(gap, slots, t)] BY DEF IngestHeartbeat
  <2>2. stats \in StatsType BY DEF TypeOK
  <2>3. stats.retx + Requested(gap, slots, t) \in Nat /\ stats.heartbeats + 1 \in Nat
    BY <2>2, <1>1 DEF StatsType
  <2>4. QED BY <2>1, <2>2, <2>3 DEF StatsType
<1>6. TypeOK' BY <1>1, <1>3, <1>4, <1>5 DEF TypeOK, TrackerType, RequestType
<1>7. TrackerAtHead' BY <1>1, <1>3, <1>4 DEF TrackerAtHead
<1>8. QED BY <1>2, <1>3, <1>5, <1>6, <1>7, NothingDelivered

\* A datagram counted by ingest() keeps the counters and the log typed.
LEMMA ReceiveFacts ==
    ASSUME TypeOK, NEW p \in Packets, NEW t \in Timestamps, Receive(p, t)
    PROVE  /\ p.seq_num \in Nat /\ p.msg_count \in Nat /\ p.blocks \in Nat /\ p.kept \in Nat
           /\ p.kept <= p.blocks /\ p.blocks <= p.msg_count
           /\ t \in Nat /\ clock' \in Nat /\ Sync(p.seq_num)
           /\ received' = received \cup {[pkt |-> p, at |-> t]}
           /\ received' \subseteq [pkt : Packets, at : Timestamps]
           /\ Counted(p) \in StatsType /\ Counted(p).packets = stats.packets + 1
           /\ stats.packets \in Nat
<1>1. /\ p.seq_num \in Nat /\ p.msg_count \in Nat /\ p.blocks \in Nat /\ p.kept \in Nat
      /\ p.kept <= p.blocks /\ p.blocks <= p.msg_count
  BY InputAssumption DEF PacketType
<1>2. t \in Nat /\ clock' \in Nat BY TimeAssumption DEF Receive, CallAt
<1>3. /\ Sync(p.seq_num) /\ received' = received \cup {[pkt |-> p, at |-> t]}
      /\ received' \subseteq [pkt : Packets, at : Timestamps]
  BY DEF Receive, TypeOK
<1>4. Counted(p) \in StatsType /\ Counted(p).packets = stats.packets + 1 /\ stats.packets \in Nat
  <2>1. stats \in StatsType BY DEF TypeOK
  <2>2. stats.packets + 1 \in Nat /\ stats.messages + p.msg_count \in Nat
    BY <2>1, <1>1 DEF StatsType
  <2>3. QED BY <2>1, <2>2 DEF StatsType, Counted
<1>5. QED BY <1>1, <1>2, <1>3, <1>4

\* A duplicate is only counted.
LEMMA DuplicateStep ==
    ASSUME IInv, NEW p \in Packets, NEW t \in Timestamps, IngestDuplicate(p, t)
    PROVE  IInv'
<1> USE DEF IInv
<1>1. /\ p.seq_num \in Nat /\ clock' \in Nat /\ Sync(p.seq_num)
      /\ received' = received \cup {[pkt |-> p, at |-> t]}
      /\ received' \subseteq [pkt : Packets, at : Timestamps]
      /\ Counted(p) \in StatsType /\ Counted(p).packets = stats.packets + 1
      /\ stats.packets \in Nat
  BY ReceiveFacts DEF IngestDuplicate
<1>2. /\ slots' = slots /\ delivered' = delivered /\ gap' = gap
      /\ gap_events' = gap_events /\ requests' = requests
      /\ next_expected' = Expected(p.seq_num)
      /\ stats' = [Counted(p) EXCEPT !.duplicates = @ + 1]
  BY DEF IngestDuplicate
<1>3. /\ Expected(p.seq_num) \in Nat /\ session_synced' = TRUE /\ synced_at' \in Nat
      /\ gap.start # 0 => gap.start = Expected(p.seq_num)
  BY <1>1, SyncFacts
<1>4. stats' \in StatsType /\ stats'.packets = stats.packets + 1
  BY <1>1, <1>2 DEF StatsType
<1>5. TypeOK' BY <1>1, <1>2, <1>3, <1>4 DEF TypeOK
<1>6. TrackerAtHead' BY <1>2, <1>3 DEF TrackerAtHead
<1>7. stats.packets <= stats'.packets /\ stats'.packets \in Nat BY <1>1, <1>4
<1>8. received \subseteq received' BY <1>1
<1>9. QED BY <1>1, <1>2, <1>5, <1>6, <1>7, <1>8, NothingDelivered

\* A datagram from beyond the expected number opens or extends a gap; the ring
\* takes or refuses it, and a request may be sent.
LEMMA GapStep ==
    ASSUME IInv, NEW p \in Packets, NEW t \in Timestamps, IngestGap(p, t)
    PROVE  IInv'
<1> DEFINE n == Expected(p.seq_num)
           g == Tracking(gap, n, t)
           sl == Buffered(slots, p, t)
<1> USE DEF IInv
<1>1. /\ p.seq_num \in Nat /\ t \in Nat /\ clock' \in Nat /\ Sync(p.seq_num)
      /\ received' = received \cup {[pkt |-> p, at |-> t]}
      /\ received' \subseteq [pkt : Packets, at : Timestamps]
      /\ Counted(p) \in StatsType /\ Counted(p).packets = stats.packets + 1
      /\ stats.packets \in Nat
  BY ReceiveFacts DEF IngestGap
<1>2. /\ slots' = sl /\ delivered' = delivered /\ next_expected' = n
      /\ p.seq_num > n /\ CheckGapTimeout(g, sl, t)
      /\ gap_events' = IF gap.start # 0 THEN gap_events
                       ELSE gap_events \cup
                         {[n |-> stats.gaps, first |-> n, last |-> p.seq_num - 1, at |-> t]}
      /\ stats' = [Counted(p) EXCEPT
                     !.gaps = @ + (IF gap.start = 0 THEN 1 ELSE 0),
                     !.overflows = @ + (IF Collides(slots, p) THEN 1 ELSE 0),
                     !.retx = @ + Requested(g, sl, t)]
  BY DEF IngestGap
<1>3. /\ n \in Nat /\ session_synced' = TRUE
      /\ synced_at' \in Nat /\ synced_at' <= n
      /\ Seqs(delivered) = synced_at' .. n - 1
      /\ ~Holds(slots, n)
      /\ gap.start # 0 => gap.start = n
  BY <1>1, SyncFacts
<1> HIDE DEF n
<1>4. g \in TrackerType /\ (gap.start # 0 => g = gap)
      /\ (gap.start = 0 => g.start = n /\ g.detected_at = t)
  BY <1>1, <1>3 DEF Tracking, TrackerType, TypeOK
<1> HIDE DEF g
<1>5. /\ gap' \in TrackerType /\ gap'.start \in {0, g.start}
      /\ gap'.detected_at = g.detected_at
      /\ requests' \subseteq RequestType
      /\ Requested(g, sl, t) \in 0 .. 1
  BY <1>2, <1>4, CheckGapTimeoutFacts DEF TypeOK, RequestType
<1>6. /\ sl \in [0 .. kCapacity - 1 -> SlotType]
      /\ \A i \in 0 .. kCapacity - 1 :
           \/ sl[i] = slots[i]
           \/ i = p.seq_num % kCapacity /\ sl[i] = Stored(p, t)
  <2>1. slots \in [0 .. kCapacity - 1 -> SlotType] BY DEF TypeOK
  <2>2. QED BY <2>1, BufferedFacts
<1> HIDE DEF sl
<1>7. stats' \in StatsType /\ stats'.packets = stats.packets + 1
  <2>1. Counted(p).retx + Requested(g, sl, t) \in Nat BY <1>1, <1>5 DEF StatsType
  <2>2. /\ Counted(p).gaps + (IF gap.start = 0 THEN 1 ELSE 0) \in Nat
        /\ Counted(p).overflows + (IF Collides(slots, p) THEN 1 ELSE 0) \in Nat
    BY <1>1 DEF StatsType
  <2>3. QED BY <1>1, <1>2, <2>1, <2>2 DEF StatsType
<1>8. gap_events' \subseteq [n : Nat, first : Nat, last : Nat, at : Nat]
  <2>1. stats.gaps \in Nat BY DEF TypeOK, StatsType
  <2>2. p.seq_num - 1 \in Nat BY <1>1, <1>2, <1>3
  <2>3. QED BY <1>1, <1>2, <1>3, <2>1, <2>2 DEF TypeOK
<1>9. \A i \in DOMAIN sl : sl[i].occupied => sl[i].seq_num % kCapacity = i
  BY <1>6 DEF TypeOK, Stored
<1>10. TypeOK'
  BY <1>1, <1>2, <1>3, <1>5, <1>6, <1>7, <1>8, <1>9 DEF TypeOK, TrackerType, RequestType
<1>11. InOrderExactlyOnce' BY <1>2, <1>3 DEF InOrderExactlyOnce, Seqs
<1>12. ArrivalTimePreserved' BY <1>1, <1>2 DEF ArrivalTimePreserved
<1>13. SlotsAreReceived'
  <2>1. SUFFICES ASSUME NEW i \in 0 .. kCapacity - 1, sl[i].occupied
                 PROVE  \E r \in received' : /\ r.pkt.seq_num = sl[i].seq_num
                                             /\ r.pkt.kept = sl[i].kept /\ r.at = sl[i].recv_ns
    BY <1>2, <1>6 DEF SlotsAreReceived
  <2>2. CASE sl[i] = slots[i] BY <2>1, <2>2, <1>1 DEF SlotsAreReceived, TypeOK
  <2>3. CASE sl[i] # slots[i]
    <3>1. [pkt |-> p, at |-> t] \in received' BY <1>1
    <3>2. sl[i].seq_num = p.seq_num /\ sl[i].kept = p.kept /\ sl[i].recv_ns = t
      BY <2>3, <1>6 DEF Stored
    <3>3. QED BY <3>1, <3>2
  <2>4. QED BY <2>2, <2>3
<1>14. NothingDeliverableWaits'
  <2>1. n % kCapacity \in 0 .. kCapacity - 1 BY <1>3, IndexInRange
  <2>2. ~Holds(sl, n)
    <3>1. CASE sl[n % kCapacity] = slots[n % kCapacity] BY <3>1, <1>3 DEF Holds, SlotOf
    <3>2. CASE sl[n % kCapacity] # slots[n % kCapacity]
      BY <3>2, <2>1, <1>1, <1>2, <1>3, <1>6 DEF Holds, SlotOf, Stored
    <3>3. QED BY <3>1, <3>2
  <2>3. QED BY <2>2, <1>2 DEF NothingDeliverableWaits, Holds, SlotOf
<1>15. CallsArePast'
  <2>1. \A d \in delivered : d.call \in Nat BY DEF TypeOK, MessageType
  <2>2. QED BY <2>1, <1>1, <1>2, <1>7 DEF CallsArePast
<1>16. TrackerAtHead'
  <2>1. CASE gap.start # 0 BY <2>1, <1>2, <1>3, <1>4, <1>5 DEF TrackerAtHead
  <2>2. CASE gap.start = 0
    <3>1. [n |-> stats.gaps, first |-> n, last |-> p.seq_num - 1, at |-> t] \in gap_events'
      BY <2>2, <1>2
    <3>2. QED BY <3>1, <2>2, <1>2, <1>4, <1>5 DEF TrackerAtHead
  <2>3. QED BY <2>1, <2>2
<1>17. UnsyncedIsBlank' BY <1>3 DEF UnsyncedIsBlank
<1>18. (synced_at <= next_expected)' BY <1>2, <1>3
<1>19. QED BY <1>10, <1>11, <1>12, <1>13, <1>14, <1>15, <1>16, <1>17, <1>18

\* The ring of a reachable state ends below any bound past MaxSeq.
LEMMA RingIsBounded ==
    ASSUME IInv, NEW n \in Nat
    PROVE  RingUpTo(slots, MaxSeq + n) /\ n <= MaxSeq + n /\ MaxSeq + n \in Nat
<1>1. MaxSeq \in Nat BY InputAssumption
<1>2. slots \in [0 .. kCapacity - 1 -> SlotType] BY DEF IInv, TypeOK
<1>3. ASSUME NEW i \in 0 .. kCapacity - 1, slots[i].occupied
      PROVE  slots[i].seq_num + slots[i].kept <= MaxSeq + n
  <2>1. PICK r \in received : r.pkt.seq_num = slots[i].seq_num /\ r.pkt.kept = slots[i].kept
    BY <1>2, <1>3 DEF IInv, SlotsAreReceived
  <2>2. r.pkt \in Packets BY <2>1 DEF IInv, TypeOK
  <2>3. /\ r.pkt.seq_num \in Nat /\ r.pkt.kept \in Nat /\ r.pkt.msg_count \in Nat
        /\ r.pkt.blocks \in Nat /\ r.pkt.kept <= r.pkt.blocks
        /\ r.pkt.blocks <= r.pkt.msg_count /\ r.pkt.seq_num + r.pkt.msg_count <= MaxSeq
    BY <2>2, InputAssumption DEF PacketType
  <2>4. QED BY <1>1, <2>1, <2>3
<1>4. QED BY <1>1, <1>2, <1>3 DEF RingUpTo

\* The messages deliver_packet emits for a datagram that starts at or before n
\* are exactly the numbers from n up to the new next_expected_.
LEMMA EmittedFacts ==
    ASSUME NEW call \in Nat, NEW first \in Nat, NEW count \in Nat, NEW n \in Nat,
           NEW t \in Nat, first <= n
    PROVE  /\ AfterDelivery(first, count, n) \in Nat /\ n <= AfterDelivery(first, count, n)
           /\ \A d \in Emitted(call, first, count, n, t) :
                /\ d \in MessageType
                /\ d.call = call /\ d.from = first /\ d.recv_ns = t
                /\ n <= d.seq_num /\ d.seq_num < AfterDelivery(first, count, n)
                /\ d.seq_num < first + count
                /\ d = Message(call, first, d.seq_num, t)
           /\ \A s \in n .. AfterDelivery(first, count, n) - 1 :
                Message(call, first, s, t) \in Emitted(call, first, count, n, t)
<1>1. first + count \in Nat OBVIOUS
<1>2. /\ AfterDelivery(first, count, n) \in Nat
      /\ AfterDelivery(first, count, n) = IF n <= first + count THEN first + count ELSE n
  BY <1>1, GreatestOfTwo DEF AfterDelivery
<1>3. QED BY <1>2 DEF Emitted, Message, MessageType

\* The messages flush_buffer emits: each comes from a flushed datagram, and
\* they are the numbers from n up to the new next_expected_.
LEMMA FlushEmittedFacts ==
    ASSUME NEW call \in Nat, NEW sl, NEW b \in Nat, RingUpTo(sl, b), NEW n \in Nat, n <= b
    PROVE  /\ \A d \in FlushEmitted(call, sl, n) :
                /\ d \in MessageType
                /\ d.from \in Flushed(sl, n) /\ Holds(sl, d.from)
                /\ d.from <= d.seq_num /\ d.seq_num < EndOf(sl, d.from)
                /\ d = Message(call, d.from, d.seq_num, SlotOf(sl, d.from).recv_ns)
           /\ \A s \in n .. AfterFlush(sl, n) - 1 :
                \E d \in FlushEmitted(call, sl, n) : d.seq_num = s
<1> DEFINE F == Flushed(sl, n)
           M(v, s) == Message(call, v, s, SlotOf(sl, v).recv_ns)
<1>1. sl \in [0 .. kCapacity - 1 -> SlotType] BY DEF RingUpTo
<1>2. /\ \A v \in F : v \in Nat /\ Holds(sl, v)
      /\ \A s \in n .. AfterFlush(sl, n) - 1 : \E v \in F : v <= s /\ s < EndOf(sl, v)
      /\ AfterFlush(sl, n) \in Nat
  BY FlushChain
<1>3. \A v \in F : SlotOf(sl, v).kept \in Nat /\ SlotOf(sl, v).recv_ns \in Nat
  BY <1>1, <1>2, SlotFacts DEF SlotType
<1>4. \A d : d \in FlushEmitted(call, sl, n)
               <=> \E v \in F : \E s \in v .. EndOf(sl, v) - 1 : d = M(v, s)
  BY <1>2, <1>3 DEF FlushEmitted, Emitted, EndOf
<1> HIDE DEF F
<1>5. ASSUME NEW d \in FlushEmitted(call, sl, n)
      PROVE  /\ d \in MessageType
             /\ d.from \in F /\ Holds(sl, d.from)
             /\ d.from <= d.seq_num /\ d.seq_num < EndOf(sl, d.from)
             /\ d = M(d.from, d.seq_num)
  <2>1. PICK v \in F : \E s \in v .. EndOf(sl, v) - 1 : d = M(v, s) BY <1>4, <1>5
  <2>2. PICK s \in v .. EndOf(sl, v) - 1 : d = M(v, s) BY <2>1
  <2>3. v \in Nat /\ EndOf(sl, v) \in Nat BY <1>1, <1>2, SlotFacts
  <2>4. QED BY <2>2, <2>3, <1>2, <1>3 DEF Message, MessageType
<1>6. ASSUME NEW s \in n .. AfterFlush(sl, n) - 1
      PROVE  \E d \in FlushEmitted(call, sl, n) : d.seq_num = s
  <2>1. PICK v \in F : v <= s /\ s < EndOf(sl, v) BY <1>2, <1>6
  <2>2. v \in Nat /\ EndOf(sl, v) \in Nat /\ s \in Nat BY <1>1, <1>2, <2>1, SlotFacts
  <2>3. M(v, s) \in FlushEmitted(call, sl, n) BY <2>1, <2>2, <1>4
  <2>4. QED BY <2>3 DEF Message
<1>7. QED BY <1>5, <1>6 DEF F

\* An in-order datagram: it is delivered from the expected number on, then the
\* chain behind it, and the run grows without a break.
LEMMA InOrderStep ==
    ASSUME IInv, NEW p \in Packets, NEW t \in Timestamps, IngestInOrder(p, t)
    PROVE  IInv'
<1> DEFINE n == Expected(p.seq_num)
           mid == AfterDelivery(p.seq_num, p.blocks, n)
           m == AfterFlush(slots, mid)
           call == stats.packets
           A == Emitted(call, p.seq_num, p.blocks, n, t)
           B == FlushEmitted(call, slots, mid)
           F == Flushed(slots, mid)
<1> USE DEF IInv
<1>1. /\ p.seq_num \in Nat /\ p.blocks \in Nat /\ t \in Nat
      /\ clock' \in Nat /\ Sync(p.seq_num)
      /\ received' = received \cup {[pkt |-> p, at |-> t]}
      /\ received' \subseteq [pkt : Packets, at : Timestamps]
      /\ Counted(p) \in StatsType /\ Counted(p).packets = stats.packets + 1
      /\ stats.packets \in Nat
  BY ReceiveFacts DEF IngestInOrder
<1>2. /\ p.seq_num <= n /\ next_expected' = m
      /\ delivered' = delivered \cup A \cup B
      /\ slots' = Drained(slots, mid)
      /\ gap' = IF gap.start # 0 /\ m > gap.start THEN [gap EXCEPT !.start = 0] ELSE gap
      /\ stats' = Counted(p) /\ gap_events' = gap_events /\ requests' = requests
  BY DEF IngestInOrder
<1>3. /\ n \in Nat /\ session_synced' = TRUE
      /\ synced_at' \in Nat /\ synced_at' <= n
      /\ Seqs(delivered) = synced_at' .. n - 1
      /\ gap.start # 0 => gap.start = n
  BY <1>1, SyncFacts
<1> HIDE DEF n
<1>4. /\ mid \in Nat /\ n <= mid
      /\ \A d \in A :
           /\ d \in MessageType
           /\ d.call = call /\ d.from = p.seq_num /\ d.recv_ns = t
           /\ n <= d.seq_num /\ d.seq_num < mid /\ d.seq_num < p.seq_num + p.blocks
           /\ d = Message(call, p.seq_num, d.seq_num, t)
      /\ \A s \in n .. mid - 1 :
           Message(call, p.seq_num, s, t) \in A
  <2>1. /\ call \in Nat /\ p.seq_num \in Nat /\ p.blocks \in Nat /\ n \in Nat /\ t \in Nat
        /\ p.seq_num <= n
    BY <1>1, <1>2, <1>3
  <2> HIDE DEF call
  <2>2. mid \in Nat /\ n <= mid BY <2>1, EmittedFacts
  <2>3. ASSUME NEW d \in A
        PROVE  /\ d \in MessageType
               /\ d.call = call /\ d.from = p.seq_num /\ d.recv_ns = t
               /\ n <= d.seq_num /\ d.seq_num < mid /\ d.seq_num < p.seq_num + p.blocks
               /\ d = Message(call, p.seq_num, d.seq_num, t)
    <3>1. d \in MessageType BY <2>1, EmittedFacts
    <3>2. d.call = call /\ d.from = p.seq_num /\ d.recv_ns = t BY DEF Emitted, Message
    <3>3. n <= d.seq_num /\ d.seq_num < mid BY <2>1, EmittedFacts, Zenon
    <3>4. d.seq_num < p.seq_num + p.blocks BY <2>1, EmittedFacts
    <3>5. d = Message(call, p.seq_num, d.seq_num, t) BY DEF Emitted, Message
    <3>6. QED BY <3>1, <3>2, <3>3, <3>4, <3>5
  <2>4. \A s \in n .. mid - 1 : Message(call, p.seq_num, s, t) \in A BY <2>1, EmittedFacts
  <2>5. QED BY <2>2, <2>3, <2>4
<1> HIDE DEF mid, A
<1>5. RingUpTo(slots, MaxSeq + mid) /\ mid <= MaxSeq + mid /\ MaxSeq + mid \in Nat
  BY <1>4, RingIsBounded
<1>6. /\ m \in Nat /\ mid <= m
      /\ \A v \in F : /\ v \in Nat /\ Holds(slots, v)
                      /\ mid <= v /\ EndOf(slots, v) <= m
      /\ \A v, w \in F : v < w => EndOf(slots, v) <= w
  BY <1>4, <1>5, FlushChain
<1>7. /\ \A d \in B :
           /\ d \in MessageType
           /\ d.from \in F /\ Holds(slots, d.from)
           /\ d.from <= d.seq_num /\ d.seq_num < EndOf(slots, d.from)
           /\ d = Message(call, d.from, d.seq_num, SlotOf(slots, d.from).recv_ns)
      /\ \A s \in mid .. m - 1 : \E d \in B : d.seq_num = s
  BY <1>1, <1>4, <1>5, FlushEmittedFacts
<1>8. /\ slots' \in [0 .. kCapacity - 1 -> SlotType]
      /\ \A i \in 0 .. kCapacity - 1 : slots'[i].occupied => slots'[i] = slots[i]
      /\ ~Holds(slots', m)
  BY <1>2, <1>4, <1>5, DrainedFacts
<1> HIDE DEF m, B, F
<1>9. gap' \in TrackerType /\ (gap'.start # 0 => gap'.start = m)
      /\ gap'.detected_at = gap.detected_at /\ gap'.start \in {0, gap.start}
  <2>1. gap \in TrackerType BY DEF TypeOK, TrackerType
  <2>2. [gap EXCEPT !.start = 0] \in TrackerType /\ [gap EXCEPT !.start = 0].start = 0
        /\ [gap EXCEPT !.start = 0].detected_at = gap.detected_at
    BY <2>1 DEF TrackerType
  <2>3. gap.start \in Nat BY <2>1 DEF TrackerType
  <2>4. QED BY <2>1, <2>2, <2>3, <1>2, <1>3, <1>4, <1>6
<1>10. \A d \in B : /\ d.call = call /\ mid <= d.seq_num /\ d.seq_num < m /\ d.seq_num \in Nat
                    /\ mid <= d.from /\ d.from \in Nat /\ EndOf(slots, d.from) \in Nat
  <2>1. SUFFICES ASSUME NEW d \in B
                 PROVE  /\ d.call = call /\ mid <= d.seq_num /\ d.seq_num < m
                        /\ d.seq_num \in Nat /\ mid <= d.from /\ d.from \in Nat
                        /\ EndOf(slots, d.from) \in Nat
    OBVIOUS
  <2>2. d.from \in F /\ d.from <= d.seq_num /\ d.seq_num < EndOf(slots, d.from) BY <1>7
  <2>3. d.seq_num \in Nat /\ d.call = call BY <1>7 DEF Message, MessageType
  <2>4. d.from \in Nat /\ mid <= d.from /\ EndOf(slots, d.from) <= m BY <2>2, <1>6
  <2>5. EndOf(slots, d.from) \in Nat BY <2>4, SlotFacts DEF TypeOK
  <2>6. QED BY <2>2, <2>3, <2>4, <2>5, <1>4, <1>6
<1>11. \A d \in delivered : /\ d \in MessageType
                            /\ d.call < call /\ d.seq_num < n
  <2>1. \A d \in delivered : d.seq_num \in synced_at' .. n - 1 BY <1>3 DEF Seqs
  <2>2. QED BY <2>1, <1>3 DEF TypeOK, CallsArePast
<1>12. TypeOK'
  <2>1. \A i \in DOMAIN slots' : slots'[i].occupied => slots'[i].seq_num % kCapacity = i
    BY <1>8 DEF TypeOK
  <2>2. delivered' \subseteq MessageType
    BY <1>2, <1>4, <1>7, <1>11
  <2>3. QED BY <2>1, <2>2, <1>1, <1>2, <1>3, <1>6, <1>8, <1>9 DEF TypeOK, TrackerType
<1>13. Seqs(delivered') = synced_at' .. m - 1
  <2>1. ASSUME NEW d \in delivered' PROVE d.seq_num \in synced_at' .. m - 1
    <3>1. CASE d \in delivered
      <4>1. d.seq_num \in synced_at' .. n - 1 BY <3>1, <1>3 DEF Seqs
      <4>2. QED BY <4>1, <1>3, <1>4, <1>6
    <3>2. CASE d \in A BY <3>2, <1>3, <1>4, <1>6 DEF MessageType
    <3>3. CASE d \in B BY <3>3, <1>3, <1>4, <1>6, <1>10
    <3>4. QED BY <2>1, <3>1, <3>2, <3>3, <1>2
  <2>2. ASSUME NEW s \in synced_at' .. m - 1 PROVE \E d \in delivered' : d.seq_num = s
    <3>1. CASE s < n
      <4>1. s \in Seqs(delivered) BY <2>2, <3>1, <1>3
      <4>2. QED BY <4>1, <1>2 DEF Seqs
    <3>2. CASE n <= s /\ s < mid
      <4>1. Message(call, p.seq_num, s, t) \in A
        BY <2>2, <3>2, <1>3, <1>4
      <4>2. QED BY <4>1, <1>2 DEF Message
    <3>3. CASE mid <= s
      <4>1. \E d \in B : d.seq_num = s BY <2>2, <3>3, <1>4, <1>6, <1>7
      <4>2. QED BY <4>1, <1>2
    <3>4. QED BY <2>2, <3>1, <3>2, <3>3, <1>3, <1>4
  <2>3. QED BY <2>1, <2>2 DEF Seqs
<1>14. InOrderExactlyOnce'
  <2>1. SUFFICES ASSUME NEW d \in delivered', NEW e \in delivered'
                 PROVE  /\ d.seq_num = e.seq_num => d = e
                        /\ d.call < e.call => d.seq_num < e.seq_num
                        /\ d.call = e.call /\ d.from < e.from => d.seq_num < e.seq_num
    BY <1>2, <1>13 DEF InOrderExactlyOnce, Seqs
  <2>2. CASE d \in delivered /\ e \in delivered BY <2>2 DEF InOrderExactlyOnce
  <2>3. CASE d \in delivered /\ e \in A
    <3>1. d \in MessageType /\ d.call < call /\ d.seq_num < n BY <2>3, <1>11
    <3>2. d.call \in Nat /\ d.seq_num \in Nat BY <3>1 DEF MessageType
    <3>3. e.call = call /\ n <= e.seq_num BY <2>3, <1>4
    <3>4. e.seq_num \in Nat BY <2>3, <1>4 DEF MessageType
    <3>5. call \in Nat /\ n \in Nat BY <1>1, <1>3
    <3> HIDE DEF call, n, A
    <3>6. d.seq_num < e.seq_num /\ d.seq_num # e.seq_num BY <3>1, <3>2, <3>3, <3>4, <3>5
    <3>7. d.call # e.call BY <3>1, <3>2, <3>3, <3>5
    <3>8. QED BY <3>6, <3>7
  <2>4. CASE d \in delivered /\ e \in B
    <3>1. d \in MessageType /\ d.call < call /\ d.seq_num < n BY <2>4, <1>11
    <3>2. d.call \in Nat /\ d.seq_num \in Nat BY <3>1 DEF MessageType
    <3>3. e.call = call /\ mid <= e.seq_num /\ e.seq_num \in Nat BY <2>4, <1>10
    <3>4. call \in Nat BY <1>1
    <3> HIDE DEF call
    <3>5. QED BY <3>1, <3>2, <3>3, <3>4, <1>3, <1>4
  <2>5. CASE d \in A /\ e \in delivered
    <3>1. e \in MessageType /\ e.call < call /\ e.seq_num < n BY <2>5, <1>11
    <3>2. e.call \in Nat /\ e.seq_num \in Nat BY <3>1 DEF MessageType
    <3>3. d.call = call /\ n <= d.seq_num /\ d.seq_num \in Nat BY <2>5, <1>4 DEF MessageType
    <3>4. call \in Nat BY <1>1
    <3> HIDE DEF call
    <3>5. QED BY <3>1, <3>2, <3>3, <3>4, <1>3, <1>4
  <2>6. CASE d \in A /\ e \in A
    BY <2>6, <1>1, <1>4 DEF MessageType
  <2>7. CASE d \in A /\ e \in B
    BY <2>7, <1>1, <1>4, <1>10 DEF MessageType
  <2>8. CASE d \in B /\ e \in delivered
    <3>1. e \in MessageType /\ e.call < call /\ e.seq_num < n BY <2>8, <1>11
    <3>2. e.call \in Nat /\ e.seq_num \in Nat BY <3>1 DEF MessageType
    <3>3. d.call = call /\ mid <= d.seq_num /\ d.seq_num \in Nat BY <2>8, <1>10
    <3>4. call \in Nat BY <1>1
    <3> HIDE DEF call
    <3>5. QED BY <3>1, <3>2, <3>3, <3>4, <1>3, <1>4
  <2>9. CASE d \in B /\ e \in A
    <3>1. e.call = call /\ e.from = p.seq_num /\ n <= e.seq_num /\ e.seq_num < mid
          /\ e.seq_num \in Nat
      BY <2>9, <1>4 DEF MessageType
    <3>2. d.call = call /\ mid <= d.seq_num /\ d.seq_num \in Nat /\ mid <= d.from
          /\ d.from \in Nat
      BY <2>9, <1>10
    <3>3. call \in Nat /\ p.seq_num \in Nat /\ p.seq_num <= n BY <1>1, <1>2
    <3> HIDE DEF call
    <3>4. QED BY <3>1, <3>2, <3>3, <1>3, <1>4
  <2>10. CASE d \in B /\ e \in B
    <3>1. /\ d.from < e.from => EndOf(slots, d.from) <= e.from
          /\ e.from < d.from => EndOf(slots, e.from) <= d.from
      BY <2>10, <1>6, <1>7
    <3>2. /\ d.from <= d.seq_num /\ d.seq_num < EndOf(slots, d.from)
          /\ e.from <= e.seq_num /\ e.seq_num < EndOf(slots, e.from)
      BY <2>10, <1>7
    <3>3. /\ d.call = call /\ d.seq_num \in Nat /\ d.from \in Nat /\ EndOf(slots, d.from) \in Nat
          /\ e.call = call /\ e.seq_num \in Nat /\ e.from \in Nat /\ EndOf(slots, e.from) \in Nat
      BY <2>10, <1>10
    <3>4. d.seq_num = e.seq_num => d.from = e.from BY <3>1, <3>2, <3>3
    <3>5. d.seq_num = e.seq_num => d = e BY <2>10, <3>4, <1>7
    <3>6. d.from < e.from => d.seq_num < e.seq_num BY <3>1, <3>2, <3>3
    <3>7. QED BY <3>3, <3>5, <3>6, <1>1
  <2>11. QED BY <2>1, <2>2, <2>3, <2>4, <2>5, <2>6, <2>7, <2>8, <2>9, <2>10, <1>2
<1>15. ArrivalTimePreserved'
  <2>1. SUFFICES ASSUME NEW d \in delivered'
                 PROVE  \E r \in received' : /\ r.at = d.recv_ns /\ r.pkt.seq_num = d.from
                                             /\ d.from <= d.seq_num
                                             /\ d.seq_num < d.from + r.pkt.blocks
    BY DEF ArrivalTimePreserved
  <2>2. CASE d \in delivered BY <2>2, <1>1 DEF ArrivalTimePreserved
  <2>3. CASE d \in A
    <3>1. [pkt |-> p, at |-> t] \in received' BY <1>1
    <3>2. d.from <= d.seq_num BY <2>3, <1>1, <1>2, <1>3, <1>4 DEF MessageType
    <3>3. QED BY <2>3, <3>1, <3>2, <1>4
  <2>4. CASE d \in B
    <3>1. Holds(slots, d.from) /\ d.from \in Nat /\ d.seq_num \in Nat BY <2>4, <1>7, <1>10
    <3>2. /\ SlotOf(slots, d.from).occupied /\ SlotOf(slots, d.from).seq_num = d.from
      BY <3>1 DEF Holds
    <3>3. PICK r \in received : /\ r.pkt.seq_num = d.from
                                /\ r.pkt.kept = SlotOf(slots, d.from).kept
                                /\ r.at = SlotOf(slots, d.from).recv_ns
      BY <3>1, <3>2, IndexInRange DEF SlotsAreReceived, SlotOf, TypeOK
    <3>4. r.pkt.kept <= r.pkt.blocks /\ r.pkt.kept \in Nat /\ r.pkt.blocks \in Nat
      BY <3>3, InputAssumption DEF TypeOK, PacketType
    <3>5. d.seq_num < d.from + r.pkt.kept BY <2>4, <3>3, <1>7 DEF EndOf
    <3>6. d.recv_ns = SlotOf(slots, d.from).recv_ns BY <2>4, <1>7 DEF Message
    <3>7. r \in received' /\ d.from <= d.seq_num BY <2>4, <3>3, <1>1, <1>7
    <3>8. QED BY <3>1, <3>3, <3>4, <3>5, <3>6, <3>7
  <2>5. QED BY <2>1, <2>2, <2>3, <2>4, <1>2
<1>16. SlotsAreReceived'
  <2>1. SUFFICES ASSUME NEW i \in 0 .. kCapacity - 1, slots'[i].occupied
                 PROVE  \E r \in received' : /\ r.pkt.seq_num = slots'[i].seq_num
                                             /\ r.pkt.kept = slots'[i].kept
                                             /\ r.at = slots'[i].recv_ns
    BY <1>8 DEF SlotsAreReceived
  <2>2. slots'[i] = slots[i] BY <2>1, <1>8
  <2>3. QED BY <2>1, <2>2, <1>1 DEF SlotsAreReceived, TypeOK
<1>17. NothingDeliverableWaits'
  BY <1>2, <1>8 DEF NothingDeliverableWaits, Holds, SlotOf
<1>18. CallsArePast'
  <2>1. \A d \in delivered' : d.call <= call /\ d.call \in Nat
    BY <1>1, <1>2, <1>4, <1>7, <1>10, <1>11 DEF MessageType
  <2>2. QED BY <2>1, <1>1, <1>2 DEF CallsArePast
<1>19. TrackerAtHead' BY <1>2, <1>9 DEF TrackerAtHead
<1>20. UnsyncedIsBlank' BY <1>3 DEF UnsyncedIsBlank
<1>21. (synced_at <= next_expected)' BY <1>2, <1>3, <1>4, <1>6
<1>22. QED BY <1>12, <1>14, <1>15, <1>16, <1>17, <1>18, <1>19, <1>20, <1>21

\* The invariant survives every call.
LEMMA NextIInv == IInv /\ [Next]_vars => IInv'
<1> SUFFICES ASSUME IInv, [Next]_vars PROVE IInv' OBVIOUS
<1>1. CASE UNCHANGED vars
  BY <1>1 DEF vars, history, IInv, TypeOK, UnsyncedIsBlank, SlotsAreReceived, CallsArePast,
      InOrderExactlyOnce, Seqs, ArrivalTimePreserved, NothingDeliverableWaits, Holds, SlotOf,
      TrackerAtHead
<1>2. ASSUME NEW t \in Timestamps, NEW h \in HeartbeatSeqs, IngestHeartbeat(h, t) PROVE IInv'
  BY <1>2, HeartbeatStep
<1>3. ASSUME NEW t \in Timestamps, NEW p \in Packets, Ingest(p, t) PROVE IInv'
  BY <1>3, DuplicateStep, GapStep, InOrderStep DEF Ingest
<1>4. ASSUME NEW t \in Timestamps, Tick(t) PROVE IInv'
  BY <1>4, TickStep
<1>5. QED BY <1>1, <1>2, <1>3, <1>4 DEF Next

-----------------------------------------------------------------------------
(* Theorems.                                                               *)

\* IInv holds in every state the class can reach.
THEOREM Invariance == Spec => []IInv
BY InitIInv, NextIInv, PTL DEF Spec

\* The fields keep their types and every slot in use sits at the index of its
\* own sequence number.
THEOREM TypeCorrect == Spec => []TypeOK
<1>1. IInv => TypeOK BY DEF IInv
<1>2. QED BY <1>1, Invariance, PTL

\* Delivery is in order, without duplicates and without a break, for every
\* ring size and every way the network loses, repeats, reorders, re-frames or
\* truncates datagrams.
THEOREM DeliveryCorrect == Spec => []InOrderExactlyOnce
<1>1. IInv => InOrderExactlyOnce BY DEF IInv
<1>2. QED BY <1>1, Invariance, PTL

\* A message is delivered with the arrival time of a datagram that carried it.
THEOREM ArrivalTimeCorrect == Spec => []ArrivalTimePreserved
<1>1. IInv => ArrivalTimePreserved BY DEF IInv
<1>2. QED BY <1>1, Invariance, PTL

\* flush_buffer never leaves the next datagram behind in the ring.
THEOREM FlushComplete == Spec => []NothingDeliverableWaits
<1>1. IInv => NothingDeliverableWaits BY DEF IInv
<1>2. QED BY <1>1, Invariance, PTL

\* The tracker is only ever about the number the consumer waits for.
THEOREM TrackerCorrect == Spec => []TrackerAtHead
<1>1. IInv => TrackerAtHead BY DEF IInv
<1>2. QED BY <1>1, Invariance, PTL

-----------------------------------------------------------------------------
(* What a call may move.                                                   *)

\* In an in-order call the expected number never moves back and nothing that
\* was delivered is taken back.
LEMMA InOrderAdvances ==
    ASSUME IInv, NEW p \in Packets, NEW t \in Timestamps, IngestInOrder(p, t)
    PROVE  /\ next_expected' \in Nat /\ Expected(p.seq_num) <= next_expected'
           /\ delivered \subseteq delivered'
<1> DEFINE n == Expected(p.seq_num)
           mid == AfterDelivery(p.seq_num, p.blocks, n)
<1>1. /\ p.seq_num \in Nat /\ p.blocks \in Nat /\ t \in Nat /\ Sync(p.seq_num)
      /\ stats.packets \in Nat
  BY ReceiveFacts DEF IngestInOrder, IInv
<1>2. p.seq_num <= n /\ next_expected' = AfterFlush(slots, mid) /\ delivered \subseteq delivered'
  BY DEF IngestInOrder
<1>3. n \in Nat BY <1>1, SyncFacts
<1> HIDE DEF n
<1>4. mid \in Nat /\ n <= mid BY <1>1, <1>2, <1>3, EmittedFacts
<1> HIDE DEF mid
<1>5. RingUpTo(slots, MaxSeq + mid) /\ mid <= MaxSeq + mid /\ MaxSeq + mid \in Nat
  BY <1>4, RingIsBounded
<1>6. AfterFlush(slots, mid) \in Nat /\ mid <= AfterFlush(slots, mid)
  BY <1>4, <1>5, FlushChain
<1>7. QED BY <1>2, <1>3, <1>4, <1>6 DEF n

\* The order of the run: what was received or delivered stays so, an open
\* session stays open at its sync point, and the expected number only grows.
Monotone ==
    /\ received \subseteq received' /\ delivered \subseteq delivered'
    /\ session_synced => /\ session_synced' /\ synced_at' = synced_at
                         /\ next_expected <= next_expected'

\* Every call is monotone.
LEMMA StepIsMonotone == IInv /\ [Next]_vars => Monotone
<1> SUFFICES ASSUME IInv, [Next]_vars PROVE Monotone OBVIOUS
<1>0. next_expected \in Nat BY DEF IInv, TypeOK
<1>1. CASE UNCHANGED vars BY <1>0, <1>1 DEF vars, history, Monotone
<1>2. ASSUME NEW t \in Timestamps, NEW h \in HeartbeatSeqs, IngestHeartbeat(h, t)
      PROVE  Monotone
  <2>1. h \in Nat BY InputAssumption
  <2>2. /\ Sync(h) /\ next_expected' = Expected(h)
        /\ received' = received /\ delivered' = delivered
    BY <1>2 DEF IngestHeartbeat
  <2>3. session_synced' = TRUE
        /\ (session_synced => Expected(h) = next_expected /\ synced_at' = synced_at)
    BY <2>1, <2>2, SyncFacts
  <2>4. QED BY <1>0, <2>2, <2>3 DEF Monotone
<1>3. ASSUME NEW t \in Timestamps, NEW p \in Packets, Ingest(p, t) PROVE Monotone
  <2>1. Receive(p, t) BY <1>3 DEF Ingest, IngestDuplicate, IngestGap, IngestInOrder
  <2>2. p.seq_num \in Nat /\ Sync(p.seq_num) /\ received \subseteq received'
    BY <2>1, ReceiveFacts DEF IInv
  <2>3. session_synced' = TRUE
        /\ (session_synced => Expected(p.seq_num) = next_expected /\ synced_at' = synced_at)
    BY <2>2, SyncFacts
  <2>4. CASE IngestInOrder(p, t)
    BY <2>2, <2>3, <2>4, InOrderAdvances DEF Monotone
  <2>5. CASE IngestDuplicate(p, t) \/ IngestGap(p, t)
    <3>1. next_expected' = Expected(p.seq_num) /\ delivered' = delivered
      BY <2>5 DEF IngestDuplicate, IngestGap
    <3>2. QED BY <1>0, <2>2, <2>3, <3>1 DEF Monotone
  <2>6. QED BY <1>3, <2>4, <2>5 DEF Ingest
<1>4. ASSUME NEW t \in Timestamps, Tick(t) PROVE Monotone
  BY <1>0, <1>4 DEF Tick, Monotone
<1>5. QED BY <1>1, <1>2, <1>3, <1>4 DEF Next

-----------------------------------------------------------------------------
(* The abstract in-order feed.                                             *)

\* What has been delivered has arrived.
LEMMA DeliveredArrived == IInv => Seqs(delivered) \subseteq Arrived
<1> SUFFICES ASSUME IInv, NEW d \in delivered PROVE d.seq_num \in Arrived
  BY DEF Seqs
<1>1. PICK r \in received : /\ r.pkt.seq_num = d.from
                            /\ d.from <= d.seq_num /\ d.seq_num < d.from + r.pkt.blocks
  BY DEF IInv, ArrivalTimePreserved
<1>2. d.from \in Nat /\ d.seq_num \in Nat BY DEF IInv, TypeOK, MessageType
<1>3. r.pkt.blocks \in Nat BY <1>1, InputAssumption DEF IInv, TypeOK, PacketType
<1>4. d.seq_num \in r.pkt.seq_num .. r.pkt.seq_num + r.pkt.blocks - 1 BY <1>1, <1>2, <1>3
<1>5. QED BY <1>1, <1>4 DEF Arrived

\* The constructor starts the abstract feed.
LEMMA InitRefines == Init => Feed!Init
BY DEF Init, Feed!Init, Arrived, Seqs

\* A monotone call between two good states is a step of the abstract feed.
LEMMA StepRefines == IInv /\ IInv' /\ Monotone => Feed!Advance
<1> SUFFICES ASSUME IInv, IInv', Monotone PROVE Feed!Advance OBVIOUS
<1> DEFINE n == IF session_synced THEN next_expected ELSE synced_at'
<1>1. /\ next_expected \in Nat /\ synced_at \in Nat /\ synced_at <= next_expected
      /\ Seqs(delivered) = synced_at .. next_expected - 1
      /\ session_synced \in BOOLEAN
  BY DEF IInv, TypeOK, InOrderExactlyOnce
<1>2. /\ next_expected' \in Nat /\ synced_at' \in Nat /\ synced_at' <= next_expected'
      /\ Seqs(delivered') = synced_at' .. next_expected' - 1
  BY DEF IInv, TypeOK, InOrderExactlyOnce, Seqs
<1>3. Arrived \subseteq Arrived' BY DEF Monotone, Arrived
<1>4. session_synced => session_synced' /\ synced_at' = synced_at BY DEF Monotone
<1>5. n <= next_expected' BY <1>1, <1>2 DEF Monotone
<1>6. Seqs(delivered') = Seqs(delivered) \cup (n .. next_expected' - 1)
  <2>1. CASE session_synced
    <3>1. n = next_expected /\ synced_at' = synced_at /\ next_expected <= next_expected'
      BY <2>1 DEF Monotone
    <3>2. synced_at .. next_expected' - 1
            = (synced_at .. next_expected - 1) \cup (next_expected .. next_expected' - 1)
      BY <3>1, <1>1, <1>2
    <3>3. QED BY <3>1, <3>2, <1>1, <1>2
  <2>2. CASE ~session_synced
    <3>1. Seqs(delivered) = {} BY <2>2 DEF IInv, UnsyncedIsBlank, Seqs
    <3>2. QED BY <2>2, <3>1, <1>2
  <2>3. QED BY <2>1, <2>2
<1>7. Seqs(delivered)' = Seqs(delivered') BY DEF Seqs
<1>8. n .. next_expected' - 1 \subseteq Arrived'
  <2>1. (Seqs(delivered) \subseteq Arrived)' BY DeliveredArrived, PTL
  <2>2. QED BY <2>1, <1>6, <1>7
<1>9. QED BY <1>3, <1>4, <1>5, <1>6, <1>7, <1>8 DEF Feed!Advance

\* The class implements the abstract in-order feed: what the consumer sees is
\* an unbroken run of numbers that have all arrived and that only grows at its
\* end, for every ring size, configuration, network and clock.
THEOREM RefinesInOrderFeed == Spec => ImplementsInOrderFeed
<1>1. Init => Feed!Init BY InitRefines
<1>2. IInv /\ IInv' /\ [Next]_vars => [Feed!Advance]_(Feed!vars)
  BY StepIsMonotone, StepRefines
<1>3. QED BY <1>1, <1>2, Invariance, PTL DEF Spec, ImplementsInOrderFeed, Feed!Spec

-----------------------------------------------------------------------------
(* Requests.                                                               *)

\* What RequestsOnlyMissing says of a request sent by a call.
MissingOnly(r) ==
    /\ r.count \in 1 .. RequestLimit /\ r.first_seq = next_expected'
    /\ \A s \in r.first_seq .. r.first_seq + r.count - 1 :
          /\ s \notin Seqs(delivered')
          /\ \A i \in DOMAIN slots' :
               slots'[i].occupied /\ slots'[i].seq_num >= next_expected'
                   => s < slots'[i].seq_num

\* check_gap_timeout, called on the tracker and the ring that the call leaves,
\* asks only for what is missing.
LEMMA TimeoutAsksForMissing ==
    ASSUME IInv', NEW g \in TrackerType, NEW t \in Timestamps, CheckGapTimeout(g, slots', t),
           NEW r \in requests' \ requests
    PROVE  MissingOnly(r)
<1> DEFINE c == MissingCount(g, slots')
<1>1. g.start \in Nat BY DEF TrackerType
<1>2. /\ RequestDue(g, t) /\ c # 0 /\ gap' = [g EXCEPT !.last_retx = t]
      /\ r.first_seq = g.start /\ r.count = c
  BY DEF CheckGapTimeout
<1>3. /\ c \in 0 .. RequestLimit /\ RequestLimit \in Nat
      /\ \A j \in 0 .. c - 1 : ~Holds(slots', g.start + j)
  BY <1>1, MissingCountFacts
<1> HIDE DEF c
<1>4. g.start # 0 /\ gap'.start = g.start BY <1>2 DEF RequestDue, TrackerType
<1>5. g.start = next_expected' BY <1>4 DEF IInv, TrackerAtHead
<1>6. /\ next_expected' \in Nat /\ synced_at' \in Nat
      /\ Seqs(delivered') = synced_at' .. next_expected' - 1
      /\ slots' \in [0 .. kCapacity - 1 -> SlotType]
      /\ \A i \in DOMAIN slots' : slots'[i].occupied => slots'[i].seq_num % kCapacity = i
  BY DEF IInv, TypeOK, InOrderExactlyOnce, Seqs
<1>7. ASSUME NEW s \in g.start .. g.start + c - 1, NEW i \in 0 .. kCapacity - 1,
             slots'[i].occupied, slots'[i].seq_num >= next_expected'
      PROVE  s < slots'[i].seq_num
  <2>1. slots'[i].seq_num \in Nat BY <1>6 DEF SlotType
  <2>2. Holds(slots', slots'[i].seq_num) BY <1>6, <1>7 DEF Holds, SlotOf
  <2>3. SUFFICES ASSUME slots'[i].seq_num <= s PROVE FALSE BY <2>1, <1>1, <1>3
  <2>4. slots'[i].seq_num - g.start \in 0 .. c - 1 BY <2>1, <2>3, <1>1, <1>3, <1>5, <1>7
  <2>5. g.start + (slots'[i].seq_num - g.start) = slots'[i].seq_num BY <2>1, <1>1
  <2>6. QED BY <2>2, <2>4, <2>5, <1>3
<1>8. ASSUME NEW s \in g.start .. g.start + c - 1 PROVE s \notin Seqs(delivered')
  <2>1. s \in Nat /\ next_expected' <= s BY <1>1, <1>3, <1>5
  <2>2. next_expected' \in Nat /\ synced_at' \in Nat BY <1>6
  <2>3. \A x \in Seqs(delivered') : ~(next_expected' <= x) BY <2>2, <1>6
  <2>4. QED BY <2>1, <2>3
<1>9. QED BY <1>1, <1>2, <1>3, <1>5, <1>6, <1>7, <1>8 DEF MissingOnly

\* A call that sends requests has run check_gap_timeout on what it leaves.
LEMMA StepAsksForMissing ==
    ASSUME IInv, IInv', [Next]_vars, NEW r \in requests' \ requests
    PROVE  MissingOnly(r)
<1>0. gap \in TrackerType BY DEF IInv, TypeOK, TrackerType
<1>1. CASE UNCHANGED vars BY <1>1 DEF vars, history
<1>2. ASSUME NEW t \in Timestamps, NEW h \in HeartbeatSeqs, IngestHeartbeat(h, t)
      PROVE  MissingOnly(r)
  <2>1. CheckGapTimeout(gap, slots', t) BY <1>2 DEF IngestHeartbeat
  <2>2. QED BY <2>1, <1>0, TimeoutAsksForMissing
<1>3. ASSUME NEW t \in Timestamps, Tick(t) PROVE MissingOnly(r)
  <2>1. CheckGapTimeout(gap, slots', t) BY <1>3 DEF Tick
  <2>2. QED BY <2>1, <1>0, TimeoutAsksForMissing
<1>4. ASSUME NEW t \in Timestamps, NEW p \in Packets, Ingest(p, t) PROVE MissingOnly(r)
  <2>1. CASE IngestDuplicate(p, t) \/ IngestInOrder(p, t)
    BY <2>1 DEF IngestDuplicate, IngestInOrder
  <2>2. CASE IngestGap(p, t)
    <3> DEFINE g == Tracking(gap, Expected(p.seq_num), t)
    <3>1. p.seq_num \in Nat /\ t \in Nat /\ Sync(p.seq_num)
      BY <2>2, ReceiveFacts DEF IngestGap, IInv
    <3>2. Expected(p.seq_num) \in Nat BY <3>1, SyncFacts
    <3>3. g \in TrackerType BY <1>0, <3>1, <3>2 DEF Tracking, TrackerType
    <3>4. CheckGapTimeout(g, slots', t) BY <2>2 DEF IngestGap
    <3> HIDE DEF g
    <3>5. QED BY <3>3, <3>4, TimeoutAsksForMissing
  <2>3. QED BY <1>4, <2>1, <2>2 DEF Ingest
<1>5. QED BY <1>1, <1>2, <1>3, <1>4 DEF Next

\* A request starts at the number the consumer waits for, is within the limit,
\* and asks for nothing that was delivered or that the ring can still yield.
THEOREM RequestsCorrect == Spec => RequestsOnlyMissing
<1>1. IInv /\ IInv' /\ [Next]_vars
        => [\A r \in requests' \ requests :
              /\ r.count \in 1 .. RequestLimit /\ r.first_seq = next_expected'
              /\ \A s \in r.first_seq .. r.first_seq + r.count - 1 :
                    /\ s \notin Seqs(delivered')
                    /\ \A i \in DOMAIN slots' :
                         slots'[i].occupied /\ slots'[i].seq_num >= next_expected'
                             => s < slots'[i].seq_num]_vars
  BY StepAsksForMissing DEF MissingOnly
<1>2. QED BY <1>1, Invariance, PTL DEF Spec, RequestsOnlyMissing

-----------------------------------------------------------------------------
(* The tracker: events and the rate of requests.                           *)

\* A call that runs no check: it may resolve the gap, never restart it.
Resolving ==
    /\ requests' = requests /\ gap_events' = gap_events /\ stats'.retx = stats.retx
    /\ gap' = IF gap.start # 0 /\ next_expected' > gap.start
                THEN [gap EXCEPT !.start = 0] ELSE gap

\* A call at t that ends in check_gap_timeout, on the tracker it found or on
\* one it has just started and reported.
Checking(t) ==
    \E g \in TrackerType :
        /\ CheckGapTimeout(g, slots', t)
        /\ stats'.retx = stats.retx + Requested(g, slots', t)
        /\ session_synced => next_expected' = next_expected
        /\ \/ g = gap /\ gap_events' = gap_events
           \/ /\ gap.start = 0 /\ session_synced'
              /\ g = [start |-> next_expected', detected_at |-> t, last_retx |-> 0]
              /\ \E last : gap_events' = gap_events \cup
                   {[n |-> stats.gaps, first |-> next_expected', last |-> last, at |-> t]}

\* Every call is of one of the two shapes.
LEMMA CallShape ==
    ASSUME IInv, Next
    PROVE  \E t \in Timestamps : CallAt(t) /\ (Resolving \/ Checking(t))
<1>0. /\ gap \in TrackerType /\ gap.start \in Nat /\ stats \in StatsType
      /\ next_expected \in Nat
  BY DEF IInv, TypeOK, TrackerType
<1>1. ASSUME NEW t \in Timestamps, NEW h \in HeartbeatSeqs, IngestHeartbeat(h, t)
      PROVE  CallAt(t) /\ Checking(t)
  <2>1. h \in Nat BY InputAssumption
  <2>2. session_synced => Expected(h) = next_expected
    BY <1>1, <2>1, SyncFacts DEF IngestHeartbeat
  <2>3. /\ CallAt(t) /\ CheckGapTimeout(gap, slots', t) /\ gap_events' = gap_events
        /\ next_expected' = Expected(h)
    BY <1>1 DEF IngestHeartbeat
  <2>4. stats'.retx = stats.retx + Requested(gap, slots', t)
    BY <1>0, <1>1 DEF IngestHeartbeat, StatsType
  <2>5. QED BY <1>0, <2>2, <2>3, <2>4 DEF Checking
<1>2. ASSUME NEW t \in Timestamps, Tick(t) PROVE CallAt(t) /\ Checking(t)
  <2>1. /\ CallAt(t) /\ CheckGapTimeout(gap, slots', t) /\ gap_events' = gap_events
        /\ next_expected' = next_expected
    BY <1>2 DEF Tick
  <2>2. stats'.retx = stats.retx + Requested(gap, slots', t)
    BY <1>0, <1>2 DEF Tick, StatsType
  <2>3. QED BY <1>0, <2>1, <2>2 DEF Checking
<1>3. ASSUME NEW t \in Timestamps, NEW p \in Packets, Ingest(p, t)
      PROVE  CallAt(t) /\ (Resolving \/ Checking(t))
  <2>1. Receive(p, t) BY <1>3 DEF Ingest, IngestDuplicate, IngestGap, IngestInOrder
  <2>2. CallAt(t) BY <2>1 DEF Receive
  <2>3. /\ p.seq_num \in Nat /\ t \in Nat /\ Sync(p.seq_num) /\ Counted(p) \in StatsType
        /\ Counted(p).retx = stats.retx
    <3>1. Counted(p).retx = stats.retx BY <1>0 DEF Counted, StatsType
    <3>2. QED BY <2>1, <3>1, ReceiveFacts DEF IInv
  <2>4. /\ Expected(p.seq_num) \in Nat /\ session_synced' = TRUE
        /\ gap.start # 0 => gap.start = Expected(p.seq_num)
        /\ session_synced => Expected(p.seq_num) = next_expected
    BY <2>3, SyncFacts
  <2>5. CASE IngestDuplicate(p, t)
    <3>1. /\ gap' = gap /\ requests' = requests /\ gap_events' = gap_events
          /\ next_expected' = Expected(p.seq_num)
      BY <2>5 DEF IngestDuplicate
    <3>2. stats'.retx = stats.retx BY <2>3, <2>5 DEF IngestDuplicate, StatsType
    <3>3. ~(gap.start # 0 /\ next_expected' > gap.start) BY <2>4, <3>1
    <3>4. QED BY <2>2, <3>1, <3>2, <3>3 DEF Resolving
  <2>6. CASE IngestInOrder(p, t)
    BY <2>2, <2>3, <2>6 DEF IngestInOrder, Resolving
  <2>7. CASE IngestGap(p, t)
    <3> DEFINE n == Expected(p.seq_num)
               g == Tracking(gap, n, t)
    <3>1. /\ CheckGapTimeout(g, slots', t) /\ next_expected' = n
          /\ gap_events' = IF gap.start # 0 THEN gap_events
                           ELSE gap_events \cup
                             {[n |-> stats.gaps, first |-> n, last |-> p.seq_num - 1, at |-> t]}
      BY <2>7 DEF IngestGap
    <3>2. stats'.retx = stats.retx + Requested(g, slots', t)
      BY <2>3, <2>7 DEF IngestGap, StatsType
    <3>3. g \in TrackerType BY <1>0, <2>3, <2>4 DEF Tracking, TrackerType
    <3>4. CASE gap.start # 0
      <4>1. g = gap BY <3>4 DEF Tracking
      <4>2. QED BY <2>2, <2>4, <3>1, <3>2, <3>3, <3>4, <4>1 DEF Checking
    <3>5. CASE gap.start = 0
      <4>1. g = [start |-> next_expected', detected_at |-> t, last_retx |-> 0]
        BY <3>1, <3>5 DEF Tracking
      <4>2. \E last : gap_events' = gap_events \cup
              {[n |-> stats.gaps, first |-> next_expected', last |-> last, at |-> t]}
        BY <3>1, <3>5
      <4> HIDE DEF g
      <4>3. QED BY <2>2, <2>4, <3>1, <3>2, <3>3, <3>5, <4>1, <4>2 DEF Checking
    <3>6. QED BY <3>4, <3>5
  <2>8. QED BY <1>3, <2>5, <2>6, <2>7, <2>2 DEF Ingest
<1>4. QED BY <1>1, <1>2, <1>3 DEF Next

\* check_gap_timeout never gives up a gap (its zero-count exit is not taken):
\* it leaves the tracker alone, or a request is due and it notes the time.
LEMMA GapIsKept ==
    ASSUME IInv', NEW g \in TrackerType, NEW t \in Timestamps,
           CheckGapTimeout(g, slots', t),
           g.start # 0 => session_synced' /\ g.start = next_expected'
    PROVE  \/ gap' = g /\ requests' = requests /\ Requested(g, slots', t) = 0
           \/ /\ RequestDue(g, t) /\ gap' = [g EXCEPT !.last_retx = t]
              /\ Requested(g, slots', t) = 1
              /\ \E c : requests' = requests \cup
                   {[n |-> stats.retx, first_seq |-> g.start, count |-> c, at |-> t]}
<1>1. g.start \in Nat BY DEF TrackerType
<1>2. CASE ~RequestDue(g, t) BY <1>2 DEF CheckGapTimeout, Requested
<1>3. CASE RequestDue(g, t)
  <2>1. g.start # 0 BY <1>3 DEF RequestDue
  <2>2. ~Holds(slots', g.start)
    BY <2>1 DEF IInv, NothingDeliverableWaits, Holds, SlotOf
  <2>3. MissingCount(g, slots') # 0 BY <1>1, <2>2, MissingCountFacts
  <2>4. /\ gap' = [g EXCEPT !.last_retx = t]
        /\ requests' = requests \cup
             {[n |-> stats.retx, first_seq |-> g.start,
               count |-> MissingCount(g, slots'), at |-> t]}
    BY <1>3, <2>3 DEF CheckGapTimeout
  <2>5. Requested(g, slots', t) = 1 BY <1>3, <2>3 DEF Requested
  <2>6. QED BY <1>3, <2>4, <2>5
<1>4. QED BY <1>2, <1>3

\* What a checking call leaves: tracker g, at the head if set, with the time of
\* a request noted if one was due.
CheckedWith(g, t) ==
    /\ g.start \in {0, next_expected'}
    /\ session_synced => next_expected' = next_expected
    /\ \/ g = gap /\ gap_events' = gap_events
       \/ /\ gap.start = 0 /\ session_synced'
          /\ g.start = next_expected' /\ g.detected_at = t /\ g.last_retx = 0
          /\ \E last : gap_events' = gap_events \cup
               {[n |-> stats.gaps, first |-> next_expected', last |-> last, at |-> t]}
    /\ gap'.start = g.start /\ gap'.detected_at = g.detected_at
    /\ \/ requests' = requests /\ stats'.retx = stats.retx /\ gap'.last_retx = g.last_retx
       \/ /\ RequestDue(g, t) /\ gap'.last_retx = t /\ stats'.retx = stats.retx + 1
          /\ \E c : requests' = requests \cup
               {[n |-> stats.retx, first_seq |-> g.start, count |-> c, at |-> t]}

\* A checking call of a good state.
LEMMA CheckingFacts ==
    ASSUME IInv, IInv', Monotone, NEW t \in Timestamps, Checking(t)
    PROVE  \E g \in TrackerType : CheckedWith(g, t)
<1>1. PICK g \in TrackerType :
        /\ CheckGapTimeout(g, slots', t)
        /\ stats'.retx = stats.retx + Requested(g, slots', t)
        /\ session_synced => next_expected' = next_expected
        /\ \/ g = gap /\ gap_events' = gap_events
           \/ /\ gap.start = 0 /\ session_synced'
              /\ g = [start |-> next_expected', detected_at |-> t, last_retx |-> 0]
              /\ \E last : gap_events' = gap_events \cup
                   {[n |-> stats.gaps, first |-> next_expected', last |-> last, at |-> t]}
  BY DEF Checking
<1>2. g.start # 0 => session_synced' /\ g.start = next_expected'
  <2>1. CASE g = gap
    BY <2>1, <1>1 DEF IInv, UnsyncedIsBlank, TrackerAtHead, Monotone
  <2>2. CASE g # gap BY <2>2, <1>1
  <2>3. QED BY <2>1, <2>2
<1>3. \/ gap' = g /\ requests' = requests /\ Requested(g, slots', t) = 0
      \/ /\ RequestDue(g, t) /\ gap' = [g EXCEPT !.last_retx = t]
         /\ Requested(g, slots', t) = 1
         /\ \E c : requests' = requests \cup
              {[n |-> stats.retx, first_seq |-> g.start, count |-> c, at |-> t]}
  BY <1>1, <1>2, GapIsKept
<1>4. stats.retx \in Nat BY DEF IInv, TypeOK, StatsType
<1>5. gap'.start = g.start /\ gap'.detected_at = g.detected_at BY <1>3 DEF TrackerType
<1>6. \/ requests' = requests /\ stats'.retx = stats.retx /\ gap'.last_retx = g.last_retx
      \/ /\ RequestDue(g, t) /\ gap'.last_retx = t /\ stats'.retx = stats.retx + 1
         /\ \E c : requests' = requests \cup
              {[n |-> stats.retx, first_seq |-> g.start, count |-> c, at |-> t]}
  <2>1. CASE gap' = g /\ requests' = requests /\ Requested(g, slots', t) = 0
    BY <1>1, <1>4, <2>1
  <2>2. CASE /\ RequestDue(g, t) /\ gap' = [g EXCEPT !.last_retx = t]
             /\ Requested(g, slots', t) = 1
             /\ \E c : requests' = requests \cup
                  {[n |-> stats.retx, first_seq |-> g.start, count |-> c, at |-> t]}
    <3>1. gap'.last_retx = t BY <2>2 DEF TrackerType
    <3>2. stats'.retx = stats.retx + 1 BY <1>1, <2>2
    <3>3. QED BY <2>2, <3>1, <3>2
  <2>3. QED BY <1>3, <2>1, <2>2
<1>7. \/ g = gap /\ gap_events' = gap_events
      \/ /\ gap.start = 0 /\ session_synced'
         /\ g.start = next_expected' /\ g.detected_at = t /\ g.last_retx = 0
         /\ \E last : gap_events' = gap_events \cup
              {[n |-> stats.gaps, first |-> next_expected', last |-> last, at |-> t]}
  <2>1. CASE g = gap /\ gap_events' = gap_events BY <2>1
  <2>2. CASE /\ gap.start = 0 /\ session_synced'
             /\ g = [start |-> next_expected', detected_at |-> t, last_retx |-> 0]
             /\ \E last : gap_events' = gap_events \cup
                  {[n |-> stats.gaps, first |-> next_expected', last |-> last, at |-> t]}
    <3>1. g.start = next_expected' /\ g.detected_at = t /\ g.last_retx = 0 BY <2>2
    <3>2. QED BY <2>2, <3>1
  <2>3. QED BY <1>1, <2>1, <2>2
<1>8. QED BY <1>1, <1>2, <1>5, <1>6, <1>7 DEF CheckedWith

\* Every event is about a number up to the expected one, and an event about
\* the expected number is the one being tracked.
EventsArePast ==
    \A e \in gap_events : /\ e.first <= next_expected
                          /\ e.first = next_expected => gap.start = next_expected

\* The invariant behind OneEventPerGap.  gap_start_ uses 0 for "no gap", so a
\* session synced to the number 0 is excepted.
EventInv ==
    /\ ~session_synced => gap_events = {}
    /\ synced_at # 0 => EventsArePast /\ OneEventPerGap

\* Every call preserves it.
LEMMA EventStep ==
    ASSUME IInv, IInv', EventInv, Monotone, NEW t \in Timestamps, Resolving \/ Checking(t)
    PROVE  EventInv'
<1>0. /\ next_expected \in Nat /\ next_expected' \in Nat /\ synced_at \in Nat
      /\ synced_at <= next_expected /\ gap.start \in Nat
      /\ session_synced \in BOOLEAN /\ session_synced' \in BOOLEAN
      /\ \A e \in gap_events : e.first \in Nat
  BY DEF IInv, TypeOK
<1>1. CASE Resolving
  <2>1. gap_events' = gap_events BY <1>1 DEF Resolving
  <2>2. ~session_synced' => gap_events' = {} BY <2>1 DEF EventInv, Monotone
  <2>3. ASSUME synced_at' # 0 PROVE EventsArePast' /\ OneEventPerGap'
    <3>1. CASE ~session_synced
      BY <2>1, <3>1 DEF EventInv, EventsArePast, OneEventPerGap
    <3>2. CASE session_synced
      <4>1. synced_at # 0 /\ next_expected <= next_expected' BY <2>3, <3>2 DEF Monotone
      <4>2. EventsArePast /\ OneEventPerGap BY <4>1 DEF EventInv
      <4>3. ASSUME NEW e \in gap_events
            PROVE  e.first <= next_expected'
                   /\ (e.first = next_expected' => gap'.start = next_expected')
        <5>1. e.first <= next_expected /\ (e.first = next_expected => gap.start = next_expected)
          BY <4>2 DEF EventsArePast
        <5>2. e.first <= next_expected' BY <1>0, <4>1, <5>1
        <5>3. ASSUME e.first = next_expected' PROVE gap'.start = next_expected'
          <6>1. next_expected' = next_expected /\ gap.start = next_expected'
            BY <1>0, <4>1, <5>1, <5>3
          <6>2. gap' = gap BY <1>0, <1>1, <6>1 DEF Resolving
          <6>3. QED BY <6>1, <6>2
        <5>4. QED BY <5>2, <5>3
      <4>4. QED BY <2>1, <4>2, <4>3 DEF EventsArePast, OneEventPerGap
    <3>3. QED BY <3>1, <3>2
  <2>4. QED BY <2>2, <2>3 DEF EventInv
<1>2. CASE Checking(t)
  <2>1. PICK g \in TrackerType : CheckedWith(g, t) BY <1>2, CheckingFacts
  <2>2. gap'.start = g.start /\ (session_synced => next_expected' = next_expected)
    BY <2>1 DEF CheckedWith
  <2>3. CASE g = gap /\ gap_events' = gap_events
    <3>1. ~session_synced' => gap_events' = {} BY <2>3 DEF EventInv, Monotone
    <3>2. CASE ~session_synced
      BY <2>3, <3>1, <3>2 DEF EventInv, EventsArePast, OneEventPerGap
    <3>3. CASE session_synced
      BY <2>2, <2>3, <3>1, <3>3 DEF EventInv, EventsArePast, OneEventPerGap, Monotone
    <3>4. QED BY <3>2, <3>3
  <2>4. ASSUME gap.start = 0, session_synced', g.start = next_expected',
               NEW last, gap_events' = gap_events \cup
                 {[n |-> stats.gaps, first |-> next_expected', last |-> last, at |-> t]}
        PROVE  EventInv'
    <3> DEFINE new == [n |-> stats.gaps, first |-> next_expected', last |-> last, at |-> t]
    <3>1. gap_events' = gap_events \cup {new} /\ new.first = next_expected' BY <2>4
    <3> HIDE DEF new
    <3>2. SUFFICES ASSUME synced_at' # 0 PROVE EventsArePast' /\ OneEventPerGap'
      BY <2>4 DEF EventInv
    <3>3. ASSUME NEW e \in gap_events PROVE e.first < next_expected'
      <4>1. session_synced BY <3>3 DEF EventInv
      <4>2. synced_at # 0 /\ next_expected' = next_expected BY <2>2, <3>2, <4>1 DEF Monotone
      <4>3. e.first <= next_expected /\ (e.first = next_expected => gap.start = next_expected)
        BY <3>3, <4>2 DEF EventInv, EventsArePast
      <4>4. next_expected # 0 BY <1>0, <4>2
      <4>5. QED BY <1>0, <2>4, <4>2, <4>3, <4>4
    <3>4. EventsArePast'
      <4>1. ASSUME NEW e \in gap_events'
            PROVE  e.first <= next_expected'
                   /\ (e.first = next_expected' => gap'.start = next_expected')
        BY <1>0, <2>2, <2>4, <3>1, <3>3
      <4>2. QED BY <4>1 DEF EventsArePast
    <3>5. OneEventPerGap'
      <4>1. ASSUME NEW e \in gap_events', NEW f \in gap_events', e.first = f.first
            PROVE  e = f
        <5>1. CASE e \in gap_events /\ f \in gap_events
          <6>1. session_synced BY <5>1 DEF EventInv
          <6>2. synced_at # 0 BY <3>2, <6>1 DEF Monotone
          <6>3. QED BY <4>1, <5>1, <6>2 DEF EventInv, OneEventPerGap
        <5>2. CASE e = new /\ f = new BY <5>2
        <5>3. CASE e = new /\ f \in gap_events BY <1>0, <3>1, <3>3, <4>1, <5>3
        <5>4. CASE e \in gap_events /\ f = new BY <1>0, <3>1, <3>3, <4>1, <5>4
        <5>5. QED BY <3>1, <4>1, <5>1, <5>2, <5>3, <5>4
      <4>2. QED BY <4>1 DEF OneEventPerGap
    <3>6. QED BY <3>4, <3>5
  <2>5. QED BY <2>1, <2>3, <2>4 DEF CheckedWith
<1>3. QED BY <1>1, <1>2

\* EventInv holds in every reachable state.
LEMMA EventInvariance == Spec => []EventInv
<1>1. Init => EventInv BY DEF Init, EventInv, EventsArePast, OneEventPerGap
<1>2. IInv /\ IInv' /\ EventInv /\ [Next]_vars => EventInv'
  <2>1. SUFFICES ASSUME IInv, IInv', EventInv, [Next]_vars PROVE EventInv' OBVIOUS
  <2>2. CASE UNCHANGED vars
    BY <2>1, <2>2 DEF vars, history, EventInv, EventsArePast, OneEventPerGap
  <2>3. CASE Next
    <3>1. Monotone BY <2>1, StepIsMonotone
    <3>2. PICK t \in Timestamps : Resolving \/ Checking(t) BY <2>1, <2>3, CallShape
    <3>3. QED BY <2>1, <3>1, <3>2, EventStep
  <2>4. QED BY <2>1, <2>2, <2>3
<1>3. QED BY <1>1, <1>2, Invariance, PTL DEF Spec

\* "OnGap: called once when a new gap is first detected" (gap_buffer.hpp:92):
\* in every session that starts at a number other than 0, whatever the clock
\* does and however often the gap is asked for or the ring overflows.
THEOREM OnGapOncePerGap == Spec => [](synced_at # 0 => OneEventPerGap)
<1>1. EventInv => (synced_at # 0 => OneEventPerGap) BY DEF EventInv
<1>2. QED BY <1>1, EventInvariance, PTL

\* Elapsed time does not wrap between two instants in order.
LEMMA ElapsedInOrder ==
    ASSUME NEW t \in Timestamps, NEW since \in Nat, since <= t
    PROVE  Elapsed(t, since) = t - since
<1>1. TimeMod \in Nat \ {0} /\ t \in Nat /\ t < TimeMod BY TimeAssumption
<1>2. t - since \in Nat /\ t - since < TimeMod BY <1>1
<1>3. QED BY <1>1, <1>2 DEF Elapsed

\* While a gap is tracked: its times are past, and a request was made for it
\* only after the debounce window.
TrackerTimes ==
    gap.start # 0 =>
        /\ gap.detected_at <= clock /\ gap.last_retx <= clock
        /\ gap.last_retx # 0 => gap.last_retx - gap.detected_at >= gap_timeout_ns

\* Requests are numbered in order, about numbers up to the expected one, and
\* one about the expected number is not after the last one the tracker noted.
RequestsArePast ==
    \A r \in requests :
        /\ r.n < stats.retx /\ r.first_seq # 0 /\ r.first_seq <= next_expected
        /\ r.first_seq = next_expected =>
             gap.start = next_expected /\ gap.last_retx # 0 /\ r.at <= gap.last_retx

\* The invariant behind RateLimited.
RateInv == TrackerTimes /\ RequestsArePast /\ RateLimited

\* Every call preserves it, if the clock does not step back.
LEMMA RateStep ==
    ASSUME ~ClockMayStepBack, IInv, IInv', RateInv, Monotone,
           NEW t \in Timestamps, CallAt(t), Resolving \/ Checking(t)
    PROVE  RateInv'
<1>0. /\ next_expected \in Nat /\ next_expected' \in Nat /\ gap.start \in Nat
      /\ gap.detected_at \in Nat /\ gap.last_retx \in Nat /\ clock \in Nat
      /\ stats.retx \in Nat /\ stats'.retx \in Nat /\ session_synced \in BOOLEAN
      /\ \A r \in requests : r.n \in Nat /\ r.first_seq \in Nat /\ r.at \in Nat
      /\ \A e \in gap_events : e.first \in Nat /\ e.at \in Nat
  BY DEF IInv, TypeOK, StatsType
<1>1. /\ t \in Nat /\ t # 0 /\ clock' = t /\ clock <= t
      /\ gap_timeout_ns \in Nat /\ retry_interval_ns \in Nat
  BY TimeAssumption, ConfigAssumption DEF CallAt
<1>2. ~session_synced => next_expected = 0 /\ gap.start = 0 /\ requests = {}
  <2>1. ~session_synced => next_expected = 0 /\ gap.start = 0
    BY DEF IInv, UnsyncedIsBlank
  <2>2. next_expected = 0 => requests = {} BY <1>0 DEF RateInv, RequestsArePast
  <2>3. QED BY <2>1, <2>2
<1>3. \A r \in requests :
        /\ r.n < stats.retx /\ r.first_seq # 0 /\ r.first_seq <= next_expected
        /\ r.first_seq = next_expected =>
             gap.start = next_expected /\ gap.last_retx # 0 /\ r.at <= gap.last_retx
  BY DEF RateInv, RequestsArePast
<1>4. gap.start # 0 =>
        /\ gap.detected_at <= clock /\ gap.last_retx <= clock
        /\ gap.last_retx # 0 => gap.last_retx - gap.detected_at >= gap_timeout_ns
  BY DEF RateInv, TrackerTimes
<1>5. CASE Resolving
  <2>1. /\ requests' = requests /\ gap_events' = gap_events /\ stats'.retx = stats.retx
        /\ gap' = IF gap.start # 0 /\ next_expected' > gap.start
                    THEN [gap EXCEPT !.start = 0] ELSE gap
    BY <1>5 DEF Resolving
  <2>2. [gap EXCEPT !.start = 0].start = 0 BY DEF IInv, TypeOK
  <2>3. TrackerTimes' BY <1>0, <1>1, <1>4, <2>1, <2>2 DEF TrackerTimes
  <2>4. RateLimited' BY <2>1 DEF RateInv, RateLimited
  <2>5. ASSUME NEW r \in requests
        PROVE  /\ r.first_seq <= next_expected'
               /\ r.first_seq = next_expected' =>
                    gap'.start = next_expected' /\ gap'.last_retx # 0 /\ r.at <= gap'.last_retx
    <3>1. session_synced BY <1>2
    <3>2. next_expected <= next_expected' BY <3>1 DEF Monotone
    <3>3. r.first_seq <= next_expected' BY <1>0, <1>3, <3>2
    <3>4. ASSUME r.first_seq = next_expected'
          PROVE  gap'.start = next_expected' /\ gap'.last_retx # 0 /\ r.at <= gap'.last_retx
      <4>1. next_expected' = next_expected BY <1>0, <1>3, <3>2, <3>4
      <4>2. gap.start = next_expected BY <1>3, <3>4, <4>1
      <4>3. gap' = gap BY <1>0, <2>1, <4>1, <4>2
      <4>4. QED BY <1>3, <3>4, <4>1, <4>3
    <3>5. QED BY <3>3, <3>4
  <2>6. RequestsArePast' BY <1>3, <2>1, <2>5 DEF RequestsArePast
  <2>7. QED BY <2>3, <2>4, <2>6 DEF RateInv
<1>6. CASE Checking(t)
  <2>1. PICK g \in TrackerType : CheckedWith(g, t) BY <1>6, CheckingFacts
  <2>2. /\ g.start \in Nat /\ g.detected_at \in Nat /\ g.last_retx \in Nat
        /\ g.start \in {0, next_expected'}
        /\ gap'.start = g.start /\ gap'.detected_at = g.detected_at
    BY <2>1 DEF CheckedWith, TrackerType
  <2>3. /\ g.start # 0 => g.detected_at <= t /\ g.last_retx <= t
        /\ g.start # 0 /\ g.last_retx # 0 => g.last_retx - g.detected_at >= gap_timeout_ns
    <3>1. CASE g = gap BY <1>0, <1>1, <1>4, <3>1
    <3>2. CASE g.detected_at = t /\ g.last_retx = 0 BY <1>1, <3>2
    <3>3. QED BY <2>1, <3>1, <3>2 DEF CheckedWith
  \* The requests made before this call, seen from the tracker it works with.
  <2>4. \A r \in requests :
          /\ r.n < stats.retx /\ r.first_seq # 0 /\ r.first_seq <= next_expected'
          /\ r.first_seq = next_expected' =>
               g.start = next_expected' /\ g.last_retx # 0 /\ r.at <= g.last_retx
    <3>1. SUFFICES ASSUME NEW r \in requests
                   PROVE  /\ r.n < stats.retx /\ r.first_seq # 0
                          /\ r.first_seq <= next_expected'
                          /\ r.first_seq = next_expected' =>
                               g.start = next_expected' /\ g.last_retx # 0
                               /\ r.at <= g.last_retx
      OBVIOUS
    <3>2. session_synced BY <1>2
    <3>3. next_expected' = next_expected BY <2>1, <3>2 DEF CheckedWith
    <3>4. CASE g = gap BY <1>3, <3>3, <3>4
    <3>5. CASE gap.start = 0
      <4>1. r.first_seq # next_expected BY <1>3, <3>5
      <4>2. QED BY <1>3, <3>3, <4>1
    <3>6. QED BY <2>1, <3>4, <3>5 DEF CheckedWith
  <2>5. gap_events \subseteq gap_events' BY <2>1 DEF CheckedWith
  <2>6. g.start # 0 => \E e \in gap_events' : e.first = g.start /\ e.at = g.detected_at
    <3>1. gap'.start # 0 =>
            \E e \in gap_events' : e.first = gap'.start /\ e.at = gap'.detected_at
      BY DEF IInv, TrackerAtHead
    <3>2. QED BY <2>2, <3>1
  <2>7. \A r \in requests :
          /\ \E e \in gap_events' : e.first = r.first_seq /\ r.at - e.at >= gap_timeout_ns
          /\ \A q \in requests :
               q.first_seq = r.first_seq /\ q.n < r.n => r.at - q.at >= retry_interval_ns
    BY <2>5 DEF RateInv, RateLimited
  <2>8. CASE requests' = requests /\ stats'.retx = stats.retx /\ gap'.last_retx = g.last_retx
    <3>1. TrackerTimes' BY <1>1, <2>2, <2>3, <2>8 DEF TrackerTimes
    <3>2. RequestsArePast' BY <2>2, <2>4, <2>8 DEF RequestsArePast
    <3>3. RateLimited' BY <2>7, <2>8 DEF RateLimited
    <3>4. QED BY <3>1, <3>2, <3>3 DEF RateInv
  <2>9. ASSUME RequestDue(g, t), gap'.last_retx = t, stats'.retx = stats.retx + 1,
               NEW c, requests' = requests \cup
                 {[n |-> stats.retx, first_seq |-> g.start, count |-> c, at |-> t]}
        PROVE  RateInv'
    <3> DEFINE new == [n |-> stats.retx, first_seq |-> g.start, count |-> c, at |-> t]
    <3>1. /\ requests' = requests \cup {new}
          /\ new.n = stats.retx /\ new.first_seq = g.start /\ new.at = t
      BY <2>9
    <3> HIDE DEF new
    <3>2. g.start # 0 /\ g.start = next_expected' BY <2>2, <2>9 DEF RequestDue
    <3>3. /\ g.last_retx = 0 => t - g.detected_at >= gap_timeout_ns
          /\ g.last_retx # 0 => t - g.last_retx >= retry_interval_ns
      <4>1. Elapsed(t, g.detected_at) = t - g.detected_at BY <2>2, <2>3, <3>2, ElapsedInOrder
      <4>2. Elapsed(t, g.last_retx) = t - g.last_retx BY <2>2, <2>3, <3>2, ElapsedInOrder
      <4>3. QED BY <2>9, <4>1, <4>2 DEF RequestDue
    <3>4. t - g.detected_at >= gap_timeout_ns BY <1>1, <2>2, <2>3, <3>2, <3>3
    <3>5. TrackerTimes' BY <1>1, <2>2, <2>3, <2>9, <3>2, <3>4 DEF TrackerTimes
    <3>6. RequestsArePast'
      <4>1. ASSUME NEW r \in requests'
            PROVE  /\ r.n < stats'.retx /\ r.first_seq # 0 /\ r.first_seq <= next_expected'
                   /\ r.first_seq = next_expected' =>
                        gap'.start = next_expected' /\ gap'.last_retx # 0
                        /\ r.at <= gap'.last_retx
        <5>1. CASE r = new BY <1>0, <1>1, <2>2, <2>9, <3>1, <3>2, <5>1
        <5>2. CASE r \in requests BY <1>0, <1>1, <2>2, <2>3, <2>4, <2>9, <3>2, <5>2
        <5>3. QED BY <3>1, <4>1, <5>1, <5>2
      <4>2. QED BY <4>1 DEF RequestsArePast
    <3>7. RateLimited'
      <4>1. ASSUME NEW r \in requests'
            PROVE  \E e \in gap_events' : e.first = r.first_seq /\ r.at - e.at >= gap_timeout_ns
        <5>1. CASE r = new BY <2>6, <3>1, <3>2, <3>4, <5>1
        <5>2. CASE r \in requests BY <2>7, <5>2
        <5>3. QED BY <3>1, <4>1, <5>1, <5>2
      <4>2. ASSUME NEW r \in requests', NEW q \in requests',
                   q.first_seq = r.first_seq, q.n < r.n
            PROVE  r.at - q.at >= retry_interval_ns
        <5>1. CASE r \in requests /\ q \in requests BY <2>7, <4>2, <5>1
        <5>2. CASE r = new /\ q \in requests
          <6>1. g.last_retx # 0 /\ q.at <= g.last_retx BY <2>4, <3>1, <3>2, <4>2, <5>2
          <6>2. QED BY <1>0, <1>1, <2>2, <3>1, <3>3, <5>2, <6>1
        <5>3. CASE q = new /\ r \in requests BY <1>0, <2>4, <3>1, <4>2, <5>3
        <5>4. CASE r = new /\ q = new BY <1>0, <3>1, <4>2, <5>4
        <5>5. QED BY <3>1, <4>2, <5>1, <5>2, <5>3, <5>4
      <4>3. QED BY <4>1, <4>2 DEF RateLimited
    <3>8. QED BY <3>5, <3>6, <3>7 DEF RateInv
  <2>10. QED BY <2>1, <2>8, <2>9 DEF CheckedWith
<1>7. QED BY <1>5, <1>6

\* It holds in every reachable state, if the clock does not step back.
LEMMA RateInvariance == ASSUME ~ClockMayStepBack PROVE Spec => []RateInv
<1>1. Init => RateInv
  BY DEF Init, RateInv, TrackerTimes, RequestsArePast, RateLimited
<1>2. IInv /\ IInv' /\ RateInv /\ [Next]_vars => RateInv'
  <2>1. SUFFICES ASSUME IInv, IInv', RateInv, [Next]_vars PROVE RateInv' OBVIOUS
  <2>2. CASE UNCHANGED vars
    BY <2>1, <2>2 DEF vars, history, RateInv, TrackerTimes, RequestsArePast, RateLimited
  <2>3. CASE Next
    <3>1. Monotone BY <2>1, StepIsMonotone
    <3>2. PICK t \in Timestamps : CallAt(t) /\ (Resolving \/ Checking(t))
      BY <2>1, <2>3, CallShape
    <3>3. QED BY <2>1, <3>1, <3>2, RateStep
  <2>4. QED BY <2>1, <2>2, <2>3
<1>3. QED BY <1>1, <1>2, Invariance, PTL DEF Spec

\* "one request per gap per retry_interval_ns" (gap_buffer.hpp:27), and none
\* before the debounce window has passed: for every configuration, ring and
\* network, if the clock the caller passes does not step back.
THEOREM RequestsAreRateLimited == ~ClockMayStepBack => (Spec => []RateLimited)
<1> SUFFICES ASSUME ~ClockMayStepBack PROVE Spec => []RateLimited OBVIOUS
<1>1. RateInv => RateLimited BY DEF RateInv
<1>2. QED BY <1>1, RateInvariance, PTL

-----------------------------------------------------------------------------
(* What a call receives and how much it delivers.                          *)

\* An ingested datagram is received; the first call of all syncs to it.
LEMMA IngestReceives ==
    ASSUME IInv, NEW p \in Packets, NEW t \in Timestamps, Ingest(p, t)
    PROVE  /\ received' = received \cup {[pkt |-> p, at |-> t]} /\ clock' = t
           /\ (ClockMayStepBack \/ clock <= t)
           /\ stats'.packets = stats.packets + 1 /\ stats'.heartbeats = stats.heartbeats
           /\ stats.packets \in Nat /\ stats.heartbeats \in Nat
           /\ session_synced' = TRUE
           /\ synced_at' = IF session_synced THEN synced_at ELSE p.seq_num
<1>1. Receive(p, t) BY DEF Ingest, IngestDuplicate, IngestGap, IngestInOrder
<1>2. stats \in StatsType BY DEF IInv, TypeOK
<1>3. Counted(p) \in StatsType /\ Counted(p).packets = stats.packets + 1
  BY <1>1, ReceiveFacts DEF IInv
<1>4. Counted(p).heartbeats = stats.heartbeats BY <1>2 DEF Counted, StatsType
<1>5. stats'.packets = Counted(p).packets /\ stats'.heartbeats = Counted(p).heartbeats
  <2>1. CASE IngestDuplicate(p, t) BY <1>3, <2>1 DEF IngestDuplicate, StatsType
  <2>2. CASE IngestGap(p, t) BY <1>3, <2>2 DEF IngestGap, StatsType
  <2>3. CASE IngestInOrder(p, t) BY <2>3 DEF IngestInOrder
  <2>4. QED BY <2>1, <2>2, <2>3 DEF Ingest
<1>6. stats.packets \in Nat /\ stats.heartbeats \in Nat BY <1>2 DEF StatsType
<1>7. p.seq_num \in Nat /\ Sync(p.seq_num) BY <1>1, ReceiveFacts DEF IInv
<1>8. NeedsSync <=> ~session_synced BY DEF NeedsSync, IInv, UnsyncedIsBlank
<1>9. session_synced' = TRUE BY <1>7, SyncFacts
<1>10. synced_at' = IF session_synced THEN synced_at ELSE p.seq_num
  BY <1>7, <1>8 DEF Sync
<1>11. /\ received' = received \cup {[pkt |-> p, at |-> t]} /\ clock' = t
       /\ (ClockMayStepBack \/ clock <= t)
  BY <1>1 DEF Receive, CallAt
<1>12. QED BY <1>3, <1>4, <1>5, <1>6, <1>9, <1>10, <1>11

\* A heartbeat receives nothing; the first call of all syncs to its number.
LEMMA HeartbeatFacts ==
    ASSUME IInv, NEW h \in HeartbeatSeqs, NEW t \in Timestamps, IngestHeartbeat(h, t)
    PROVE  /\ received' = received /\ delivered' = delivered /\ clock' = t
           /\ (ClockMayStepBack \/ clock <= t)
           /\ stats'.packets = stats.packets /\ stats'.heartbeats = stats.heartbeats + 1
           /\ stats.packets \in Nat /\ stats.heartbeats \in Nat
           /\ session_synced' = TRUE
           /\ synced_at' = IF session_synced THEN synced_at ELSE h
<1>1. stats \in StatsType /\ h \in Nat BY InputAssumption DEF IInv, TypeOK
<1>2. stats'.packets = stats.packets /\ stats'.heartbeats = stats.heartbeats + 1
  BY <1>1 DEF IngestHeartbeat, StatsType
<1>3. stats.packets \in Nat /\ stats.heartbeats \in Nat BY <1>1 DEF StatsType
<1>4. NeedsSync <=> ~session_synced BY DEF NeedsSync, IInv, UnsyncedIsBlank
<1>5. Sync(h) /\ session_synced' = TRUE BY <1>1, SyncFacts DEF IngestHeartbeat
<1>6. synced_at' = IF session_synced THEN synced_at ELSE h BY <1>4, <1>5 DEF Sync
<1>7. /\ received' = received /\ delivered' = delivered /\ clock' = t
      /\ (ClockMayStepBack \/ clock <= t)
  BY DEF IngestHeartbeat, CallAt
<1>8. QED BY <1>2, <1>3, <1>5, <1>6, <1>7

\* As many messages have been delivered as numbers from the sync point on.
LEMMA DeliveredCount ==
    ASSUME IInv
    PROVE  IsFiniteSet(delivered) /\ Cardinality(delivered) = next_expected - synced_at
<1>1. /\ next_expected \in Nat /\ synced_at \in Nat /\ synced_at <= next_expected
      /\ Seqs(delivered) = synced_at .. next_expected - 1
      /\ \A d, e \in delivered : d.seq_num = e.seq_num => d = e
  BY DEF IInv, TypeOK, InOrderExactlyOnce
<1> DEFINE D == Seqs(delivered)
           f == [s \in D |-> CHOOSE d \in delivered : d.seq_num = s]
<1>2. ASSUME NEW s \in D PROVE f[s] \in delivered /\ f[s].seq_num = s
  BY DEF Seqs
<1>3. f \in [D -> delivered] BY <1>2
<1>4. \A a, b \in D : f[a] = f[b] => a = b BY <1>2
<1>5. ASSUME NEW d \in delivered PROVE \E s \in D : f[s] = d
  <2>1. d.seq_num \in D BY DEF Seqs
  <2>2. f[d.seq_num] = d BY <1>1, <1>2, <2>1
  <2>3. QED BY <2>1, <2>2
<1>6. f \in Bijection(D, delivered)
  <2> HIDE DEF D, f
  <2>1. f \in Injection(D, delivered) BY <1>3, <1>4 DEF Injection, IsInjective
  <2>2. f \in Surjection(D, delivered) BY <1>3, <1>5 DEF Surjection
  <2>3. QED BY <2>1, <2>2 DEF Bijection
<1>7. ExistsBijection(D, delivered) BY <1>6 DEF ExistsBijection
<1>8. IsFiniteSet(D) /\ Cardinality(D) = next_expected - synced_at
  BY <1>1, FS_Interval
<1> HIDE DEF D
<1>9. QED BY <1>7, <1>8, FS_Bijection

\* The same after a step.
LEMMA DeliveredCountNext ==
    ASSUME IInv'
    PROVE  IsFiniteSet(delivered') /\ Cardinality(delivered') = next_expected' - synced_at'
<1>1. (IInv => IsFiniteSet(delivered) /\ Cardinality(delivered) = next_expected - synced_at)'
  BY DeliveredCount, PTL
<1>2. QED BY <1>1

\* How many messages a call delivers: what ingest() returns.
NewlyDelivered == Cardinality(delivered') - Cardinality(delivered)

\* What ingest() returns is what the sync point and the expected number say.
LEMMA DeliveredGrows ==
    ASSUME IInv, IInv', Monotone
    PROVE  /\ NewlyDelivered \in Nat
           /\ next_expected' - synced_at' = next_expected - synced_at + NewlyDelivered
           /\ NewlyDelivered = 0 => delivered' = delivered
<1> DEFINE a == next_expected - synced_at
           b == next_expected' - synced_at'
<1>1. Cardinality(delivered) = a BY DeliveredCount
<1>2. Cardinality(delivered') = b BY DeliveredCountNext
<1>3. a \in Nat /\ b \in Nat
  <2>1. next_expected \in Nat /\ synced_at \in Nat /\ synced_at <= next_expected
    BY DEF IInv, TypeOK
  <2>2. next_expected' \in Nat /\ synced_at' \in Nat /\ synced_at' <= next_expected'
    BY DEF IInv, TypeOK
  <2>3. \A x, y \in Nat : y <= x => x - y \in Nat OBVIOUS
  <2>4. QED BY <2>1, <2>2, <2>3
<1>4. NewlyDelivered = b - a BY <1>1, <1>2 DEF NewlyDelivered
<1>5. IsFiniteSet(delivered') BY DeliveredCountNext
<1>6. delivered \in SUBSET delivered' BY DEF Monotone
<1>7. /\ Cardinality(delivered) <= Cardinality(delivered')
      /\ Cardinality(delivered') = Cardinality(delivered) => delivered' = delivered
  BY <1>5, <1>6, FS_Subset
<1> HIDE DEF a, b
<1>8. NewlyDelivered \in Nat /\ b = a + NewlyDelivered BY <1>1, <1>2, <1>3, <1>4, <1>7
<1>9. NewlyDelivered = 0 => delivered' = delivered BY <1>1, <1>2, <1>3, <1>4, <1>7
<1>10. QED BY <1>8, <1>9 DEF a, b

-----------------------------------------------------------------------------
(* Arithmetic.                                                             *)

\* Two different numbers that share a slot are at least a ring apart.
LEMMA SameSlotApart ==
    ASSUME NEW a \in Nat, NEW b \in Nat, a < b, a % kCapacity = b % kCapacity
    PROVE  a + kCapacity <= b
BY CapacityAssumption, SameRemainderApart

-----------------------------------------------------------------------------
(* Framing.                                                                *)

EndOfPacket(p) == p.seq_num + p.msg_count

\* A datagram that arrives whole and fits a slot.
IsWhole(p) == p.blocks = p.msg_count /\ p.kept = p.msg_count

\* Two datagrams are copies of each other or have no message in common.
SameOrDisjoint(p, q) ==
    \/ p.seq_num = q.seq_num /\ p.msg_count = q.msg_count
    \/ EndOfPacket(p) <= q.seq_num
    \/ EndOfPacket(q) <= p.seq_num

\* A set of datagrams that one way of cutting the stream can produce.
Uniform(P) == \A p \in P : IsWhole(p) /\ \A q \in P : SameOrDisjoint(p, q)

PacketsOf(rs) == {r.pkt : r \in rs}

\* The parts of a received datagram are numbers.
LEMMA PacketFacts ==
    ASSUME TypeOK, NEW r \in received
    PROVE  /\ r.pkt \in Packets /\ r.pkt.seq_num \in Nat
           /\ r.pkt.msg_count \in Nat /\ r.pkt.msg_count > 0
           /\ r.pkt.kept \in Nat /\ EndOfPacket(r.pkt) \in Nat
           /\ r.pkt.seq_num < EndOfPacket(r.pkt)
<1>1. r.pkt \in Packets BY DEF TypeOK
<1>2. r.pkt.seq_num \in Nat /\ r.pkt.msg_count \in Nat \ {0} /\ r.pkt.kept \in Nat
  BY <1>1, InputAssumption DEF PacketType
<1>3. QED BY <1>1, <1>2 DEF EndOfPacket

\* On a uniform feed a slot in use holds all of a datagram, and every datagram
\* received with that number ends where the slot ends.
LEMMA SlotIsWhole ==
    ASSUME IInv, Uniform(PacketsOf(received)), NEW s \in Nat, Holds(slots, s)
    PROVE  /\ \E r \in received : r.pkt.seq_num = s /\ EndOfPacket(r.pkt) = EndOf(slots, s)
           /\ \A r \in received : r.pkt.seq_num = s => EndOfPacket(r.pkt) = EndOf(slots, s)
<1>1. slots \in [0 .. kCapacity - 1 -> SlotType] BY DEF IInv, TypeOK
<1>2. s % kCapacity \in DOMAIN slots BY <1>1, IndexInRange
<1>3. PICK q \in received : q.pkt.seq_num = s /\ q.pkt.kept = SlotOf(slots, s).kept
  BY <1>2 DEF IInv, SlotsAreReceived, Holds, SlotOf
<1>4. EndOfPacket(q.pkt) = EndOf(slots, s)
  BY <1>3 DEF Uniform, PacketsOf, IsWhole, EndOf, EndOfPacket
<1>5. ASSUME NEW r \in received, r.pkt.seq_num = s
      PROVE  EndOfPacket(r.pkt) = EndOf(slots, s)
  <2>1. SameOrDisjoint(r.pkt, q.pkt) BY DEF Uniform, PacketsOf
  <2>2. /\ r.pkt.seq_num < EndOfPacket(r.pkt) /\ q.pkt.seq_num < EndOfPacket(q.pkt)
        /\ EndOfPacket(r.pkt) \in Nat /\ EndOfPacket(q.pkt) \in Nat
    BY PacketFacts DEF IInv
  <2>3. r.pkt.msg_count = q.pkt.msg_count BY <1>3, <1>5, <2>1, <2>2 DEF SameOrDisjoint
  <2>4. EndOfPacket(r.pkt) = EndOfPacket(q.pkt) BY <1>3, <1>5, <2>3 DEF EndOfPacket
  <2>5. QED BY <1>4, <2>4
<1>6. QED BY <1>3, <1>4, <1>5

-----------------------------------------------------------------------------
(* Streams.                                                                *)

\* A sequence of datagrams that are whole and each start where the one before
\* ends: what an exchange publishes on a line.
IsStream(st) ==
    /\ st \in Seq(Packets)
    /\ \A k \in 1 .. Len(st) - 1 : EndOfPacket(st[k]) = st[k + 1].seq_num
    /\ \A k \in 1 .. Len(st) : st[k].kept = st[k].msg_count

OfStream(st, p) == \E k \in 1 .. Len(st) : p = st[k]

\* The parts of a stream are whole datagrams that the network may deliver.
LEMMA StreamPacket ==
    ASSUME NEW st, IsStream(st), NEW k \in 1 .. Len(st)
    PROVE  /\ st[k] \in Packets /\ st[k].seq_num \in Nat
           /\ IsWhole(st[k]) /\ EndOfPacket(st[k]) \in Nat
           /\ st[k].seq_num < EndOfPacket(st[k])
           /\ k < Len(st) => EndOfPacket(st[k]) = st[k + 1].seq_num
<1>1. st[k] \in Packets BY DEF IsStream
<1>2. /\ st[k].seq_num \in Nat /\ st[k].msg_count \in Nat \ {0}
      /\ st[k].blocks \in Nat /\ st[k].kept \in Nat
      /\ st[k].blocks <= st[k].msg_count /\ st[k].kept <= st[k].blocks
  BY <1>1, InputAssumption DEF PacketType
<1>3. st[k].kept = st[k].msg_count BY DEF IsStream
<1>4. Len(st) \in Nat BY DEF IsStream
<1>5. k < Len(st) => EndOfPacket(st[k]) = st[k + 1].seq_num BY <1>4 DEF IsStream
<1>6. QED BY <1>1, <1>2, <1>3, <1>5 DEF IsWhole, EndOfPacket

\* A datagram ends before every later one begins.
LEMMA StreamOrder ==
    ASSUME NEW st, IsStream(st), NEW j \in 1 .. Len(st), NEW k \in 1 .. Len(st), j < k
    PROVE  EndOfPacket(st[j]) <= st[k].seq_num
<1> DEFINE S == {i \in 1 .. Len(st) : j < i /\ ~(EndOfPacket(st[j]) <= st[i].seq_num)}
<1>1. SUFFICES ASSUME S # {} PROVE FALSE OBVIOUS
<1>2. Len(st) \in Nat /\ S \in SUBSET Nat BY DEF IsStream
<1>3. PICK i \in S : \A x \in S : i <= x BY <1>1, <1>2, LeastExists
<1> DEFINE h == i - 1
<1>4. /\ i \in 1 .. Len(st) /\ j < i /\ ~(EndOfPacket(st[j]) <= st[i].seq_num)
      /\ h \in 1 .. Len(st) /\ h < Len(st) /\ h + 1 = i
  BY <1>2, <1>3
<1>5. h \notin S BY <1>2, <1>3, <1>4
<1>6. EndOfPacket(st[h]) = st[i].seq_num BY <1>4, StreamPacket
<1>7. CASE h = j
  <2>1. EndOfPacket(st[j]) = st[i].seq_num BY <1>6, <1>7
  <2>2. QED BY <1>4, <2>1, StreamPacket
<1>8. CASE h # j
  <2>1. j < h BY <1>2, <1>4, <1>8
  <2>2. EndOfPacket(st[j]) <= st[h].seq_num BY <1>4, <1>5, <2>1
  <2> HIDE DEF h
  <2>3. /\ EndOfPacket(st[j]) \in Nat /\ st[h].seq_num \in Nat
        /\ EndOfPacket(st[h]) \in Nat /\ st[h].seq_num < EndOfPacket(st[h])
    BY <1>4, StreamPacket
  <2>4. EndOfPacket(st[j]) <= EndOfPacket(st[h]) BY <2>2, <2>3
  <2>5. QED BY <1>4, <1>6, <2>4
<1>9. QED BY <1>7, <1>8

\* So numbers order datagrams as their places in the stream do.
LEMMA StreamNumbers ==
    ASSUME NEW st, IsStream(st), NEW j \in 1 .. Len(st), NEW k \in 1 .. Len(st),
           st[j].seq_num < st[k].seq_num
    PROVE  j < k
<1>1. SUFFICES ASSUME ~(j < k) PROVE FALSE OBVIOUS
<1>2. /\ st[j].seq_num \in Nat /\ st[k].seq_num \in Nat
      /\ EndOfPacket(st[k]) \in Nat /\ st[k].seq_num < EndOfPacket(st[k])
  BY StreamPacket
<1>3. j # k BY <1>2
<1>4. k < j BY <1>1, <1>3 DEF IsStream
<1>5. EndOfPacket(st[k]) <= st[j].seq_num BY <1>4, StreamOrder
<1>6. QED BY <1>2, <1>5

\* What is received of a stream is one way of cutting it.
LEMMA StreamIsUniform ==
    ASSUME NEW st, IsStream(st), NEW R, \A r \in R : OfStream(st, r.pkt)
    PROVE  Uniform(PacketsOf(R))
<1>1. SUFFICES ASSUME NEW p \in PacketsOf(R), NEW q \in PacketsOf(R)
               PROVE  IsWhole(p) /\ SameOrDisjoint(p, q)
  BY DEF Uniform
<1>2. PICK j \in 1 .. Len(st) : p = st[j] BY DEF PacketsOf, OfStream
<1>3. PICK k \in 1 .. Len(st) : q = st[k] BY DEF PacketsOf, OfStream
<1>4. CASE j = k BY <1>2, <1>3, <1>4, StreamPacket DEF SameOrDisjoint
<1>5. CASE j < k BY <1>2, <1>3, <1>5, StreamPacket, StreamOrder DEF SameOrDisjoint
<1>6. CASE k < j BY <1>2, <1>3, <1>6, StreamPacket, StreamOrder DEF SameOrDisjoint
<1>7. QED BY <1>4, <1>5, <1>6 DEF IsStream

-----------------------------------------------------------------------------
(* The invariant.                                                          *)

\* A datagram that was received has been delivered to its end or is in the
\* ring, unless an overflow has been counted.
ReceivedIsKept ==
    \A r \in received :
        \/ EndOfPacket(r.pkt) <= next_expected
        \/ Holds(slots, r.pkt.seq_num)
        \/ stats.overflows > 0

FramedInv ==
    /\ ~session_synced => received = {}
    /\ NoStaleSlot /\ ReceivedIsKept

\* A step that leaves the ring alone and counts no overflow keeps it, if what
\* it receives ends before the expected number.
LEMMA QuietFramed ==
    ASSUME IInv, IInv', FramedInv, Monotone, session_synced' \/ received' = received,
           slots' = slots, stats'.overflows = stats.overflows,
           session_synced => next_expected' = next_expected,
           \A r \in received' \ received : EndOfPacket(r.pkt) <= next_expected'
    PROVE  FramedInv'
<1>1. ~session_synced' => received' = {} BY DEF FramedInv, Monotone
<1>2. NoStaleSlot'
  <2>1. CASE session_synced BY <2>1 DEF FramedInv, NoStaleSlot
  <2>2. CASE ~session_synced BY <2>2 DEF IInv, UnsyncedIsBlank, NoStaleSlot
  <2>3. QED BY <2>1, <2>2
<1>3. ReceivedIsKept'
  <2>1. ASSUME NEW r \in received'
        PROVE  \/ EndOfPacket(r.pkt) <= next_expected'
               \/ Holds(slots', r.pkt.seq_num)
               \/ stats'.overflows > 0
    <3>1. CASE r \in received
      <4>1. session_synced BY <3>1 DEF FramedInv
      <4>2. next_expected' = next_expected BY <4>1
      <4>3. QED BY <3>1, <4>2 DEF FramedInv, ReceivedIsKept
    <3>2. CASE r \notin received BY <2>1, <3>2
    <3>3. QED BY <3>1, <3>2
  <2>2. QED BY <2>1 DEF ReceivedIsKept, Holds, SlotOf, EndOfPacket
<1>4. QED BY <1>1, <1>2, <1>3 DEF FramedInv

\* A datagram from beyond the gap is put where nothing else was, or an overflow
\* is counted.
LEMMA GapFramed ==
    ASSUME IInv, FramedInv, NEW p \in Packets, NEW t \in Timestamps, IngestGap(p, t)
    PROVE  FramedInv'
<1> DEFINE i == p.seq_num % kCapacity
<1>1. /\ p.seq_num \in Nat /\ Sync(p.seq_num)
      /\ received' = received \cup {[pkt |-> p, at |-> t]}
      /\ Counted(p) \in StatsType /\ Counted(p).overflows = stats.overflows
      /\ stats.overflows \in Nat
  <2>1. stats \in StatsType BY DEF IInv, TypeOK
  <2>2. Counted(p).overflows = stats.overflows /\ stats.overflows \in Nat
    BY <2>1 DEF Counted, StatsType
  <2>3. QED BY <2>2, ReceiveFacts DEF IngestGap, IInv
<1>2. /\ Expected(p.seq_num) \in Nat /\ session_synced' = TRUE
      /\ session_synced => Expected(p.seq_num) = next_expected
  BY <1>1, SyncFacts
<1>3. /\ slots' = Buffered(slots, p, t) /\ next_expected' = Expected(p.seq_num)
      /\ p.seq_num > next_expected'
  BY DEF IngestGap
<1>4. stats'.overflows = stats.overflows + (IF Collides(slots, p) THEN 1 ELSE 0)
  BY <1>1 DEF IngestGap, StatsType
<1>5. slots \in [0 .. kCapacity - 1 -> SlotType] /\ i \in 0 .. kCapacity - 1
  BY <1>1, IndexInRange DEF IInv, TypeOK
<1>6. \A j \in 0 .. kCapacity - 1 : slots[j].occupied => slots[j].seq_num > next_expected'
  <2>1. CASE session_synced BY <1>2, <1>3, <1>5, <2>1 DEF FramedInv, NoStaleSlot
  <2>2. CASE ~session_synced BY <1>5, <2>2 DEF IInv, UnsyncedIsBlank
  <2>3. QED BY <2>1, <2>2
<1>7. ASSUME NEW r \in received
      PROVE  \/ EndOfPacket(r.pkt) <= next_expected'
             \/ Holds(slots, r.pkt.seq_num) /\ r.pkt.seq_num \in Nat
             \/ stats.overflows > 0
  <2>1. session_synced BY DEF FramedInv
  <2>2. next_expected' = next_expected BY <1>2, <1>3, <2>1
  <2>3. r.pkt.seq_num \in Nat BY PacketFacts DEF IInv
  <2>4. QED BY <2>2, <2>3 DEF FramedInv, ReceivedIsKept
<1>8. CASE Collides(slots, p)
  <2>1. slots' = slots BY <1>3, <1>8 DEF Buffered
  <2>2. stats'.overflows > 0 BY <1>1, <1>4, <1>8
  <2>3. NoStaleSlot' BY <1>5, <1>6, <2>1 DEF NoStaleSlot
  <2>4. QED BY <1>2, <2>2, <2>3 DEF FramedInv, ReceivedIsKept
<1>9. CASE ~Collides(slots, p)
  <2>1. slots' = [slots EXCEPT ![i] = Stored(p, t)] BY <1>3, <1>9 DEF Buffered
  <2>2. stats'.overflows = stats.overflows BY <1>1, <1>4, <1>9
  <2>3. slots'[i].occupied /\ slots'[i].seq_num = p.seq_num BY <1>5, <2>1 DEF Stored
  <2>4. \A j \in 0 .. kCapacity - 1 : j # i => slots'[j] = slots[j] BY <1>5, <2>1
  <2>5. NoStaleSlot'
    <3>1. DOMAIN slots' = 0 .. kCapacity - 1 BY <1>5, <2>1
    <3>2. ASSUME NEW j \in 0 .. kCapacity - 1, slots'[j].occupied
          PROVE  slots'[j].seq_num > next_expected'
      <4>1. CASE j = i BY <1>3, <2>3, <4>1
      <4>2. CASE j # i BY <1>6, <2>4, <3>2, <4>2
      <4>3. QED BY <4>1, <4>2
    <3>3. QED BY <3>1, <3>2 DEF NoStaleSlot
  <2>6. ASSUME NEW s \in Nat, Holds(slots, s) PROVE Holds(slots', s)
    <3>1. s % kCapacity \in 0 .. kCapacity - 1 BY IndexInRange
    <3>2. CASE s % kCapacity = i
      <4>1. s = p.seq_num BY <1>9, <2>6, <3>2 DEF Collides, Holds, SlotOf
      <4>2. QED BY <2>3, <4>1 DEF Holds, SlotOf
    <3>3. CASE s % kCapacity # i BY <2>4, <2>6, <3>1, <3>3 DEF Holds, SlotOf
    <3>4. QED BY <3>2, <3>3
  <2>7. Holds(slots', p.seq_num) BY <2>3 DEF Holds, SlotOf
  <2>8. ReceivedIsKept'
    <3>1. ASSUME NEW r \in received'
          PROVE  \/ EndOfPacket(r.pkt) <= next_expected'
                 \/ Holds(slots', r.pkt.seq_num)
                 \/ stats'.overflows > 0
      <4>1. CASE r \in received BY <1>7, <2>2, <2>6, <4>1
      <4>2. CASE r = [pkt |-> p, at |-> t] BY <2>7, <4>2
      <4>3. QED BY <1>1, <3>1, <4>1, <4>2
    <3>2. QED BY <3>1 DEF ReceivedIsKept, Holds, SlotOf, EndOfPacket
  <2>9. QED BY <1>2, <2>5, <2>8 DEF FramedInv
<1>10. QED BY <1>8, <1>9

\* An in-order datagram of a uniform feed: what stays in the ring lies beyond
\* the new expected number, and what leaves it has been delivered to its end.
LEMMA InOrderFramed ==
    ASSUME IInv, IInv', FramedInv, NEW p \in Packets, NEW t \in Timestamps,
           IngestInOrder(p, t), Uniform(PacketsOf(received'))
    PROVE  FramedInv'
<1> DEFINE n == Expected(p.seq_num)
           mid == AfterDelivery(p.seq_num, p.blocks, n)
           m == AfterFlush(slots, mid)
           F == Flushed(slots, mid)
           new == [pkt |-> p, at |-> t]
<1>1. /\ p.seq_num \in Nat /\ p.blocks \in Nat /\ t \in Nat /\ Sync(p.seq_num)
      /\ received' = received \cup {new} /\ stats.packets \in Nat
      /\ Counted(p).overflows = stats.overflows
  <2>1. stats \in StatsType BY DEF IInv, TypeOK
  <2>2. Counted(p).overflows = stats.overflows BY <2>1 DEF Counted, StatsType
  <2>3. QED BY <2>2, ReceiveFacts DEF IngestInOrder, IInv
<1>2. /\ p.seq_num <= n /\ next_expected' = m /\ slots' = Drained(slots, mid)
      /\ stats'.overflows = stats.overflows
  BY <1>1 DEF IngestInOrder
<1>3. /\ n \in Nat /\ session_synced' = TRUE
      /\ session_synced => n = next_expected
  BY <1>1, SyncFacts
<1>4. /\ Uniform(PacketsOf(received)) /\ IsWhole(p)
      /\ \A r \in received : SameOrDisjoint(p, r.pkt)
  <2>1. new \in received' /\ new.pkt = p BY <1>1
  <2>2. p \in PacketsOf(received') BY <2>1 DEF PacketsOf
  <2>3. \A r \in received : r.pkt \in PacketsOf(received') BY <1>1 DEF PacketsOf
  <2>4. \A q \in PacketsOf(received) : q \in PacketsOf(received') BY <2>3 DEF PacketsOf
  <2> HIDE DEF new
  <2>5. QED BY <2>2, <2>3, <2>4 DEF Uniform
<1>5. p.msg_count \in Nat /\ EndOfPacket(p) \in Nat /\ EndOfPacket(p) = p.seq_num + p.blocks
  BY <1>1, <1>4, InputAssumption DEF PacketType, EndOfPacket, IsWhole
<1> HIDE DEF n
<1>6. mid \in Nat /\ n <= mid /\ mid = IF n <= EndOfPacket(p) THEN EndOfPacket(p) ELSE n
  <2>1. /\ AfterDelivery(p.seq_num, p.blocks, n) = Greatest({n, p.seq_num + p.blocks})
    BY DEF AfterDelivery
  <2>2. QED BY <1>3, <1>5, <2>1, GreatestOfTwo
<1> HIDE DEF mid
<1>7. RingUpTo(slots, MaxSeq + mid) /\ mid <= MaxSeq + mid /\ MaxSeq + mid \in Nat
  BY <1>6, RingIsBounded
<1>8. /\ m \in Nat /\ mid <= m
      /\ \A v \in F : v \in Nat /\ Holds(slots, v) /\ EndOf(slots, v) <= m
      /\ \A s \in mid .. m - 1 : \E v \in F : v <= s /\ s < EndOf(slots, v)
      /\ Holds(slots, m) => m \in F
  BY <1>6, <1>7, FlushChain
<1>9. slots \in [0 .. kCapacity - 1 -> SlotType]
      /\ \A i \in 0 .. kCapacity - 1 : slots[i].occupied => slots[i].seq_num % kCapacity = i
  BY DEF IInv, TypeOK
<1>10. slots' = [i \in 0 .. kCapacity - 1 |->
                   IF i \in {v % kCapacity : v \in F} THEN Free ELSE slots[i]]
  BY <1>2, <1>9 DEF Drained
<1> HIDE DEF m, F
<1>11. ~Free.occupied BY DEF Free
<1>12. NoStaleSlot'
  <2>1. DOMAIN slots' = 0 .. kCapacity - 1 BY <1>10
  <2>2. ASSUME NEW i \in 0 .. kCapacity - 1, slots'[i].occupied
        PROVE  slots'[i].seq_num > m
    <3> DEFINE a == slots[i].seq_num
    <3>1. slots'[i] = slots[i] /\ i \notin {v % kCapacity : v \in F}
      BY <1>10, <1>11, <2>2
    <3>2. a \in Nat /\ a % kCapacity = i /\ Holds(slots, a)
      BY <1>9, <2>2, <3>1 DEF SlotType, Holds, SlotOf
    <3>3. a \notin F BY <3>1, <3>2
    <3>4. a > n
      <4>1. CASE session_synced BY <1>3, <1>9, <2>2, <3>1, <4>1 DEF FramedInv, NoStaleSlot
      <4>2. CASE ~session_synced BY <1>9, <2>2, <3>1, <4>2 DEF IInv, UnsyncedIsBlank
      <4>3. QED BY <4>1, <4>2
    <3> HIDE DEF a
    <3>5. PICK r \in received : r.pkt.seq_num = a /\ EndOfPacket(r.pkt) = EndOf(slots, a)
      BY <1>4, <3>2, SlotIsWhole
    <3>6. EndOfPacket(r.pkt) \in Nat /\ a < EndOfPacket(r.pkt)
      BY <3>5, PacketFacts DEF IInv
    <3>7. a >= EndOfPacket(p)
      <4>1. SameOrDisjoint(p, r.pkt) BY <1>4
      <4>2. p.seq_num < a BY <1>1, <1>2, <1>3, <3>2, <3>4
      <4>3. QED BY <1>1, <1>5, <3>2, <3>5, <3>6, <4>1, <4>2 DEF SameOrDisjoint
    <3>8. a >= mid BY <1>3, <1>5, <1>6, <3>2, <3>4, <3>7
    <3>9. ~(a < m)
      <4>1. SUFFICES ASSUME a < m PROVE FALSE OBVIOUS
      <4>2. PICK v \in F : v <= a /\ a < EndOf(slots, v)
        BY <1>6, <1>8, <3>2, <3>8, <4>1
      <4>3. v \in Nat /\ Holds(slots, v) BY <1>8
      <4>4. PICK q \in received : q.pkt.seq_num = v /\ EndOfPacket(q.pkt) = EndOf(slots, v)
        BY <1>4, <4>3, SlotIsWhole
      <4>5. SameOrDisjoint(q.pkt, r.pkt) BY <1>4 DEF Uniform, PacketsOf
      <4>6. v # a BY <3>3
      <4>7. EndOfPacket(q.pkt) \in Nat BY PacketFacts DEF IInv
      <4>8. QED BY <3>2, <3>5, <3>6, <4>2, <4>3, <4>4, <4>5, <4>6, <4>7 DEF SameOrDisjoint
    <3>10. a # m BY <1>8, <3>2, <3>3
    <3>11. a > m BY <1>8, <3>2, <3>9, <3>10
    <3>12. QED BY <3>1, <3>11 DEF a
  <2>3. QED BY <1>2, <2>1, <2>2 DEF NoStaleSlot
<1>13. ReceivedIsKept'
  <2>1. ASSUME NEW r \in received'
        PROVE  \/ EndOfPacket(r.pkt) <= m
               \/ Holds(slots', r.pkt.seq_num)
               \/ stats'.overflows > 0
    <3>1. CASE r = new BY <1>3, <1>5, <1>6, <1>8, <3>1
    <3>2. CASE r \in received
      <4>0. r.pkt.seq_num \in Nat /\ EndOfPacket(r.pkt) \in Nat BY <3>2, PacketFacts DEF IInv
      <4>1. session_synced BY <3>2 DEF FramedInv
      <4>2. CASE EndOfPacket(r.pkt) <= next_expected BY <1>3, <1>6, <1>8, <4>0, <4>1, <4>2
      <4>3. CASE stats.overflows > 0 BY <1>2, <4>3
      <4>4. CASE Holds(slots, r.pkt.seq_num)
        <5> DEFINE i == r.pkt.seq_num % kCapacity
        <5>1. i \in 0 .. kCapacity - 1 BY <4>0, IndexInRange
        <5>2. CASE r.pkt.seq_num \in F
          <6>1. EndOfPacket(r.pkt) = EndOf(slots, r.pkt.seq_num)
            BY <1>4, <3>2, <4>0, <4>4, SlotIsWhole
          <6>2. QED BY <1>8, <5>2, <6>1
        <5>3. CASE r.pkt.seq_num \notin F
          <6>1. i \notin {v % kCapacity : v \in F}
            <7>1. SUFFICES ASSUME NEW v \in F, i = v % kCapacity PROVE FALSE OBVIOUS
            <7>2. Holds(slots, v) BY <1>8
            <7>3. v = r.pkt.seq_num BY <4>4, <7>1, <7>2 DEF Holds, SlotOf
            <7>4. QED BY <5>3, <7>3
          <6>2. slots'[i] = slots[i] BY <1>10, <5>1, <6>1
          <6>3. QED BY <4>4, <6>2 DEF Holds, SlotOf
        <5>4. QED BY <5>2, <5>3
      <4>5. QED BY <3>2, <4>2, <4>3, <4>4 DEF FramedInv, ReceivedIsKept
    <3>3. QED BY <1>1, <2>1, <3>1, <3>2
  <2>2. QED BY <1>2, <2>1 DEF ReceivedIsKept, Holds, SlotOf, EndOfPacket
<1>14. QED BY <1>3, <1>12, <1>13 DEF FramedInv

\* On a uniform feed every call keeps FramedInv.
LEMMA FramedStep ==
    ASSUME IInv, IInv', FramedInv, [Next]_vars, Uniform(PacketsOf(received'))
    PROVE  FramedInv'
<1>0. Monotone BY StepIsMonotone
<1>1. CASE UNCHANGED vars
  BY <1>1 DEF vars, history, FramedInv, NoStaleSlot, ReceivedIsKept, Holds, SlotOf, EndOfPacket
<1>2. stats \in StatsType BY DEF IInv, TypeOK
<1>3. ASSUME NEW t \in Timestamps, NEW h \in HeartbeatSeqs, IngestHeartbeat(h, t)
      PROVE  FramedInv'
  <2>1. h \in Nat BY InputAssumption
  <2>2. session_synced => Expected(h) = next_expected
    BY <1>3, <2>1, SyncFacts DEF IngestHeartbeat
  <2>3. slots' = slots /\ received' = received /\ next_expected' = Expected(h)
    BY <1>3 DEF IngestHeartbeat
  <2>4. stats'.overflows = stats.overflows BY <1>2, <1>3 DEF IngestHeartbeat, StatsType
  <2>5. QED BY <1>0, <2>2, <2>3, <2>4, QuietFramed
<1>4. ASSUME NEW t \in Timestamps, Tick(t) PROVE FramedInv'
  <2>1. slots' = slots /\ received' = received /\ next_expected' = next_expected
    BY <1>4 DEF Tick
  <2>2. stats'.overflows = stats.overflows BY <1>2, <1>4 DEF Tick, StatsType
  <2>3. QED BY <1>0, <2>1, <2>2, QuietFramed
<1>5. ASSUME NEW t \in Timestamps, NEW p \in Packets, IngestDuplicate(p, t) PROVE FramedInv'
  <2>1. /\ p.seq_num \in Nat /\ p.msg_count \in Nat /\ Sync(p.seq_num)
        /\ received' = received \cup {[pkt |-> p, at |-> t]}
    BY <1>5, ReceiveFacts DEF IngestDuplicate, IInv
  <2>2. /\ session_synced' = TRUE /\ Expected(p.seq_num) \in Nat
        /\ session_synced => Expected(p.seq_num) = next_expected
    BY <2>1, SyncFacts
  <2>3. /\ slots' = slots /\ next_expected' = Expected(p.seq_num)
        /\ p.seq_num + p.msg_count - 1 < next_expected'
    BY <1>5 DEF IngestDuplicate, IsDuplicate
  <2>4. stats'.overflows = stats.overflows
    BY <1>2, <1>5 DEF IngestDuplicate, Counted, StatsType
  <2>5. EndOfPacket(p) <= next_expected' BY <2>1, <2>2, <2>3 DEF EndOfPacket
  <2>6. \A r \in received' \ received : EndOfPacket(r.pkt) <= next_expected'
    BY <2>1, <2>5
  <2>7. QED BY <1>0, <2>2, <2>3, <2>4, <2>6, QuietFramed
<1>6. ASSUME NEW t \in Timestamps, NEW p \in Packets, Ingest(p, t) PROVE FramedInv'
  BY <1>5, <1>6, GapFramed, InOrderFramed DEF Ingest
<1>7. QED BY <1>1, <1>3, <1>4, <1>6 DEF Next

\* The constructor establishes it.
LEMMA InitFramed == Init => FramedInv
BY DEF Init, FramedInv, NoStaleSlot, ReceivedIsKept, Free

-----------------------------------------------------------------------------
(* What follows from it.                                                   *)

\* Nothing that was received from a uniform feed is stranded without an overflow.
LEMMA FramedNothingStranded ==
    ASSUME IInv, FramedInv, Uniform(PacketsOf(received))
    PROVE  NothingIsStranded
<1>1. SUFFICES ASSUME NEW r \in received,
                      NEW s \in r.pkt.seq_num .. r.pkt.seq_num + r.pkt.kept - 1,
                      ~(s < next_expected), ~(stats.overflows > 0)
               PROVE  Reachable(s)
  BY DEF NothingIsStranded
<1>2. /\ r.pkt.seq_num \in Nat /\ r.pkt.kept \in Nat
      /\ EndOfPacket(r.pkt) = r.pkt.seq_num + r.pkt.kept /\ EndOfPacket(r.pkt) \in Nat
  BY <1>1, PacketFacts DEF IInv, Uniform, PacketsOf, IsWhole, EndOfPacket
<1>3. next_expected \in Nat /\ slots \in [0 .. kCapacity - 1 -> SlotType] BY DEF IInv, TypeOK
<1>4. Holds(slots, r.pkt.seq_num)
  BY <1>1, <1>2, <1>3 DEF FramedInv, ReceivedIsKept
<1> DEFINE i == r.pkt.seq_num % kCapacity
<1>5. i \in DOMAIN slots BY <1>2, <1>3, IndexInRange
<1>6. slots[i].occupied /\ slots[i].seq_num = r.pkt.seq_num BY <1>4 DEF Holds, SlotOf
<1>7. EndOfPacket(r.pkt) = r.pkt.seq_num + slots[i].kept
  BY <1>1, <1>2, <1>4, SlotIsWhole DEF EndOf, SlotOf
<1>8. s \in slots[i].seq_num .. slots[i].seq_num + slots[i].kept - 1
  <2>1. slots[i].kept \in Nat BY <1>3, <1>5 DEF SlotType
  <2> HIDE DEF i
  <2>2. slots[i].kept = r.pkt.kept BY <1>2, <1>7, <2>1
  <2>3. QED BY <1>1, <1>6, <2>2
<1>9. slots[i].seq_num > next_expected BY <1>5, <1>6 DEF FramedInv, NoStaleSlot
<1>10. QED BY <1>5, <1>6, <1>8, <1>9 DEF Reachable

\* A call that counts an overflow has seen a datagram from a ring away.
LEMMA OverflowStep ==
    ASSUME IInv, FramedInv, [Next]_vars, stats'.overflows > stats.overflows
    PROVE  \E r \in received' : r.pkt.seq_num > next_expected' + kCapacity
<1>0. stats \in StatsType /\ stats.overflows \in Nat BY DEF IInv, TypeOK, StatsType
<1>1. PICK t \in Timestamps, p \in Packets : IngestGap(p, t) /\ Collides(slots, p)
  <2>1. CASE UNCHANGED vars BY <1>0, <2>1 DEF vars, history
  <2>2. ASSUME NEW t \in Timestamps, NEW h \in HeartbeatSeqs, IngestHeartbeat(h, t)
        PROVE  FALSE
    BY <1>0, <2>2 DEF IngestHeartbeat, StatsType
  <2>3. ASSUME NEW t \in Timestamps, Tick(t) PROVE FALSE
    BY <1>0, <2>3 DEF Tick, StatsType
  <2>4. ASSUME NEW t \in Timestamps, NEW p \in Packets, Ingest(p, t)
        PROVE  IngestGap(p, t) /\ Collides(slots, p)
    <3>1. Counted(p).overflows = stats.overflows BY <1>0 DEF Counted, StatsType
    <3>2. ~IngestDuplicate(p, t)
      <4>1. SUFFICES ASSUME IngestDuplicate(p, t) PROVE FALSE OBVIOUS
      <4>2. Counted(p) \in StatsType BY <4>1, ReceiveFacts DEF IngestDuplicate, IInv
      <4>3. stats'.overflows = Counted(p).overflows
        BY <4>1, <4>2 DEF IngestDuplicate, StatsType
      <4>4. QED BY <1>0, <3>1, <4>3
    <3>3. ~IngestInOrder(p, t) BY <1>0, <3>1 DEF IngestInOrder
    <3>4. IngestGap(p, t) BY <2>4, <3>2, <3>3 DEF Ingest
    <3>5. stats'.overflows = stats.overflows + (IF Collides(slots, p) THEN 1 ELSE 0)
      BY <1>0, <3>1, <3>4 DEF IngestGap, Counted, StatsType
    <3>6. QED BY <1>0, <3>4, <3>5
  <2>5. QED BY <2>1, <2>2, <2>3, <2>4 DEF Next
<1>2. /\ p.seq_num \in Nat /\ Sync(p.seq_num)
      /\ received' = received \cup {[pkt |-> p, at |-> t]}
  BY <1>1, ReceiveFacts DEF IngestGap, IInv
<1>3. /\ Expected(p.seq_num) \in Nat
      /\ session_synced => Expected(p.seq_num) = next_expected
  BY <1>2, SyncFacts
<1>4. next_expected' = Expected(p.seq_num) /\ p.seq_num > next_expected'
  BY <1>1 DEF IngestGap
<1> DEFINE i == p.seq_num % kCapacity
           q == slots[i].seq_num
<1>5. slots \in [0 .. kCapacity - 1 -> SlotType] /\ i \in 0 .. kCapacity - 1
  BY <1>2, IndexInRange DEF IInv, TypeOK
<1>6. slots[i].occupied /\ q # p.seq_num BY <1>1 DEF Collides, Holds, SlotOf
<1>7. q \in Nat /\ q % kCapacity = p.seq_num % kCapacity
  BY <1>5, <1>6 DEF IInv, TypeOK, SlotType
<1>8. session_synced BY <1>5, <1>6 DEF IInv, UnsyncedIsBlank
<1>9. q > next_expected' BY <1>3, <1>4, <1>5, <1>6, <1>8 DEF FramedInv, NoStaleSlot
<1>10. PICK r \in received : r.pkt.seq_num = q
  BY <1>5, <1>6 DEF IInv, SlotsAreReceived
<1>11. kCapacity \in Nat BY CapacityAssumption
<1> HIDE DEF q, i
<1>12. CASE q < p.seq_num
  <2>1. q + kCapacity <= p.seq_num BY <1>2, <1>7, <1>12, SameSlotApart
  <2>2. p.seq_num > next_expected' + kCapacity BY <1>2, <1>3, <1>4, <1>7, <1>9, <1>11, <2>1
  <2>3. [pkt |-> p, at |-> t] \in received' BY <1>2
  <2>4. QED BY <2>2, <2>3
<1>13. CASE p.seq_num < q
  <2>1. p.seq_num + kCapacity <= q BY <1>2, <1>7, <1>13, SameSlotApart
  <2>2. q > next_expected' + kCapacity BY <1>2, <1>3, <1>4, <1>7, <1>9, <1>11, <2>1
  <2>3. r \in received' BY <1>2, <1>10
  <2>4. QED BY <1>10, <2>2, <2>3
<1>14. QED BY <1>2, <1>6, <1>7, <1>12, <1>13

-----------------------------------------------------------------------------
(* Theorems.                                                               *)

\* What is received comes from Packets, so it is uniform if Packets is.
LEMMA ReceivedIsUniform ==
    ASSUME TypeOK, Uniform(Packets) PROVE Uniform(PacketsOf(received))
<1>1. PacketsOf(received) \subseteq Packets BY DEF TypeOK, PacketsOf
<1>2. QED BY <1>1 DEF Uniform

\* FramedInv holds in every reachable state, on a uniform feed.
LEMMA FramedInvariance == ASSUME Uniform(Packets) PROVE Spec => []FramedInv
<1>1. IInv /\ IInv' /\ FramedInv /\ [Next]_vars => FramedInv'
  <2>1. SUFFICES ASSUME IInv, IInv', FramedInv, [Next]_vars PROVE FramedInv' OBVIOUS
  <2>2. Uniform(PacketsOf(received'))
    <3>1. PacketsOf(received') \subseteq Packets BY <2>1 DEF IInv, TypeOK, PacketsOf
    <3>2. QED BY <3>1 DEF Uniform
  <2>3. QED BY <2>1, <2>2, FramedStep
<1>2. QED BY <1>1, InitFramed, Invariance, PTL DEF Spec

\* No slot goes stale: every slot in use is for a datagram still to come.
THEOREM SlotsStayFresh == Uniform(Packets) => (Spec => []NoStaleSlot)
<1> SUFFICES ASSUME Uniform(Packets) PROVE Spec => []NoStaleSlot OBVIOUS
<1>1. FramedInv => NoStaleSlot BY DEF FramedInv
<1>2. QED BY <1>1, FramedInvariance, PTL

\* "we scan forward from next_expected to flush any already-received
\* out-of-order messages" (gap_buffer.hpp:23).
THEOREM NothingIsLeftBehind == Uniform(Packets) => (Spec => []NothingIsStranded)
<1> SUFFICES ASSUME Uniform(Packets) PROVE Spec => []NothingIsStranded OBVIOUS
<1>1. IInv /\ FramedInv => NothingIsStranded
  BY ReceivedIsUniform, FramedNothingStranded DEF IInv
<1>2. QED BY <1>1, FramedInvariance, Invariance, PTL

\* "In practice this means the gap is > 4096 messages" (gap_buffer.hpp:262).
THEOREM OverflowIsFarAhead == Uniform(Packets) => (Spec => OverflowMeansFarAhead)
<1> SUFFICES ASSUME Uniform(Packets) PROVE Spec => OverflowMeansFarAhead OBVIOUS
<1>1. IInv /\ FramedInv /\ [Next]_vars
        => [stats'.overflows > stats.overflows =>
              \E r \in received' : r.pkt.seq_num > next_expected' + kCapacity]_vars
  BY OverflowStep
<1>2. QED BY <1>1, FramedInvariance, Invariance, PTL DEF Spec, OverflowMeansFarAhead

=============================================================================

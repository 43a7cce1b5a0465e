----------------------------- MODULE GapBuffer -----------------------------
(***************************************************************************)
(* feed::GapBuffer (include/feed/gap_buffer.hpp): the sequencer between a  *)
(* lossy, reordering, duplicating MoldUDP64 multicast feed and the         *)
(* in-order consumer.  The receive thread is its only caller; each action  *)
(* is one whole call of ingest() or tick().                                *)
(*                                                                         *)
(* Data kept: a datagram is its header and how many of its message blocks  *)
(* can be walked; a message is its sequence number and receive timestamp.  *)
(* A datagram whose header does not parse changes nothing (ingest returns  *)
(* -1 before touching any field), so it is not an action.                  *)
(***************************************************************************)
EXTENDS Integers, FiniteSets

CONSTANTS
    kCapacity,             \* slots of the out-of-order ring (4096)
    gap_timeout_ns,        \* Config: debounce before the first request
    retry_interval_ns,     \* Config: spacing of later requests
    max_retransmit_count,  \* Config: cap on the size of a request
    OnRetxSet,             \* has set_on_retransmit been called?
    TimeMod,               \* timestamps are uint64_t: 2^64
    Packets,               \* the data datagrams the network may deliver
    HeartbeatSeqs,         \* sequence numbers heartbeats may carry
    Timestamps,            \* the values callers may pass as now_ns
    ClockMayStepBack,      \* may now_ns be smaller than in the call before?
    MaxSeq,                \* sequence numbers are uint64_t and do not wrap
    MaxPackets,            \* bound on data datagrams ingested
    MaxHeartbeats,         \* bound on heartbeats ingested
    MaxRequests            \* bound on retransmit requests sent

\* A datagram: blocks of its msg_count messages are complete in the payload
\* (deliver_packet's walk stops at the first that is not), and kept of those
\* lie within the kMaxPacketBytes that a slot can store.
PacketType == [seq_num : Nat, msg_count : Nat \ {0}, blocks : Nat, kept : Nat]

ASSUME CapacityAssumption == kCapacity \in Nat \ {0}

ASSUME ConfigAssumption ==
    /\ gap_timeout_ns \in Nat /\ retry_interval_ns \in Nat
    /\ max_retransmit_count \in Nat
    /\ OnRetxSet \in BOOLEAN /\ ClockMayStepBack \in BOOLEAN

ASSUME TimeAssumption == TimeMod \in Nat \ {0} /\ Timestamps \subseteq 1 .. TimeMod - 1

ASSUME InputAssumption ==
    /\ Packets \subseteq PacketType
    /\ \A p \in Packets : /\ p.blocks <= p.msg_count /\ p.kept <= p.blocks
                          /\ p.seq_num + p.msg_count <= MaxSeq
    /\ HeartbeatSeqs \subseteq 0 .. MaxSeq
    /\ MaxSeq \in Nat
    /\ MaxPackets \in Nat /\ MaxHeartbeats \in Nat /\ MaxRequests \in Nat

VARIABLES
    session_synced, next_expected,
    gap,         \* [start, detected_at, last_retx]: gap_start_ (0 = none), ...
    slots,       \* the out-of-order ring
    stats,       \* the stat_* counters (stat_delivered_ is delivered's size)
    \* What the environment has seen, not state of the class:
    clock,       \* now_ns of the last call
    synced_at,   \* sequence number the session was synced to
    received,    \* every datagram ingested, with its arrival time
    delivered,   \* every on_message call
    gap_events,  \* every on_gap call
    requests     \* every on_retransmit call

history == <<clock, synced_at, received, delivered, gap_events, requests>>
vars == <<session_synced, next_expected, gap, slots, stats, history>>

-----------------------------------------------------------------------------
(* The ring.                                                               *)

SlotType == [occupied : BOOLEAN, seq_num : Nat, kept : Nat, recv_ns : Nat]
Free == [occupied |-> FALSE, seq_num |-> 0, kept |-> 0, recv_ns |-> 0]

SlotOf(sl, s) == sl[s % kCapacity]
\* The test used by flush_buffer and by the missing-count loop.
Holds(sl, s) == SlotOf(sl, s).occupied /\ SlotOf(sl, s).seq_num = s
EndOf(sl, s) == s + SlotOf(sl, s).kept

\* Mutants: no collision is noticed; the slot's own number is not looked at.
CollidesNever(sl, p) == FALSE
CollidesAlways(sl, p) == SlotOf(sl, p.seq_num).occupied

\* buffer_packet: a slot taken by another sequence number is an overflow and
\* the datagram is dropped; one taken by the same number is overwritten.
Collides(sl, p) == SlotOf(sl, p.seq_num).occupied /\ ~Holds(sl, p.seq_num)
\* Mutants: the copy is not limited to the slot; the arrival time is not kept.
StoredUnbounded(p, t) ==
    [occupied |-> TRUE, seq_num |-> p.seq_num, kept |-> p.blocks, recv_ns |-> t]
StoredUnstamped(p, t) ==
    [occupied |-> TRUE, seq_num |-> p.seq_num, kept |-> p.kept, recv_ns |-> 0]
Stored(p, t) == [occupied |-> TRUE, seq_num |-> p.seq_num, kept |-> p.kept, recv_ns |-> t]
\* Mutant: the slot is chosen by the number after the datagram's.
BufferedBeside(sl, p, t) ==
    IF Collides(sl, p) THEN sl
    ELSE [sl EXCEPT ![(p.seq_num + 1) % kCapacity] = Stored(p, t)]
Buffered(sl, p, t) ==
    IF Collides(sl, p) THEN sl
    ELSE [sl EXCEPT ![p.seq_num % kCapacity] = Stored(p, t)]

-----------------------------------------------------------------------------
(* Delivery.                                                               *)

Greatest(S) == CHOOSE x \in S : \A y \in S : y <= x

\* One on_message call: the datagram call it happened in, the first number of
\* the datagram it came from, its own number and its receive timestamp.
MessageType == [call : Nat, from : Nat, seq_num : Nat, recv_ns : Nat]
Message(call, from, s, t) == [call |-> call, from |-> from, seq_num |-> s, recv_ns |-> t]

\* Mutant: the duplicate prefix is delivered again.
EmittedAll(call, first, count, n, t) ==
    {Message(call, first, s, t) : s \in first .. first + count - 1}
\* on_message calls made for count blocks of a datagram starting at first,
\* when n is expected: the duplicate prefix is walked but not delivered.
Emitted(call, first, count, n, t) ==
    {Message(call, first, s, t) : s \in {q \in first .. first + count - 1 : q >= n}}

\* Mutant: next_expected_ is set without looking at where it is.
AfterDeliveryBack(first, count, n) == first + count

\* deliver_packet's last line: next_expected_ never moves back.
AfterDelivery(first, count, n) == Greatest({n, first + count})

\* flush_buffer frees and delivers the chain of buffered datagrams that
\* starts at n, each starting where the one before ends: the least set of
\* buffered datagrams closed under "starts at n" and "starts at my end".
Starts(sl) == {s \in {sl[i].seq_num : i \in DOMAIN sl} : Holds(sl, s)}
ChainClosed(V, sl, n) ==
    /\ Holds(sl, n) => n \in V
    /\ \A v \in V : Holds(sl, EndOf(sl, v)) => EndOf(sl, v) \in V
\* Mutant: one datagram is flushed, not the chain.
FlushedOne(sl, n) == IF Holds(sl, n) THEN {n} ELSE {}
Flushed(sl, n) ==
    {v \in Starts(sl) : \A V \in SUBSET Starts(sl) : ChainClosed(V, sl, n) => v \in V}
AfterFlush(sl, n) == Greatest({n} \cup {EndOf(sl, v) : v \in Flushed(sl, n)})
FlushEmitted(call, sl, n) ==
    UNION {Emitted(call, v, SlotOf(sl, v).kept, v, SlotOf(sl, v).recv_ns) : v \in Flushed(sl, n)}
\* Mutant: a flushed slot is not freed.
DrainedNothing(sl, n) == sl
Drained(sl, n) ==
    [i \in DOMAIN sl |-> IF i \in {v % kCapacity : v \in Flushed(sl, n)} THEN Free ELSE sl[i]]

-----------------------------------------------------------------------------
(* The gap tracker.                                                        *)

\* uint64_t subtraction.
Elapsed(t, since) == (t - since) % TimeMod

\* Mutants: the retry interval, the debounce and the first request are lost.
RequestDueNoInterval(g, t) ==
    g.start # 0 /\ OnRetxSet /\ Elapsed(t, g.detected_at) >= gap_timeout_ns
RequestDueNoDebounce(g, t) ==
    /\ g.start # 0 /\ OnRetxSet
    /\ g.last_retx = 0 \/ Elapsed(t, g.last_retx) >= retry_interval_ns
RequestDueNoFirst(g, t) ==
    g.start # 0 /\ OnRetxSet /\ g.last_retx # 0 /\ Elapsed(t, g.last_retx) >= retry_interval_ns

RequestDue(g, t) ==
    /\ g.start # 0
    /\ OnRetxSet
    /\ IF g.last_retx = 0
         THEN Elapsed(t, g.detected_at) >= gap_timeout_ns
         ELSE Elapsed(t, g.last_retx) >= retry_interval_ns

\* How many sequence numbers from g.start on are missing, up to the first
\* buffered one; the loop counts one before it looks at max_retransmit_count.
RequestLimit ==
    LET cap == IF max_retransmit_count = 0 THEN 1 ELSE max_retransmit_count
    IN  IF cap < kCapacity THEN cap ELSE kCapacity
\* Mutant: what is buffered is asked for again.
MissingCountBlind(g, sl) == RequestLimit
MissingCount(g, sl) ==
    CHOOSE k \in 0 .. RequestLimit :
        /\ k = RequestLimit \/ Holds(sl, g.start + k)
        /\ \A j \in 0 .. k - 1 : ~Holds(sl, g.start + j)

\* Mutants: each out-of-order datagram restarts the tracker; none starts it.
TrackingRestarts(g, n, t) == [start |-> n, detected_at |-> t, last_retx |-> 0]
TrackingNever(g, n, t) == g

\* The tracker as handle_gap leaves it when expected number n has not come.
Tracking(g, n, t) ==
    IF g.start = 0 THEN [start |-> n, detected_at |-> t, last_retx |-> 0] ELSE g

\* check_gap_timeout on tracker g and ring sl at time t.
CheckGapTimeout(g, sl, t) ==
    LET count == MissingCount(g, sl) IN
    IF ~RequestDue(g, t)
      THEN gap' = g /\ requests' = requests
      ELSE IF count = 0
      THEN gap' = [g EXCEPT !.start = 0] /\ requests' = requests
      ELSE /\ gap' = [g EXCEPT !.last_retx = t]
           /\ requests' = requests \cup
                {[n |-> stats.retx, first_seq |-> g.start, count |-> count, at |-> t]}
Requested(g, sl, t) == IF RequestDue(g, t) /\ MissingCount(g, sl) # 0 THEN 1 ELSE 0

-----------------------------------------------------------------------------
(* Calls.                                                                  *)

StatsType == [packets : Nat, messages : Nat, gaps : Nat, duplicates : Nat,
              retx : Nat, heartbeats : Nat, overflows : Nat]

Init ==
    /\ session_synced = FALSE /\ next_expected = 0
    /\ gap = [start |-> 0, detected_at |-> 0, last_retx |-> 0]
    /\ slots = [i \in 0 .. kCapacity - 1 |-> Free]
    /\ stats = [packets |-> 0, messages |-> 0, gaps |-> 0, duplicates |-> 0,
                retx |-> 0, heartbeats |-> 0, overflows |-> 0]
    /\ clock = 0 /\ synced_at = 0
    /\ received = {} /\ delivered = {} /\ gap_events = {} /\ requests = {}

CallAt(t) ==
    /\ ClockMayStepBack \/ clock <= t
    /\ stats.retx < MaxRequests
    /\ clock' = t

\* ingest()'s first lines: the first datagram, whatever it is, syncs.
NeedsSync == next_expected = 0 /\ ~session_synced
Expected(seq) == IF NeedsSync THEN seq ELSE next_expected
Sync(seq) ==
    /\ session_synced' = (session_synced \/ NeedsSync)
    /\ synced_at' = IF NeedsSync THEN seq ELSE synced_at

IngestHeartbeat(h, t) ==
    /\ stats.heartbeats < MaxHeartbeats
    /\ CallAt(t) /\ Sync(h)
    /\ next_expected' = Expected(h)
    /\ CheckGapTimeout(gap, slots, t)
    /\ stats' = [stats EXCEPT !.heartbeats = @ + 1,
                              !.retx = @ + Requested(gap, slots, t)]
    /\ UNCHANGED <<slots, received, delivered, gap_events>>

Receive(p, t) ==
    /\ stats.packets < MaxPackets
    /\ CallAt(t) /\ Sync(p.seq_num)
    /\ received' = received \cup {[pkt |-> p, at |-> t]}
Counted(p) == [stats EXCEPT !.packets = @ + 1, !.messages = @ + p.msg_count]

\* Mutant: off by one, the expected message alone counts as a duplicate.
IsDuplicateOffByOne(p) == p.seq_num + p.msg_count - 1 <= Expected(p.seq_num)

\* pkt_last < next_expected_
IsDuplicate(p) == p.seq_num + p.msg_count - 1 < Expected(p.seq_num)

IngestDuplicate(p, t) ==
    /\ IsDuplicate(p)
    /\ Receive(p, t)
    /\ next_expected' = Expected(p.seq_num)
    /\ stats' = [Counted(p) EXCEPT !.duplicates = @ + 1]
    /\ UNCHANGED <<gap, slots, delivered, gap_events, requests>>

IngestGap(p, t) ==
    LET n  == Expected(p.seq_num)
        g  == Tracking(gap, n, t)
        sl == Buffered(slots, p, t)
    IN
    /\ ~IsDuplicate(p) /\ p.seq_num > n
    /\ Receive(p, t)
    /\ next_expected' = n
    /\ gap_events' = IF gap.start # 0 THEN gap_events
                     ELSE gap_events \cup
                       {[n |-> stats.gaps, first |-> n, last |-> p.seq_num - 1, at |-> t]}
    /\ slots' = sl
    /\ CheckGapTimeout(g, sl, t)
    /\ stats' = [Counted(p) EXCEPT
                   !.gaps = @ + (IF gap.start = 0 THEN 1 ELSE 0),
                   !.overflows = @ + (IF Collides(slots, p) THEN 1 ELSE 0),
                   !.retx = @ + Requested(g, sl, t)]
    /\ UNCHANGED delivered

IngestInOrder(p, t) ==
    LET n    == Expected(p.seq_num)
        mid  == AfterDelivery(p.seq_num, p.blocks, n)
        call == stats.packets
    IN
    /\ ~IsDuplicate(p) /\ p.seq_num <= n
    /\ Receive(p, t)
    /\ next_expected' = AfterFlush(slots, mid)
    /\ delivered' = delivered \cup Emitted(call, p.seq_num, p.blocks, n, t)
                              \cup FlushEmitted(call, slots, mid)
    /\ slots' = Drained(slots, mid)
    /\ gap' = IF gap.start # 0 /\ next_expected' > gap.start
                THEN [gap EXCEPT !.start = 0] ELSE gap
    /\ stats' = Counted(p)
    /\ UNCHANGED <<gap_events, requests>>

Tick(t) ==
    /\ CallAt(t)
    /\ CheckGapTimeout(gap, slots, t)
    /\ stats' = [stats EXCEPT !.retx = @ + Requested(gap, slots, t)]
    /\ UNCHANGED <<session_synced, next_expected, slots, synced_at,
                   received, delivered, gap_events>>

\* One call of ingest() with a data datagram.
Ingest(p, t) == IngestDuplicate(p, t) \/ IngestGap(p, t) \/ IngestInOrder(p, t)

Next == \E t \in Timestamps :
    \/ \E h \in HeartbeatSeqs : IngestHeartbeat(h, t)
    \/ \E p \in Packets : Ingest(p, t)
    \/ Tick(t)

Spec == Init /\ [][Next]_vars

-----------------------------------------------------------------------------
(* Properties.                                                             *)

Seqs(ds) == {d.seq_num : d \in ds}

\* The fields keep their types: the ring is always a total array of slots, a
\* slot that is in use sits at the index of its own sequence number, and
\* nothing is tracked, buffered or delivered before the session is synced.
TypeOK ==
    /\ session_synced \in BOOLEAN /\ next_expected \in Nat
    /\ gap \in [start : Nat, detected_at : Nat, last_retx : Nat]
    /\ slots \in [0 .. kCapacity - 1 -> SlotType]
    /\ stats \in StatsType
    /\ clock \in Nat /\ synced_at \in Nat
    /\ received \subseteq [pkt : Packets, at : Timestamps]
    /\ delivered \subseteq MessageType
    /\ gap_events \subseteq [n : Nat, first : Nat, last : Nat, at : Nat]
    /\ requests \subseteq [n : Nat, first_seq : Nat, count : Nat, at : Nat]
    /\ \A i \in DOMAIN slots : slots[i].occupied => slots[i].seq_num % kCapacity = i

\* "Delivery to downstream must be in-order and without duplicates"
\* (gap_buffer.hpp:12): what has been handed to on_message is exactly the run
\* of sequence numbers from the sync point up to next_expected_, each number
\* once, and an earlier hand-over never carries a later number, whatever is
\* lost, duplicated, reordered, re-framed, truncated or overflows the ring.
InOrderExactlyOnce ==
    /\ Seqs(delivered) = synced_at .. next_expected - 1
    /\ \A d, e \in delivered :
         /\ d.seq_num = e.seq_num => d = e
         /\ d.call < e.call => d.seq_num < e.seq_num
         /\ d.call = e.call /\ d.from < e.from => d.seq_num < e.seq_num

\* A message is delivered with the arrival time of a datagram that really
\* carried it ("original packet arrival time, preserved across buffering",
\* gap_buffer.hpp:74), also when another message's arrival flushed it.
ArrivalTimePreserved ==
    \A d \in delivered : \E r \in received :
        /\ r.at = d.recv_ns /\ r.pkt.seq_num = d.from
        /\ d.from <= d.seq_num /\ d.seq_num < d.from + r.pkt.blocks

\* flush_buffer leaves nothing behind: between calls the ring never holds the
\* datagram the consumer is waiting for.
NothingDeliverableWaits == session_synced => ~Holds(slots, next_expected)

\* The tracker, while set, is about the number the consumer waits for now and
\* about an event that was reported when that gap was detected.
TrackerAtHead ==
    gap.start # 0 =>
        /\ gap.start = next_expected
        /\ \E e \in gap_events : e.first = gap.start /\ e.at = gap.detected_at

\* A request asks for at least one and at most RequestLimit numbers, the first
\* being the one the consumer waits for, and for none that has been delivered
\* or lies in a buffered datagram that flush_buffer can still reach (one that
\* starts at or after next_expected_).
RequestsOnlyMissing ==
    [][\A r \in requests' \ requests :
          /\ r.count \in 1 .. RequestLimit /\ r.first_seq = next_expected'
          /\ \A s \in r.first_seq .. r.first_seq + r.count - 1 :
                /\ s \notin Seqs(delivered')
                /\ \A i \in DOMAIN slots' :
                     slots'[i].occupied /\ slots'[i].seq_num >= next_expected'
                         => s < slots'[i].seq_num]_vars

\* "OnGap: called once when a new gap is first detected" (gap_buffer.hpp:92):
\* no two events are about the same missing number.
OneEventPerGap ==
    \A e, f \in gap_events : e.first = f.first => e = f

\* "one request per gap per retry_interval_ns" (gap_buffer.hpp:27): no request
\* before the debounce window of a reported gap has passed, and two requests
\* for the same gap are at least retry_interval_ns apart.
RateLimited ==
    \A r \in requests :
        /\ \E e \in gap_events : e.first = r.first_seq /\ r.at - e.at >= gap_timeout_ns
        /\ \A q \in requests :
             q.first_seq = r.first_seq /\ q.n < r.n => r.at - q.at >= retry_interval_ns

\* A message is in the ring where flush_buffer can still reach it.
Reachable(s) ==
    \E i \in DOMAIN slots :
        /\ slots[i].occupied /\ slots[i].seq_num > next_expected
        /\ s \in slots[i].seq_num .. slots[i].seq_num + slots[i].kept - 1

\* "On each in-order delivery we scan forward from next_expected to flush any
\* already-received out-of-order messages" (gap_buffer.hpp:23): a message that
\* was received whole and is not before the sync point has been delivered or
\* waits in the ring where the scan will reach it, unless an overflow has been
\* counted; none is stranded in a slot that the scan has gone past.
NothingIsStranded ==
    \A r \in received :
        \A s \in r.pkt.seq_num .. r.pkt.seq_num + r.pkt.kept - 1 :
            s < next_expected \/ Reachable(s) \/ stats.overflows > 0

\* A slot is in use only for a datagram still to come: nothing that has been
\* overtaken by next_expected_ keeps a slot (and so provokes a collision later).
NoStaleSlot ==
    \A i \in DOMAIN slots : slots[i].occupied => slots[i].seq_num > next_expected

\* "In practice this means the gap is > 4096 messages" (gap_buffer.hpp:262):
\* a datagram is dropped for want of a slot only when some datagram received
\* lies more than kCapacity beyond the number waited for.
OverflowMeansFarAhead ==
    [][stats'.overflows > stats.overflows =>
          \E r \in received' : r.pkt.seq_num > next_expected' + kCapacity]_vars

\* The class implements the abstract in-order feed: the consumer sees an
\* unbroken run of numbers that have all been received.
Arrived == UNION {r.pkt.seq_num .. r.pkt.seq_num + r.pkt.blocks - 1 : r \in received}
Feed == INSTANCE InOrderFeed WITH
    open <- session_synced, first <- synced_at, next <- next_expected,
    arrived <- Arrived, out <- Seqs(delivered)
ImplementsInOrderFeed == Feed!Spec

-----------------------------------------------------------------------------
(* The inductive invariant behind the theorems of GapBufferProofs.         *)

\* Before the sync nothing is expected, tracked, buffered or delivered.
UnsyncedIsBlank ==
    ~session_synced =>
        /\ next_expected = 0 /\ synced_at = 0 /\ gap.start = 0
        /\ delivered = {} /\ \A i \in DOMAIN slots : ~slots[i].occupied

\* A slot in use holds the kept part of a datagram received at its recv_ns.
SlotsAreReceived ==
    \A i \in DOMAIN slots : slots[i].occupied =>
        \E r \in received : /\ r.pkt.seq_num = slots[i].seq_num
                            /\ r.pkt.kept = slots[i].kept /\ r.at = slots[i].recv_ns

\* Deliveries are numbered by calls that have already happened.
CallsArePast == \A d \in delivered : d.call < stats.packets

IInv ==
    /\ TypeOK /\ synced_at <= next_expected
    /\ UnsyncedIsBlank /\ SlotsAreReceived /\ CallsArePast
    /\ InOrderExactlyOnce /\ ArrivalTimePreserved
    /\ NothingDeliverableWaits /\ TrackerAtHead

=============================================================================

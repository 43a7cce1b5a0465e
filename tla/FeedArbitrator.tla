--------------------------- MODULE FeedArbitrator ---------------------------
(***************************************************************************)
(* feed::FeedArbitrator (include/feed/feed_arbitrator.hpp): two redundant  *)
(* lines feed one shared GapBuffer.  The arbitrator adds no sequencing of  *)
(* its own: it attributes what each call delivered to the line it came on. *)
(* Its caller runs both lines in one thread, so a call is one step.        *)
(***************************************************************************)
EXTENDS GapBuffer

CONSTANT MaxBad   \* bound on datagrams that do not parse

ASSUME ArbitratorAssumption == MaxBad \in Nat

FeedLine == {"A", "B"}

VARIABLE lines   \* per line: stat_packets_, stat_seq_won_, ... and bad, the
                 \* number of calls that returned -1 (not a field)

InitLines ==
    lines = [l \in FeedLine |->
               [packets |-> 0, seq_won |-> 0, redundant |-> 0, last_win |-> 0, bad |-> 0]]

\* Mutant: last_win_ns_ keeps the time of the first win.
AttributeFirstWin(l, t, count) ==
    LET s == lines[l] IN
    lines' = [lines EXCEPT ![l] =
        [packets |-> s.packets + 1, bad |-> s.bad,
         seq_won |-> s.seq_won + count,
         redundant |-> IF count > 0 THEN s.redundant ELSE s.redundant + 1,
         last_win |-> IF count > 0 /\ s.last_win = 0 THEN t ELSE s.last_win]]

\* The bookkeeping of ingest_line after the shared buffer returned count: a
\* call that delivered is a win, one that did not is redundant.
Attribute(l, t, count) ==
    LET s == lines[l] IN
    lines' = [lines EXCEPT ![l] =
        [packets |-> s.packets + 1, bad |-> s.bad,
         seq_won |-> s.seq_won + count,
         redundant |-> IF count > 0 THEN s.redundant ELSE s.redundant + 1,
         last_win |-> IF count > 0 THEN t ELSE s.last_win]]

\* Mutant: the advance of next_expected_, which the sync also moves.
DeliveredByAdvance == next_expected' - next_expected

\* ingest() returns how many messages the call delivered.
DeliveredNow == Cardinality(delivered') - Cardinality(delivered)

ingest_line(l, p, t) == Ingest(p, t) /\ Attribute(l, t, DeliveredNow)

ingest_line_heartbeat(l, h, t) == IngestHeartbeat(h, t) /\ Attribute(l, t, 0)

\* A datagram whose header does not parse: counted, neither won nor redundant.
ingest_line_bad(l) ==
    /\ lines[l].bad < MaxBad
    /\ lines' = [lines EXCEPT ![l].packets = @ + 1, ![l].bad = @ + 1]
    /\ UNCHANGED vars

arbitrator_tick(t) == Tick(t) /\ UNCHANGED lines

\* The query: a line that never brought a packet does not look dark.
line_looks_dark(l, now, stale_after) ==
    /\ lines[l].packets > 0
    /\ IF lines[l].last_win = 0 THEN now > stale_after
       ELSE (now - lines[l].last_win) % TimeMod > stale_after

-----------------------------------------------------------------------------
(* Properties.                                                             *)

\* Every delivered message is credited to exactly one line: what ingest()
\* returns "is exactly how many messages this call delivered"
\* (feed_arbitrator.hpp:127), also for the call that syncs the session, and
\* every call of a line is a win, redundant or unparsable.
AttributionExact ==
    /\ lines["A"].seq_won + lines["B"].seq_won = next_expected - synced_at
    /\ lines["A"].packets + lines["B"].packets
         = stats.packets + stats.heartbeats + lines["A"].bad + lines["B"].bad
    /\ \A l \in FeedLine :
         /\ lines[l].redundant + lines[l].bad <= lines[l].packets
         /\ lines[l].packets - lines[l].redundant - lines[l].bad <= lines[l].seq_won
         /\ lines[l].seq_won > 0 <=> lines[l].last_win # 0

\* "this line looks dark" (feed_arbitrator.hpp:101): at no time from the last
\* call on do both lines look dark although a message that arrived within the
\* last stale_after has been delivered, directly or out of the ring.  (A quiet
\* feed makes both look dark: the other line's activity, which :100 mentions,
\* is not looked at.)
DeliveryKeepsALineLit ==
    \A t \in clock .. TimeMod - 1 : \A stale \in 0 .. TimeMod - 1 :
        (\A l \in FeedLine : line_looks_dark(l, t, stale))
            => \A m \in delivered : m.recv_ns + stale < t

=============================================================================

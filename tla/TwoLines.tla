------------------------------ MODULE TwoLines ------------------------------
(***************************************************************************)
(* The arbitrator between the two lines of an exchange: each line carries  *)
(* the same stream of datagrams in order, loses any of them, and runs      *)
(* ahead of or behind the other.  The lines are external; what arrives on  *)
(* them is what FeedArbitrator's callers pass to ingest_a and ingest_b.    *)
(***************************************************************************)
EXTENDS FeedArbitrator, Sequences

CONSTANTS Stream,   \* the datagrams the exchange publishes, in order
          MaxLost   \* bound on the datagrams lost on one line

ASSUME StreamAssumption ==
    /\ Stream \in Seq(Packets) /\ MaxLost \in Nat
    /\ \A k \in 1 .. Len(Stream) - 1 :
         Stream[k].seq_num + Stream[k].msg_count = Stream[k + 1].seq_num
    /\ \A k \in 1 .. Len(Stream) : /\ Stream[k].kept = Stream[k].msg_count
                                 /\ Stream[k].seq_num \in HeartbeatSeqs

VARIABLES
    pos,   \* per line: index of the next datagram on the wire
    lost   \* per line: indices of the datagrams lost

lineVars == <<lines, pos, lost>>
allVars == <<vars, lineVars>>

InitLinesAndBuffer ==
    /\ Init /\ InitLines
    /\ pos = [l \in FeedLine |-> 1]
    /\ lost = [l \in FeedLine |-> {}]

OnWire(l) == pos[l] <= Len(Stream)

Arrive(l, t) ==
    /\ OnWire(l)
    /\ ingest_line(l, Stream[pos[l]], t)
    /\ pos' = [pos EXCEPT ![l] = @ + 1]
    /\ UNCHANGED lost

Lose(l) ==
    /\ OnWire(l) /\ Cardinality(lost[l]) < MaxLost
    /\ lost' = [lost EXCEPT ![l] = @ \cup {pos[l]}]
    /\ pos' = [pos EXCEPT ![l] = @ + 1]
    /\ UNCHANGED <<vars, lines>>

\* A heartbeat carries the number of the next message on its line.
ArriveHeartbeat(l, t) ==
    /\ OnWire(l)
    /\ ingest_line_heartbeat(l, Stream[pos[l]].seq_num, t)
    /\ UNCHANGED <<pos, lost>>

ArriveBad(l) == ingest_line_bad(l) /\ UNCHANGED <<pos, lost>>

TickLines(t) == arbitrator_tick(t) /\ UNCHANGED <<pos, lost>>

NextLines ==
    \/ \E l \in FeedLine : Lose(l) \/ ArriveBad(l)
    \/ \E t \in Timestamps :
         \/ \E l \in FeedLine : Arrive(l, t) \/ ArriveHeartbeat(l, t)
         \/ TickLines(t)

SpecLines == InitLinesAndBuffer /\ [][NextLines]_allVars

-----------------------------------------------------------------------------
(* Properties.                                                             *)

Passed(l, k) == k < pos[l]
Came(k) == \E l \in FeedLine : Passed(l, k) /\ k \notin lost[l]

\* "Whichever line's copy of sequence N arrives first is delivered"
\* (feed_arbitrator.hpp:30): once every datagram from the sync point up to the
\* k-th has come on one line or the other, whatever either line lost, all of
\* them have been delivered, unless the ring has overflowed.
EitherLineSuffices ==
    session_synced /\ stats.overflows = 0 =>
        \A k \in 1 .. Len(Stream) :
            (\A j \in 1 .. k : Stream[j].seq_num < synced_at \/ Came(j))
                => Stream[k].seq_num + Stream[k].msg_count <= next_expected
                   \/ Stream[k].seq_num < synced_at

\* A retransmission is asked for only when the line that is ahead has lost the
\* datagram and the other has not brought it: nothing that came is asked for.
NothingThatCameIsRequested ==
    [][\A r \in requests' \ requests : \A k \in 1 .. Len(Stream) :
          Stream[k].seq_num \in r.first_seq .. r.first_seq + r.count - 1
              => ~Came(k)' \/ stats'.overflows > 0]_allVars

\* "A gap only fires when both lines are missing the same range"
\* (docs/loss-handling.md:73) is more than the code does: on_gap fires as soon
\* as one line passes the hole, also if the other covers it later.  What holds
\* is that the hole is real: the range of an event begins with a datagram that
\* a line has lost and that had not come on either when the event fired, so a
\* line that is merely late, or runs behind the other, raises no event.  (The
\* rest of the range may include numbers that wait in the ring.)
EventMeansALineLostIt ==
    [][\A e \in gap_events' \ gap_events : \A k \in 1 .. Len(Stream) :
          Stream[k].seq_num = e.first =>
              \/ stats'.overflows > 0
              \/ ~Came(k)' /\ \E l \in FeedLine : Passed(l, k)' /\ k \in lost'[l]]_allVars

=============================================================================

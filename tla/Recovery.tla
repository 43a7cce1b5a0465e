------------------------------ MODULE Recovery ------------------------------
(***************************************************************************)
(* The recovery loop of docs/loss-handling.md, section 2: GapBuffer, its   *)
(* caller's ticks, and around them (external) an exchange that publishes a *)
(* stream over a lossy line and a retransmission server that answers what  *)
(* on_retransmit asks for: in any order, after later retries, with copies  *)
(* of what came meanwhile, or not at all.  The clock runs in a circle of   *)
(* TimeMod instants, as a uint64_t does, so that behaviours need not end   *)
(* and what is eventually delivered can be asked.                          *)
(***************************************************************************)
EXTENDS GapBuffer, Sequences

CONSTANTS
    Stream,          \* the datagrams the exchange publishes, in order
    MaxLost,         \* bound on datagrams lost on the line
    MaxLate,         \* bound on datagrams that others overtake on the line
    MaxAnswersLost,  \* bound on answers lost
    MaxInFlight      \* bound on the copies of a datagram on their way from the
                     \* server: an answer is overtaken by fewer retries

ASSUME RecoveryAssumption ==
    /\ Stream \in Seq(Packets) /\ MaxLost \in Nat /\ MaxLate \in Nat
    /\ MaxAnswersLost \in Nat /\ MaxInFlight \in Nat
    /\ \A k \in 1 .. Len(Stream) - 1 :
         Stream[k].seq_num + Stream[k].msg_count = Stream[k + 1].seq_num
    /\ \A k \in 1 .. Len(Stream) :
         /\ Stream[k].kept = Stream[k].msg_count
         /\ {Stream[k].seq_num, Stream[k].seq_num + Stream[k].msg_count} \subseteq HeartbeatSeqs
    /\ Len(Stream) > 0 /\ TimeMod > 1 /\ Timestamps = 1 .. TimeMod - 1

VARIABLES
    pos,      \* index of the next datagram to be published
    lost,     \* indices of the datagrams lost on the line
    late,     \* indices of the datagrams delayed on the line
    answers,  \* per datagram: the copies on their way from the server
    dropped,  \* number of answers lost
    now       \* the caller's clock

netVars == <<pos, lost, late, answers, dropped, now>>
recoveryVars == <<vars, netVars>>

InitRecovery ==
    /\ Init
    /\ pos = 1 /\ lost = {} /\ late = {} /\ dropped = 0 /\ now = 1
    /\ answers = [k \in 1 .. Len(Stream) |-> 0]

-----------------------------------------------------------------------------
(* The server: it resends the datagrams that hold what a call asked for.   *)

Seqs1(p) == p.seq_num .. p.seq_num + p.msg_count - 1
AnswerTo(r) ==
    {k \in 1 .. Len(Stream) : Seqs1(Stream[k]) \cap (r.first_seq .. r.first_seq + r.count - 1) # {}}
Resent == UNION {AnswerTo(r) : r \in requests' \ requests}
Answering(left) == answers' = [k \in 1 .. Len(Stream) |-> left[k] + IF k \in Resent THEN 1 ELSE 0]
OneLess(k) == [answers EXCEPT ![k] = @ - 1]

AnswerArrives(k) ==
    /\ answers[k] > 0
    /\ Ingest(Stream[k], now) /\ Answering(OneLess(k))
    /\ UNCHANGED <<pos, lost, late, dropped, now>>

AnswerLost(k) ==
    /\ answers[k] > 0 /\ dropped < MaxAnswersLost
    /\ answers' = OneLess(k) /\ dropped' = dropped + 1
    /\ UNCHANGED <<vars, pos, lost, late, now>>

-----------------------------------------------------------------------------
(* The line.                                                               *)

Publish ==
    /\ pos <= Len(Stream) /\ pos' = pos + 1
    /\ \/ Ingest(Stream[pos], now) /\ Answering(answers) /\ UNCHANGED <<lost, late>>
       \/ /\ Cardinality(lost) < MaxLost /\ lost' = lost \cup {pos}
          /\ UNCHANGED <<vars, answers, late>>
       \/ /\ Cardinality(late) < MaxLate /\ late' = late \cup {pos}
          /\ UNCHANGED <<vars, answers, lost>>
    /\ UNCHANGED <<dropped, now>>

LateArrives(k) ==
    /\ k \in late
    /\ Ingest(Stream[k], now) /\ Answering(answers)
    /\ late' = late \ {k}
    /\ UNCHANGED <<pos, lost, dropped, now>>

\* A heartbeat carries the number of the next message.
NextSeq == IF pos = 1 THEN Stream[1].seq_num
           ELSE Stream[pos - 1].seq_num + Stream[pos - 1].msg_count
SendHeartbeat ==
    /\ IngestHeartbeat(NextSeq, now) /\ Answering(answers)
    /\ UNCHANGED <<pos, lost, late, dropped, now>>

-----------------------------------------------------------------------------
(* The caller: run() ticks once in every instant.                          *)

\* A retry is due only while fewer than MaxInFlight copies are on their way.
TickNext ==
    LET t == IF now = TimeMod - 1 THEN 1 ELSE now + 1 IN
    /\ RequestDue(gap, t) => \A k \in 1 .. Len(Stream) : answers[k] < MaxInFlight
    /\ Tick(t) /\ Answering(answers)
    /\ now' = t
    /\ UNCHANGED <<pos, lost, late, dropped>>

NextRecovery ==
    \/ Publish \/ SendHeartbeat \/ TickNext
    \/ \E k \in 1 .. Len(Stream) : AnswerArrives(k) \/ AnswerLost(k) \/ LateArrives(k)

\* The exchange goes on to the end of its stream, the receive thread keeps
\* ticking, and what is not lost arrives.
SpecRecovery ==
    /\ InitRecovery /\ [][NextRecovery]_recoveryVars
    /\ WF_recoveryVars(Publish) /\ WF_recoveryVars(TickNext)
    /\ \A k \in 1 .. Len(Stream) :
         WF_recoveryVars(AnswerArrives(k)) /\ WF_recoveryVars(LateArrives(k))

-----------------------------------------------------------------------------
(* Properties.                                                             *)

\* "If still missing after the timeout, on_retransmit fires" and "the request
\* is resent" (docs/loss-handling.md:32, :41): a gap that is being tracked is
\* filled in the end, whatever else is lost, late or asked for in vain.
TrackedGapIsFilled ==
    \A k \in 1 .. Len(Stream) :
        gap.start = Stream[k].seq_num ~> next_expected > Stream[k].seq_num

\* The lost datagrams of the session that a later one has overtaken and that
\* have not been delivered.
Outstanding ==
    {k \in lost : /\ session_synced /\ Stream[k].seq_num >= synced_at
                  /\ \E r \in received : r.pkt.seq_num > Stream[k].seq_num
                  /\ Stream[k].seq_num >= next_expected}

\* Packet loss is met by "Buffer + retransmit request"
\* (docs/loss-handling.md:14): losses that a later datagram has shown (a
\* heartbeat does not show them) are all made good in the end.
LossIsRecovered == Outstanding # {} ~> Outstanding = {}

\* The same, when no more than one datagram is lost and none is overtaken.
OneLossIsRecovered ==
    [](Cardinality(lost) <= 1 /\ late = {}) => LossIsRecovered

\* No request reaches beyond what an arrival has shown to exist: the whole
\* range asked for lies before a datagram that has been received.
AsksForWhatWasShown ==
    \A q \in requests : \E r \in received : r.pkt.seq_num >= q.first_seq + q.count

=============================================================================

------------------------------ MODULE Receiver ------------------------------
(***************************************************************************)
(* feed::MulticastReceiver (include/feed/receiver.hpp) with the GapBuffer  *)
(* it feeds, as src/main.cpp runs it: open the socket, spin in run() until *)
(* a signal clears the flag, close.  The kernel (external) queues          *)
(* datagrams on the socket, stamps them on arrival and drops them when the *)
(* receive buffer is full.  The thread reads CLOCK_MONOTONIC; the kernel's *)
(* stamps are CLOCK_REALTIME, ClockOffset ahead of it.                     *)
(***************************************************************************)
EXTENDS GapBuffer, Sequences

CONSTANTS
    tick_interval_ns,            \* argument of run()
    enable_software_timestamps,  \* Config
    ClockOffset,                 \* CLOCK_REALTIME minus CLOCK_MONOTONIC
    MaxTime,                     \* bound on CLOCK_MONOTONIC
    MaxQueue,                    \* datagrams that fit the receive buffer
    MaxArrivals, MaxOpens,       \* bounds on arrivals and on calls of open()
    MaxErrors                    \* bound on failing recvmsg calls

ASSUME ReceiverAssumption ==
    /\ tick_interval_ns \in Nat /\ enable_software_timestamps \in BOOLEAN
    /\ ClockOffset \in Nat /\ MaxTime \in Nat \ {0} /\ MaxQueue \in Nat
    /\ MaxArrivals \in Nat /\ MaxOpens \in Nat /\ MaxErrors \in Nat
    /\ 1 .. MaxTime + ClockOffset \subseteq Timestamps

VARIABLES
    fd,         \* "closed", "open" (created, not subscribed) or "member"
    queue,      \* the socket's receive queue
    mono,       \* CLOCK_MONOTONIC
    running,    \* the flag run() polls
    pc,         \* "main", or in run(): "recv" before recv_one, "tick" after it
    last_tick,  \* local of run()
    rx          \* stat_recv_calls_, stat_messages_delivered_, stat_parse_errors_,
                \* and counts of errors, arrivals, opens and lost descriptors
VARIABLE tracked_at   \* when, by CLOCK_MONOTONIC, the tracked gap was detected
                      \* (not state of the class)

rxVars == <<fd, queue, mono, running, pc, last_tick, rx, tracked_at>>
receiverVars == <<vars, rxVars>>

InitReceiver ==
    /\ Init
    /\ fd = "closed" /\ queue = <<>> /\ mono = 1 /\ running = TRUE
    /\ pc = "main" /\ last_tick = 0
    /\ rx = [recv_calls |-> 0, messages_delivered |-> 0, parse_errors |-> 0,
             errors |-> 0, arrivals |-> 0, opens |-> 0, leaked |-> 0]
    /\ tracked_at = 0

-----------------------------------------------------------------------------
(* The kernel and the clock (external).                                    *)

Bad == [seq_num |-> 0, msg_count |-> 0, blocks |-> 0, kept |-> 1]   \* no header
Heartbeat(h) == [seq_num |-> h, msg_count |-> 0, blocks |-> 0, kept |-> 0]
Datagrams == Packets \cup {Heartbeat(h) : h \in HeartbeatSeqs} \cup {Bad}

\* The kernel stamps a datagram when SO_TIMESTAMPING has been asked for.
KernelStamp == IF enable_software_timestamps THEN mono + ClockOffset ELSE 0

\* A datagram reaches the socket; it is dropped when the buffer is full.
KernelReceive(d) ==
    /\ fd = "member" /\ rx.arrivals < MaxArrivals
    /\ queue' = IF Len(queue) < MaxQueue
                  THEN Append(queue, [dgram |-> d, stamp |-> KernelStamp]) ELSE queue
    /\ rx' = [rx EXCEPT !.arrivals = @ + 1]
    /\ UNCHANGED <<vars, fd, mono, running, pc, last_tick, tracked_at>>

ClockAdvance ==
    /\ mono < MaxTime /\ mono' = mono + 1
    /\ UNCHANGED <<vars, fd, queue, running, pc, last_tick, rx, tracked_at>>

Signal ==
    /\ running /\ running' = FALSE
    /\ UNCHANGED <<vars, fd, queue, mono, pc, last_tick, rx, tracked_at>>

-----------------------------------------------------------------------------
(* open() and close().                                                     *)

\* The call that fails first, or "none".  After socket() no failure closes
\* the descriptor, and an earlier one is overwritten.
FailedCalls == {"socket", "options", "bind", "join", "none"}
Opened(failed) == CASE failed = "socket" -> "closed"
                    [] failed = "none"   -> "member"
                    [] OTHER             -> "open"
open(failed) ==
    /\ pc = "main" /\ rx.opens < MaxOpens
    /\ fd' = Opened(failed)
    /\ queue' = <<>>
    /\ rx' = [rx EXCEPT !.opens = @ + 1, !.leaked = @ + IF fd = "closed" THEN 0 ELSE 1]
    /\ UNCHANGED <<vars, mono, running, pc, last_tick, tracked_at>>

close ==
    /\ pc \in {"main", "done"} /\ fd # "closed"
    /\ fd' = "closed" /\ queue' = <<>>
    /\ UNCHANGED <<vars, mono, running, pc, last_tick, rx, tracked_at>>

-----------------------------------------------------------------------------
(* recv_one() and run().                                                   *)

EnterRun ==
    /\ pc = "main" /\ fd = "member"
    /\ pc' = "recv" /\ last_tick' = mono
    /\ UNCHANGED <<vars, fd, queue, mono, running, rx, tracked_at>>

LeaveRun ==
    /\ pc = "recv" /\ ~running
    /\ pc' = "done"
    /\ UNCHANGED <<vars, fd, queue, mono, running, last_tick, rx, tracked_at>>

Receiving == pc = "recv" /\ running /\ pc' = "tick" /\ UNCHANGED <<fd, mono, running, last_tick>>

RecvNothing ==
    /\ Receiving /\ queue = <<>>
    /\ UNCHANGED <<vars, queue, rx, tracked_at>>

\* Another errno: report_error's false is returned, 0 like an empty queue.
RecvError ==
    /\ Receiving /\ rx.errors < MaxErrors
    /\ rx' = [rx EXCEPT !.errors = @ + 1]
    /\ UNCHANGED <<vars, queue, tracked_at>>

\* extract_timestamp returns 0 when there is no stamp.
StampOf(q) == IF q.stamp # 0 THEN q.stamp ELSE mono

IngestDatagram(d, t) ==
    \/ d = Bad /\ UNCHANGED vars
    \/ d \in Packets /\ Ingest(d, t)
    \/ \E h \in HeartbeatSeqs : d = Heartbeat(h) /\ IngestHeartbeat(h, t)

\* Mutants: what the datagram carries is counted, not what it delivered; the
\* datagram is read without being taken off the queue.
RecvDatagramCarried ==
    LET q == Head(queue) IN
    /\ Receiving /\ queue # <<>>
    /\ queue' = Tail(queue)
    /\ IngestDatagram(q.dgram, StampOf(q))
    /\ tracked_at' = IF gap'.start \notin {0, gap.start} THEN mono ELSE tracked_at
    /\ rx' = [rx EXCEPT
                !.recv_calls = @ + 1,
                !.messages_delivered = @ + q.dgram.msg_count,
                !.parse_errors = @ + IF q.dgram = Bad THEN 1 ELSE 0]
RecvDatagramPeeked ==
    LET q == Head(queue) IN
    /\ Receiving /\ queue # <<>>
    /\ IngestDatagram(q.dgram, StampOf(q))
    /\ tracked_at' = IF gap'.start \notin {0, gap.start} THEN mono ELSE tracked_at
    /\ UNCHANGED <<queue, rx>>

RecvDatagram ==
    LET q == Head(queue) IN
    /\ Receiving /\ queue # <<>>
    /\ queue' = Tail(queue)
    /\ IngestDatagram(q.dgram, StampOf(q))
    /\ tracked_at' = IF gap'.start \notin {0, gap.start} THEN mono ELSE tracked_at
    /\ rx' = [rx EXCEPT
                !.recv_calls = @ + 1,
                !.messages_delivered = @ + Cardinality(delivered') - Cardinality(delivered),
                !.parse_errors = @ + IF q.dgram = Bad THEN 1 ELSE 0]

TickDue == mono - last_tick >= tick_interval_ns
RunTick ==
    /\ pc = "tick" /\ pc' = "recv"
    /\ \/ TickDue /\ Tick(mono) /\ last_tick' = mono
       \/ ~TickDue /\ UNCHANGED <<vars, last_tick>>
    /\ UNCHANGED <<fd, queue, mono, running, rx, tracked_at>>

\* One turn of the loop, by the receive thread.
Loop == RecvNothing \/ RecvError \/ RecvDatagram \/ RunTick

NextReceiver ==
    \/ \E d \in Datagrams : KernelReceive(d)
    \/ ClockAdvance \/ Signal
    \/ \E failed \in FailedCalls : open(failed)
    \/ close \/ EnterRun \/ LeaveRun \/ Loop

\* The thread spins, so it keeps taking steps while it is in run(), and time
\* passes; nothing is assumed of the network, of the signal or of main().
SpecReceiver ==
    /\ InitReceiver /\ [][NextReceiver]_receiverVars
    /\ WF_receiverVars(Loop) /\ WF_receiverVars(LeaveRun) /\ WF_receiverVars(ClockAdvance)

-----------------------------------------------------------------------------
(* Properties.                                                             *)

\* The receiver's counters account for every datagram that was dequeued and
\* every message that the sequencer let through.
CountersAgree ==
    /\ rx.recv_calls = stats.packets + stats.heartbeats + rx.parse_errors
    /\ rx.messages_delivered = next_expected - synced_at
    /\ rx.recv_calls + Len(queue) <= rx.arrivals

\* "100 us before first retransmit" (gap_timeout_ns, gap_buffer.hpp:
\* 99), in the time that really passes: no request is made before the gap has
\* been tracked for gap_timeout_ns of CLOCK_MONOTONIC, the clock that ingest()
\* and tick() are documented to be given (gap_buffer.hpp:124).
DebounceHolds ==
    [][\A r \in requests' \ requests : mono - tracked_at' >= gap_timeout_ns]_receiverVars

\* While the thread is in run(), a queued datagram is eventually read, however
\* often the loop finds errors or a tick due, unless a signal ends the loop.
QueueIsDrained == queue # <<>> /\ pc \in {"recv", "tick"} ~> queue = <<>> \/ ~running

\* "tick: detect stalled gaps" (gap_buffer.hpp:178): a gap that is being tracked
\* early enough before the end of time is asked for, or closed, or the loop is
\* stopped by a signal.
Asked(n) == \E r \in requests : r.first_seq = n
EnoughTime == gap.detected_at + gap_timeout_ns + tick_interval_ns <= MaxTime
StallIsRequested ==
    \A n \in 1 .. MaxSeq :
        gap.start = n /\ EnoughTime ~> Asked(n) \/ next_expected > n \/ ~running

=============================================================================

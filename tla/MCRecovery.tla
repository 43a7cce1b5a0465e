----------------------------- MODULE MCRecovery -----------------------------
(***************************************************************************)
(* A short stream for TLC: five messages in four datagrams.                *)
(***************************************************************************)
EXTENDS Recovery

Whole(first, count) ==
    [seq_num |-> first, msg_count |-> count, blocks |-> count, kept |-> count]
ShortStream == <<Whole(1, 1), Whole(2, 2), Whole(4, 1), Whole(5, 1)>>
StreamPackets == {ShortStream[k] : k \in 1 .. 4}
=============================================================================

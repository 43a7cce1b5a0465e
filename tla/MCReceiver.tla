----------------------------- MODULE MCReceiver -----------------------------
(***************************************************************************)
(* A small receiver for TLC: four messages in three datagrams.             *)
(***************************************************************************)
EXTENDS Receiver

Whole(first, count) ==
    [seq_num |-> first, msg_count |-> count, blocks |-> count, kept |-> count]
FewPackets == {Whole(1, 1), Whole(2, 2), Whole(4, 1)}
=============================================================================

---------------------------- MODULE MCGapBuffer ----------------------------
(***************************************************************************)
(* Small instances of GapBuffer for TLC.                                   *)
(***************************************************************************)
EXTENDS GapBuffer

Whole(first, count) ==
    [seq_num |-> first, msg_count |-> count, blocks |-> count, kept |-> count]

\* The line sends 1, 2-3, 4-5; the retransmission server answers with 2-4.
ReframedPackets == {Whole(1, 1), Whole(2, 2), Whole(4, 2), Whole(2, 3)}

\* Overlapping ranges; one datagram is truncated on the wire, one is longer
\* than a slot.
MixedPackets ==
    {Whole(1, 1), Whole(2, 2), Whole(3, 1), Whole(3, 3), Whole(4, 1),
     [seq_num |-> 2, msg_count |-> 3, blocks |-> 1, kept |-> 1],
     [seq_num |-> 5, msg_count |-> 2, blocks |-> 2, kept |-> 1]}
=============================================================================

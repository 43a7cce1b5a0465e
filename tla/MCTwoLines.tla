----------------------------- MODULE MCTwoLines -----------------------------
(***************************************************************************)
(* A small stream on two lines for TLC.                                    *)
(***************************************************************************)
EXTENDS TwoLines

Whole(first, count) ==
    [seq_num |-> first, msg_count |-> count, blocks |-> count, kept |-> count]

\* On a ring of two, 3-4 and 5 need the same slot while 2 is awaited.
ShortStream == <<Whole(1, 1), Whole(2, 1), Whole(3, 2), Whole(5, 1)>>
ShortStreamPackets == {ShortStream[k] : k \in DOMAIN ShortStream}
=============================================================================

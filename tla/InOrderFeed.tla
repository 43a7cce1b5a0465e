---------------------------- MODULE InOrderFeed ----------------------------
(***************************************************************************)
(* What the sequencer promises its consumer, with no ring, no tracker and  *)
(* no clock: messages arrive in any order and any number of times; from    *)
(* some first number on, the consumer is handed an unbroken run of numbers *)
(* that have all arrived, and the run only ever grows at its end.          *)
(***************************************************************************)
EXTENDS Integers

VARIABLES
    open,     \* has the run started?
    first,    \* its first number
    next,     \* the number it waits for
    arrived,  \* numbers received so far
    out       \* numbers handed to the consumer

vars == <<open, first, next, arrived, out>>

Init == open = FALSE /\ first = 0 /\ next = 0 /\ arrived = {} /\ out = {}

\* Some messages may arrive; the run may start; it may grow.
Advance ==
    LET n == IF open THEN next ELSE first' IN
    /\ arrived \subseteq arrived'
    /\ open => open' /\ first' = first
    /\ n <= next'
    /\ n .. next' - 1 \subseteq arrived'
    /\ out' = out \cup (n .. next' - 1)

Spec == Init /\ [][Advance]_vars
=============================================================================

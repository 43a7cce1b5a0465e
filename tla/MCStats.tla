------------------------------ MODULE MCStats -------------------------------
(***************************************************************************)
(* Percentiles for TLC: the median, p90 and p99.                           *)
(***************************************************************************)
EXTENDS Stats

Ratio(num, den) == [num |-> num, den |-> den]
FewPercentiles == {Ratio(1, 2), Ratio(9, 10), Ratio(99, 100)}
=============================================================================

--------------------------- MODULE MCTickToTrade ---------------------------
(***************************************************************************)
(* A small session for TLC; symbols are interchangeable.                   *)
(***************************************************************************)
EXTENDS TickToTrade, TLC

SymbolSymmetry == Permutations(Symbols)
=============================================================================

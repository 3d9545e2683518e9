--------------------------- MODULE MCTokenTicker ---------------------------
(* TokenTicker for TLC.  Callers differ in nothing. *)
EXTENDS TokenTicker, TLC

Symmetry == Permutations(Callers)
=============================================================================

--------------------------- MODULE MCConcentrator ---------------------------
(* Concentrator for TLC: spans end in two buckets. *)
EXTENDS Concentrator

\* The ends fall into two buckets.
TwoEnds == {0, 3}
=============================================================================

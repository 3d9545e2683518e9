--------------------------- MODULE MCTraceBuffer ---------------------------
(* TraceBuffer for TLC: spans are interchangeable. *)
EXTENDS TraceBuffer, TLC

\* Manual priorities: ext.PriorityUserReject and ext.PriorityUserKeep.
Manual == {-1, 2}
DropOnly == {-1}
KeepOnly == {2}

\* Sampler priorities: ext.PriorityAutoReject, ext.PriorityAutoKeep.
AutoKeep == {1}
Auto == {0, 1}

Symmetry == Permutations(Spans)
=============================================================================

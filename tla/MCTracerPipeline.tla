-------------------------- MODULE MCTracerPipeline --------------------------
(* TracerPipeline for TLC: traces that differ in their decision only. *)
EXTENDS TracerPipeline, TLC

CONSTANTS t1, t2, t3

ThreeTraces == {t1, t2, t3}
OneKept == {t1}
=============================================================================

--------------------------- MODULE TraceDelivery ---------------------------
(***************************************************************************)
(* What the tracer promises about each finished trace, with the queue, the *)
(* payloads, the connections and the goroutines left out: a trace moves    *)
(* forward through the pipeline, ends delivered, lost or dropped, and is   *)
(* never sent twice, taken back or brought back.  The traces of a payload  *)
(* share their fate.                                                       *)
(***************************************************************************)
CONSTANT Traces

VARIABLE status

Statuses == {"open", "queued", "buffered", "sending", "delivered", "lost", "dropped"}

Init == status = [t \in Traces |-> "open"]

\* The traces of S, all in status a, move to status b.
Move(S, a, b) ==
    /\ S # {} /\ \A t \in S : status[t] = a
    /\ status' = [t \in Traces |-> IF t \in S THEN b ELSE status[t]]

Accept == \E t \in Traces : Move({t}, "open", "queued")
Refuse == \E t \in Traces : Move({t}, "open", "dropped")
Buffer == \E t \in Traces : Move({t}, "queued", "buffered")
Drop   == \E t \in Traces : Move({t}, "queued", "dropped")

\* A flush takes everything that is buffered.
Send == Move({t \in Traces : status[t] = "buffered"}, "buffered", "sending")

\* One payload, which need not be everything that is being sent.
Deliver == \E S \in SUBSET Traces : Move(S, "sending", "delivered")
Lose    == \E S \in SUBSET Traces : Move(S, "sending", "lost")

Next == Accept \/ Refuse \/ Buffer \/ Drop \/ Send \/ Deliver \/ Lose

Spec == Init /\ [][Next]_status

=============================================================================

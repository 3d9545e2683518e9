------------------------------ MODULE Producers ------------------------------
(***************************************************************************)
(* Producers of Kafka messages that learn later what became of a message.  *)
(*                                                                         *)
(* sarama (contrib/Shopify/sarama): one goroutine of the wrapper takes     *)
(* messages from the application, starts their spans and hands them to the *)
(* library; the same goroutine reads the reports of the library, finishes  *)
(* the spans and passes the reports on.                                    *)
(* confluent (contrib/confluentinc/confluent-kafka-go): a goroutine for    *)
(* each message waits for its report.                                      *)
(*                                                                         *)
(* The libraries are external: they take a bounded number of messages,     *)
(* decide about each, report when there is room, and close their channels  *)
(* once they are told to and have nothing left.                            *)
(***************************************************************************)
EXTENDS Naturals, FiniteSets

CONSTANTS
    Messages,
    InCap,      \* messages the library takes before it reports
    OutCap,     \* reports that a channel of the library holds
    NoMessage

ASSUME ProducersAssumption ==
    IsFiniteSet(Messages) /\ InCap \in Nat \ {0} /\ OutCap \in Nat \ {0} /\ NoMessage \notin Messages

VARIABLES
    lib,        \* "sarama" or "confluent"
    headers,    \* the version of the protocol has headers
    returns,    \* the results that are reported: Producer.Return
    at,         \* where a message is
    result,     \* what the library decided about it
    span,       \* its span
    spans,      \* the map of the goroutine of the sarama wrapper, by the identifier of the span
    pc, hold,   \* what that goroutine does, and for which message
    closing,    \* "no", or how the application closed the producer
    closed      \* the library closed its channels

producerVars == <<lib, headers, returns, at, result, span, spans, pc, hold, closing, closed>>

Results == {"ok", "error"}

ProducerTypeOK ==
    /\ lib \in {"sarama", "confluent"} /\ headers \in BOOLEAN /\ returns \subseteq Results /\ closed \in BOOLEAN
    /\ at \in [Messages -> {"new", "wrapper", "library", "report", "forward", "app", "refused", "gone"}]
    /\ result \in [Messages -> Results \cup {"none"}]
    /\ span \in [Messages -> Results \cup {"none", "open", "unknown"}]
    /\ spans \subseteq Messages /\ hold \in Messages \cup {NoMessage}
    /\ pc \in {"select", "send", "forward", "exited"} /\ closing \in {"no", "AsyncClose", "Close"}

ProducerInit ==
    /\ lib \in {"sarama", "confluent"} /\ headers \in BOOLEAN /\ returns \in SUBSET Results
    /\ lib = "confluent" => headers /\ returns = Results
    /\ at = [m \in Messages |-> "new"] /\ result = [m \in Messages |-> "none"]
    /\ span = [m \in Messages |-> "none"] /\ spans = {}
    /\ pc = "select" /\ hold = NoMessage /\ closing = "no" /\ closed = FALSE

At(place)   == {m \in Messages : at[m] = place}
Reports(r)  == {m \in At("report") : result[m] = r}
settings    == <<lib, headers, returns>>

\* Messages whose result the library keeps to itself.
Unreported  == {m \in At("gone") : result[m] \notin returns}

-----------------------------------------------------------------------------
(* The goroutine of the sarama wrapper. *)

\* A message from the application, which sends none after closing; its span is started
\* and injected.
Input(m) ==
    /\ lib = "sarama" /\ pc = "select" /\ closing = "no" /\ at[m] = "new"
    /\ at' = [at EXCEPT ![m] = "wrapper"] /\ span' = [span EXCEPT ![m] = "open"]
    /\ pc' = "send" /\ hold' = m
    /\ UNCHANGED <<settings, result, spans, closing, closed>>

\* The library has room for it. The span is kept for the report, or finished if successes
\* are not reported; whether errors are is not asked.
Hand ==
    /\ lib = "sarama" /\ pc = "send" /\ ~closed /\ Cardinality(At("library")) < InCap
    /\ at' = [at EXCEPT ![hold] = "library"]
    /\ IF "ok" \in returns THEN spans' = spans \cup {hold} /\ UNCHANGED span
                         ELSE span' = [span EXCEPT ![hold] = "unknown"] /\ UNCHANGED spans
    /\ pc' = "select" /\ hold' = NoMessage
    /\ UNCHANGED <<settings, result, closing, closed>>

\* Bug: errors are read only once the producer is being closed.
MutTake(m) ==
    /\ lib = "sarama" /\ pc = "select" /\ at[m] = "report" /\ (result[m] = "ok" \/ closing # "no")
    /\ IF headers /\ m \in spans
       THEN span' = [span EXCEPT ![m] = result[m]] /\ spans' = spans \ {m}
       ELSE UNCHANGED <<span, spans>>
    /\ at' = [at EXCEPT ![m] = "forward"] /\ pc' = "forward" /\ hold' = m
    /\ UNCHANGED <<settings, result, closing, closed>>

\* A report from Successes or Errors: the span is found by the headers of the message.
Take(m) ==
    /\ lib = "sarama" /\ pc = "select" /\ at[m] = "report"
    /\ IF headers /\ m \in spans
       THEN span' = [span EXCEPT ![m] = result[m]] /\ spans' = spans \ {m}
       ELSE UNCHANGED <<span, spans>>
    /\ at' = [at EXCEPT ![m] = "forward"] /\ pc' = "forward" /\ hold' = m
    /\ UNCHANGED <<settings, result, closing, closed>>

\* The application reads the report.
Forward ==
    /\ lib = "sarama" /\ pc = "forward"
    /\ at' = [at EXCEPT ![hold] = "app"] /\ pc' = "select" /\ hold' = NoMessage
    /\ UNCHANGED <<settings, result, span, spans, closing, closed>>

\* One of the two channels is closed and empty: the other is not looked at any more.
Exit ==
    /\ lib = "sarama" /\ pc = "select" /\ closed /\ \E r \in Results : Reports(r) = {}
    /\ pc' = "exited"
    /\ UNCHANGED <<settings, at, result, span, spans, hold, closing, closed>>

-----------------------------------------------------------------------------
(* The confluent wrapper. *)

\* Bug: a span whose report is awaited ends with the call.
MutProduce(m) ==
    /\ lib = "confluent" /\ closing = "no" /\ at[m] = "new"
    /\ \/ /\ Cardinality(At("library")) < InCap /\ at' = [at EXCEPT ![m] = "library"]
          /\ span' = [span EXCEPT ![m] = "ok"]
       \/ at' = [at EXCEPT ![m] = "refused"] /\ span' = [span EXCEPT ![m] = "open"]
    /\ UNCHANGED <<settings, result, spans, pc, hold, closing, closed>>

\* Produce with a channel for the report: the library takes the message, or returns an
\* error, with which the goroutine that waits is forgotten, and its span.
Produce(m) ==
    /\ lib = "confluent" /\ closing = "no" /\ at[m] = "new"
    /\ \/ Cardinality(At("library")) < InCap /\ at' = [at EXCEPT ![m] = "library"]
       \/ at' = [at EXCEPT ![m] = "refused"]
    /\ span' = [span EXCEPT ![m] = "open"]
    /\ UNCHANGED <<settings, result, spans, pc, hold, closing, closed>>

\* The goroutine of a message gets the report, finishes the span and passes the report on.
Delivered(m) ==
    /\ lib = "confluent" /\ at[m] = "library" /\ result[m] # "none"
    /\ at' = [at EXCEPT ![m] = "app"] /\ span' = [span EXCEPT ![m] = result[m]]
    /\ UNCHANGED <<settings, result, spans, pc, hold, closing, closed>>

-----------------------------------------------------------------------------
(* The libraries. *)

\* A message is written, or is not.
Decide(m) ==
    /\ at[m] = "library" /\ result[m] = "none"
    /\ \E r \in Results : result' = [result EXCEPT ![m] = r]
    /\ UNCHANGED <<settings, at, span, spans, pc, hold, closing, closed>>

\* A report is put into its channel; one that is not asked for is forgotten.
Report(m) ==
    /\ lib = "sarama" /\ at[m] = "library" /\ result[m] # "none"
    /\ IF result[m] \notin returns THEN at' = [at EXCEPT ![m] = "gone"]
       ELSE Cardinality(Reports(result[m])) < OutCap /\ at' = [at EXCEPT ![m] = "report"]
    /\ UNCHANGED <<settings, result, span, spans, pc, hold, closing, closed>>

\* AsyncClose tells the library to finish; Close also reads its channels until they end.
CloseProducer ==
    /\ closing = "no" /\ closing' \in {"AsyncClose", "Close"}
    /\ UNCHANGED <<settings, at, result, span, spans, pc, hold, closed>>

\* Close of the library takes reports away from the wrapper; that of confluent drops what it has.
Drain(m) ==
    /\ closing = "Close" /\ at[m] = IF lib = "sarama" THEN "report" ELSE "library"
    /\ at' = [at EXCEPT ![m] = "gone"]
    /\ UNCHANGED <<settings, result, span, spans, pc, hold, closing, closed>>

Shutdown ==
    /\ closing # "no" /\ ~closed /\ At("library") = {}
    /\ closed' = TRUE
    /\ UNCHANGED <<settings, at, result, span, spans, pc, hold, closing>>

(* The only reader of the reports waits for room in the library, and the   *)
(* library for room among the reports: nobody moves any more.              *)
Stuck ==
    /\ pc = "send" /\ Cardinality(At("library")) = InCap
    /\ \A m \in At("library") :
          result[m] \in returns /\ Cardinality(Reports(result[m])) = OutCap

\* The system has come to its end, or to its deadlock: a message may be left in the wrapper.
Ended ==
    /\ Stuck \/ (closed /\ (lib = "confluent" \/ pc \in {"exited", "send"}))
    /\ UNCHANGED producerVars

Wrapped == Hand \/ Forward \/ Exit \/ \E m \in Messages : Take(m) \/ Delivered(m)
Library == Shutdown \/ \E m \in Messages : Decide(m) \/ Report(m) \/ Drain(m)
ProducerNext == Wrapped \/ Library \/ CloseProducer \/ Ended \/ \E m \in Messages : Input(m) \/ Produce(m)

Fairness ==
    /\ WF_producerVars(Hand) /\ WF_producerVars(Forward) /\ WF_producerVars(Shutdown) /\ WF_producerVars(Exit)
    /\ \A m \in Messages : SF_producerVars(Take(m)) /\ WF_producerVars(Delivered(m))
    /\ \A m \in Messages : WF_producerVars(Decide(m)) /\ SF_producerVars(Report(m))

ProducerSpec == ProducerInit /\ [][ProducerNext]_producerVars /\ Fairness

-----------------------------------------------------------------------------
(* A span says what became of its message, and the map of the goroutine    *)
(* has exactly the spans whose report is to come: none is forgotten, and   *)
(* none is left behind but those of failures that the library is told not  *)
(* to report (sarama.go:214).  Only a protocol without headers, in which   *)
(* reports cannot be told apart, and closing break this (sarama.go:231,    *)
(* 243).                                                                   *)
Matched ==
    /\ \A m \in Messages : span[m] \in Results => span[m] = result[m] /\ at[m] \in {"forward", "app"}
    /\ headers /\ "ok" \in returns /\ lib = "sarama" /\ closing # "Close" =>
         spans = At("library") \cup At("report") \cup Unreported
    /\ pc # "exited" => hold = NoMessage \/ at[hold] \in {"wrapper", "forward"}
    /\ lib = "confluent" => \A m \in Messages : span[m] = "open" <=> at[m] \in {"library", "refused", "gone"}

(* Every message the library took gets its span finished with its report,  *)
(* if there is to be one, as long as nobody closes the producer and the    *)
(* goroutine is not stuck between its two duties (sarama.go:213,           *)
(* kafka.go:243).                                                          *)
Settles ==
    \A m \in Messages :
        (at[m] = "library" /\ headers /\ "ok" \in returns)
            ~> (span[m] \in Results \/ result[m] \in Results \ returns \/ closing # "no" \/ Stuck)

(* What the goroutine of the sarama wrapper holds while it waits: with it  *)
(* Matched is inductive (DistributedTrace_proofs).                         *)
HoldInv ==
    /\ hold = NoMessage <=> pc \in {"select", "exited"}
    /\ pc = "send" => at[hold] = "wrapper"
    /\ pc = "forward" => at[hold] = "forward"
    /\ lib = "confluent" => headers /\ returns = Results /\ pc = "select"
=============================================================================

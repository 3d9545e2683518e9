--------------------------- MODULE TracerPipeline ---------------------------
(***************************************************************************)
(* One tracer from pushTrace to the agent: the bounded channel tracer.out, *)
(* the worker goroutine, the agent trace writer with its payload and its   *)
(* connection limit, the goroutines that send payloads, Flush and Stop     *)
(* (ddtrace/tracer/tracer.go, writer.go, transport.go).                    *)
(*                                                                         *)
(* A finished trace is a value.  Its size is one unit, so that the payload *)
(* exceeds payloadSizeLimit with its PayloadLimit+1st trace.  The channel  *)
(* and the payload are sets: the order of traces is not relied on.  A      *)
(* counter of dropped traces is the set of the traces it counts: the code  *)
(* keeps the size of it, adds one and swaps it for zero.                   *)
(***************************************************************************)
EXTENDS Integers, FiniteSets

CONSTANTS
    Traces,         \* the traces that complete during the run
    Kept,           \* those with decisionKeep
    Flushers,       \* goroutines that call Flush
    QueueSize,      \* payloadQueueSize
    ConnLimit,      \* concurrentConnectionLimit
    PayloadLimit,   \* payloadSizeLimit, in traces
    NoFlusher

ASSUME TracesAssumption == IsFiniteSet(Traces) /\ Kept \subseteq Traces
ASSUME LimitsAssumption ==
    QueueSize \in Nat \ {0} /\ ConnLimit \in Nat \ {0} /\ PayloadLimit \in Nat
ASSUME FlusherAssumption == NoFlusher \notin Flushers

VARIABLES
    global,         \* this tracer is the global one
    stopped,        \* close(t.stop) happened
    push,           \* push[t]: how far finishedOne's hand-over of t has come
    queue,          \* t.out
    worker,         \* the worker's loop: "select", "drain" or "exited"
    flushing,       \* why the worker is inside traceWriter.flush, or "no"
    serving,        \* the Flush call it is flushing for
    payload,        \* agentTraceWriter.payload
    senders,        \* the running goroutines of agentTraceWriter.flush
    flusher,        \* flusher[f]: how far a call of Flush has come
    stopper,        \* how far the call of Stop has come
    droppedP0,      \* tracer.droppedP0Traces
    delivered,      \* what the agent received
    reportedP0,     \* the dropped P0 traces the agent was told of
    lost,           \* traces of failed sends
    refused,        \* traces pushTrace did not queue
    sampledOut,     \* P0 traces dropped by sampleFinishedTrace
    unencoded,      \* traces the payload could not encode
    early,          \* history: traces whose push returned before Stop began
    asked           \* history: asked[f], what was buffered when f called Flush

pushVars   == <<push, queue, refused>>
writerVars == <<payload, senders>>
agentVars  == <<delivered, reportedP0, lost>>
dropVars   == <<droppedP0, sampledOut, unencoded>>
flushVars  == <<flusher, asked>>
stopVars   == <<global, stopped, stopper, early>>
workerVars == <<worker, flushing, serving>>
vars == <<pushVars, writerVars, agentVars, dropVars, flushVars, stopVars, workerVars>>

\* header is Datadog-Client-Dropped-P0-Traces, once the request is built.
Senders == [traces : SUBSET Traces, header : SUBSET Traces, state : {"started", "requested"}]

TypeOK ==
    /\ global \in BOOLEAN /\ stopped \in BOOLEAN
    /\ push \in [Traces -> {"new", "read", "checked", "done"}]
    /\ queue \subseteq Traces /\ Cardinality(queue) <= QueueSize
    /\ worker \in {"select", "drain", "exited"}
    /\ flushing \in {"no", "size", "tick", "invoked"}
    /\ serving \in Flushers \cup {NoFlusher}
    /\ payload \subseteq Traces
    /\ senders \subseteq Senders
    /\ flusher \in [Flushers -> {"idle", "blocked", "waiting", "returned"}]
    /\ stopper \in {"running", "swapped", "closed", "flush", "wait", "returned"}
    /\ droppedP0 \subseteq Traces /\ reportedP0 \subseteq Traces
    /\ delivered \subseteq Traces /\ lost \subseteq Traces /\ refused \subseteq Traces
    /\ sampledOut \subseteq Traces /\ unencoded \subseteq Traces
    /\ early \subseteq Traces
    /\ asked \in [Flushers -> SUBSET Traces]

Init ==
    /\ global = TRUE /\ stopped = FALSE
    /\ push = [t \in Traces |-> "new"] /\ queue = {} /\ refused = {}
    /\ worker = "select" /\ flushing = "no" /\ serving = NoFlusher
    /\ payload = {} /\ senders = {}
    /\ flusher = [f \in Flushers |-> "idle"] 
    /\ asked = [f \in Flushers |-> {}]
    /\ stopper = "running" /\ early = {}
    /\ droppedP0 = {} /\ sampledOut = {} /\ unencoded = {}
    /\ delivered = {} /\ reportedP0 = {} /\ lost = {}

-----------------------------------------------------------------------------
(***************************************************************************)
(* trace.finishedOne and tracer.pushTrace, by the goroutine that completes *)
(* t: find the global tracer, look at stop, try the channel.               *)
(***************************************************************************)

\* push[t] is over and t was not queued.
Refuse(t) ==
    /\ push' = [push EXCEPT ![t] = "done"]
    /\ refused' = refused \cup {t}
    /\ UNCHANGED queue

PushRead(t) ==
    /\ push[t] = "new"
    /\ IF global
       THEN push' = [push EXCEPT ![t] = "read"] /\ UNCHANGED <<queue, refused>>
       ELSE Refuse(t)
    /\ UNCHANGED <<writerVars, agentVars, dropVars, flushVars, stopVars, workerVars>>

PushCheck(t) ==
    /\ push[t] = "read"
    /\ IF stopped
       THEN Refuse(t)
       ELSE push' = [push EXCEPT ![t] = "checked"] /\ UNCHANGED <<queue, refused>>
    /\ UNCHANGED <<writerVars, agentVars, dropVars, flushVars, stopVars, workerVars>>

PushSend(t) ==
    /\ push[t] = "checked"
    /\ IF Cardinality(queue) < QueueSize
       THEN /\ queue' = queue \cup {t}
            /\ push' = [push EXCEPT ![t] = "done"]
            /\ UNCHANGED refused
       ELSE Refuse(t)
    /\ UNCHANGED <<writerVars, agentVars, dropVars, flushVars, stopVars, workerVars>>

-----------------------------------------------------------------------------
(***************************************************************************)
(* The agent trace writer.                                                 *)
(***************************************************************************)

\* flush past its early return: wait for a connection, swap the payload, send.
StartSend ==
    /\ payload # {}
    /\ Cardinality(senders) < ConnLimit
    /\ senders' = senders \cup {[traces |-> payload, header |-> {}, state |-> "started"]}
    /\ payload' = {}

\* Mutant: the counter is read into the header but not reset.
MutSendRequest(p) ==
    /\ p \in senders /\ p.state = "started"
    /\ senders' = (senders \ {p}) \cup
           {[p EXCEPT !.state = "requested", !.header = IF global THEN droppedP0 ELSE {}]}
    /\ UNCHANGED <<droppedP0, payload, pushVars, agentVars, sampledOut, unencoded, flushVars,
                   stopVars, workerVars>>

\* transport.send builds the request: the counter of dropped traces moves into
\* its header, if the global tracer is still this one.
SendRequest(p) ==
    /\ p \in senders /\ p.state = "started"
    /\ senders' = (senders \ {p}) \cup
           {[p EXCEPT !.state = "requested", !.header = IF global THEN droppedP0 ELSE {}]}
    /\ droppedP0' = IF global THEN {} ELSE droppedP0
    /\ UNCHANGED <<payload, pushVars, agentVars, sampledOut, unencoded, flushVars,
                   stopVars, workerVars>>

\* The agent accepts the payload; the goroutine gives its connection back.
SendOK(p) ==
    /\ p \in senders /\ p.state = "requested"
    /\ senders' = senders \ {p}
    /\ delivered' = delivered \cup p.traces
    /\ reportedP0' = reportedP0 \cup p.header
    /\ UNCHANGED <<payload, lost, pushVars, dropVars, flushVars, stopVars, workerVars>>

\* Mutant: the traces of a failed request go back into the payload.
MutSendFail(p) ==
    /\ p \in senders /\ p.state = "requested"
    /\ senders' = senders \ {p}
    /\ payload' = payload \cup p.traces
    /\ UNCHANGED <<lost, delivered, reportedP0, pushVars, dropVars, flushVars,
                   stopVars, workerVars>>

\* The request fails or times out, or the agent answers with an error status.
SendFail(p) ==
    /\ p \in senders /\ p.state = "requested"
    /\ senders' = senders \ {p}
    /\ lost' = lost \cup p.traces
    /\ UNCHANGED <<payload, delivered, reportedP0, pushVars, dropVars, flushVars,
                   stopVars, workerVars>>

-----------------------------------------------------------------------------
(***************************************************************************)
(* tracer.worker.                                                          *)
(***************************************************************************)

\* sampleFinishedTrace drops the trace or lets (some of its spans) through.
SampleOut(t) ==
    /\ t \notin Kept
    /\ sampledOut' = sampledOut \cup {t}
    /\ droppedP0' = droppedP0 \cup {t}
    /\ UNCHANGED <<payload, unencoded, flushing>>

\* traceWriter.add, which flushes when the payload has become too large.
AddToPayload(t) ==
    /\ payload' = payload \cup {t}
    /\ flushing' = IF Cardinality(payload') > PayloadLimit THEN "size" ELSE "no"
    /\ UNCHANGED dropVars

AddUnencoded(t) ==
    /\ unencoded' = unencoded \cup {t}
    /\ UNCHANGED <<payload, flushing, droppedP0, sampledOut>>

\* A trace is received from t.out, in the main select or in the drain loop.
Receive(t) ==
    /\ worker \in {"select", "drain"} /\ flushing = "no"
    /\ t \in queue
    /\ queue' = queue \ {t}
    /\ SampleOut(t) \/ AddToPayload(t) \/ AddUnencoded(t)
    /\ UNCHANGED <<push, refused, senders, agentVars, flushVars, stopVars, worker, serving>>

\* The flush interval is over (a tick with an empty payload changes nothing).
Tick ==
    /\ worker = "select" /\ flushing = "no"
    /\ payload # {}
    /\ flushing' = "tick"
    /\ UNCHANGED <<pushVars, writerVars, agentVars, dropVars, flushVars, stopVars,
                   worker, serving>>

\* Mutant: the worker answers Flush before it flushes.
MutFlushTake(f) ==
    /\ worker = "select" /\ flushing = "no"
    /\ flusher[f] = "blocked"
    /\ flusher' = [flusher EXCEPT ![f] = "returned"]
    /\ flushing' = IF payload = {} THEN "no" ELSE "tick"
    /\ UNCHANGED <<pushVars, writerVars, agentVars, dropVars, asked, stopVars, worker, serving>>

\* The worker receives f's done channel; an empty payload is flushed at once.
FlushTake(f) ==
    /\ worker = "select" /\ flushing = "no"
    /\ flusher[f] = "blocked"
    /\ IF payload = {}
       THEN /\ flusher' = [flusher EXCEPT ![f] = "returned"]
            /\ UNCHANGED <<flushing, serving>>
       ELSE /\ flusher' = [flusher EXCEPT ![f] = "waiting"]
            /\ flushing' = "invoked" /\ serving' = f
    /\ UNCHANGED <<pushVars, writerVars, agentVars, dropVars, asked, stopVars, worker>>

\* Mutant: the worker forgets whom to answer.
MutWorkerFlush ==
    /\ flushing # "no"
    /\ StartSend
    /\ flushing' = "no" /\ serving' = NoFlusher
    /\ UNCHANGED <<pushVars, agentVars, dropVars, flushVars, stopVars, worker>>

\* The worker's flush gets a connection and returns; an invoked one also answers.
WorkerFlush ==
    /\ flushing # "no"
    /\ StartSend
    /\ flushing' = "no" /\ serving' = NoFlusher
    /\ flusher' = IF flushing = "invoked"
                  THEN [flusher EXCEPT ![serving] = "returned"] ELSE flusher
    /\ UNCHANGED <<pushVars, agentVars, dropVars, asked, stopVars, worker>>

WorkerStop ==
    /\ worker = "select" /\ flushing = "no" /\ stopped
    /\ worker' = "drain"
    /\ UNCHANGED <<pushVars, writerVars, agentVars, dropVars, flushVars, stopVars,
                   flushing, serving>>

\* Mutant: the worker returns without draining the channel.
MutWorkerExit ==
    /\ worker = "drain" /\ flushing = "no"
    /\ worker' = "exited"
    /\ UNCHANGED <<pushVars, writerVars, agentVars, dropVars, flushVars, stopVars,
                   flushing, serving>>

WorkerExit ==
    /\ worker = "drain" /\ flushing = "no" /\ queue = {}
    /\ worker' = "exited"
    /\ UNCHANGED <<pushVars, writerVars, agentVars, dropVars, flushVars, stopVars,
                   flushing, serving>>

-----------------------------------------------------------------------------
(***************************************************************************)
(* Flush and Stop.                                                         *)
(***************************************************************************)

FlushCall(f) ==
    /\ flusher[f] = "idle" /\ global
    /\ flusher' = [flusher EXCEPT ![f] = "blocked"]
    /\ asked' = [asked EXCEPT ![f] = payload]
    /\ UNCHANGED <<pushVars, writerVars, agentVars, dropVars, stopVars, workerVars>>

\* SetGlobalTracer swaps in the no-op tracer, then calls tracer.Stop.
StopSwap ==
    /\ stopper = "running"
    /\ stopper' = "swapped" /\ global' = FALSE
    /\ early' = {t \in Traces : push[t] = "done"}
    /\ UNCHANGED <<stopped, pushVars, writerVars, agentVars, dropVars, flushVars, workerVars>>

\* Mutant: the stop channel is not closed.
MutStopClose ==
    /\ stopper = "swapped"
    /\ stopper' = "closed"
    /\ UNCHANGED <<stopped, global, early, pushVars, writerVars, agentVars, dropVars, flushVars,
                   workerVars>>

StopClose ==
    /\ stopper = "swapped"
    /\ stopper' = "closed" /\ stopped' = TRUE
    /\ UNCHANGED <<global, early, pushVars, writerVars, agentVars, dropVars, flushVars,
                   workerVars>>

\* t.wg.Wait()
StopJoin ==
    /\ stopper = "closed" /\ worker = "exited"
    /\ stopper' = "flush"
    /\ UNCHANGED <<global, stopped, early, pushVars, writerVars, agentVars, dropVars,
                   flushVars, workerVars>>

\* traceWriter.stop: the final flush, then the wait for all uploads.
StopFlush ==
    /\ stopper = "flush"
    /\ stopper' = "wait"
    /\ IF payload = {} THEN UNCHANGED writerVars ELSE StartSend
    /\ UNCHANGED <<global, stopped, early, pushVars, agentVars, dropVars, flushVars,
                   workerVars>>

StopReturn ==
    /\ stopper = "wait" /\ senders = {}
    /\ stopper' = "returned"
    /\ UNCHANGED <<global, stopped, early, pushVars, writerVars, agentVars, dropVars,
                   flushVars, workerVars>>

-----------------------------------------------------------------------------
Pusher(t) == PushRead(t) \/ PushCheck(t) \/ PushSend(t)
Worker == \/ \E t \in Traces : Receive(t)
          \/ Tick \/ WorkerFlush \/ WorkerStop \/ WorkerExit
Sender(p) == SendRequest(p) \/ SendOK(p) \/ SendFail(p)
Stopper == StopClose \/ StopJoin \/ StopFlush \/ StopReturn

Next == \/ \E t \in Traces : Pusher(t)
        \/ Worker
        \/ \E p \in senders : Sender(p)
        \/ \E f \in Flushers : FlushCall(f) \/ FlushTake(f)
        \/ StopSwap \/ Stopper

Spec == Init /\ [][Next]_vars

\* The Go scheduler runs every runnable goroutine; an HTTP request ends, with its
\* timeout at the latest; select chooses at random, so that a case that is ready
\* again and again is taken.
Fairness == /\ \A t \in Traces : WF_vars(Pusher(t))
            /\ WF_vars(Worker)
            /\ WF_vars(\E p \in senders : Sender(p))
            /\ \A f \in Flushers : SF_vars(FlushTake(f))
            /\ WF_vars(Stopper)

FairSpec == Spec /\ Fairness

-----------------------------------------------------------------------------
(***************************************************************************)
(* Properties.                                                             *)
(***************************************************************************)

InFlight == UNION {p.traces : p \in senders}

Dropped == refused \cup sampledOut \cup unencoded

\* A trace whose hand-over ended is in exactly one place, before that in none: it
\* is never lost between channel, payload and connection, nor kept in two of
\* them, nor part of two requests (tracer.go:294-298, writer.go:84-85).
Conservation ==
    /\ {t \in Traces : push[t] = "done"} =
          queue \cup payload \cup InFlight \cup delivered \cup lost \cup Dropped
    /\ queue \cap (payload \cup InFlight \cup delivered \cup lost \cup Dropped) = {}
    /\ payload \cap (InFlight \cup delivered \cup lost \cup Dropped) = {}
    /\ InFlight \cap (delivered \cup lost \cup Dropped) = {}
    /\ delivered \cap (lost \cup Dropped) = {}
    /\ lost \cap Dropped = {}
    /\ \A p, q \in senders : p # q => p.traces \cap q.traces = {}

\* When Stop has returned, nothing works on in the background: the worker is
\* gone, the payload is empty and no request is under way (writer.go:71-75).  A
\* trace that pushTrace accepted before Stop was called has been sent, or was
\* accounted for as dropped (tracer.go:312-327, #526).  A trace whose pushTrace looked
\* at stop before it was closed may still end up in the channel and stay there.
StopDelivers ==
    stopper = "returned" =>
        /\ worker = "exited" /\ payload = {} /\ senders = {}
        /\ early \subseteq delivered \cup lost \cup Dropped

\* A Flush that returned left nothing of what the payload held when it was called
\* behind: it is with a sender or beyond (tracer.go:304-310).
FlushHandsOver ==
    \A f \in Flushers : flusher[f] = "returned" => asked[f] \cap payload = {}

InHeaders == UNION {p.header : p \in senders}

\* The agent is told of no dropped P0 trace twice, of none that was not dropped, and
\* as long as no request failed none is forgotten: the counter is moved, not copied,
\* into exactly one request (transport.go:153-163).  The sums of the counters follow.
P0Accounted ==
    /\ droppedP0 \cup InHeaders \cup reportedP0 \subseteq sampledOut
    /\ droppedP0 \cap InHeaders = {} /\ droppedP0 \cap reportedP0 = {}
    /\ InHeaders \cap reportedP0 = {}
    /\ \A p, q \in senders : p # q => p.header \cap q.header = {}
    /\ lost = {} => droppedP0 \cup InHeaders \cup reportedP0 = sampledOut

\* Stop returns (tracer.go:548-558), however many traces are queued, whether or
\* not the connections are all in use.
StopReturns == (stopper # "running") ~> (stopper = "returned")

\* "flushSync triggers a flush and waits for it to complete" (tracer.go:282): Flush
\* returns, also when all connections are in use.  The one exception is a worker that
\* exits before it takes the call, which Flush does not look for (tracer.go:285).
FlushReturns ==
    \A f \in Flushers :
        (flusher[f] # "idle") ~> (flusher[f] = "returned" \/ worker = "exited")

-----------------------------------------------------------------------------
(***************************************************************************)
(* The pipeline implements TraceDelivery.                                  *)
(***************************************************************************)
Status(t) ==
    CASE t \in queue -> "queued"
      [] t \in payload -> "buffered"
      [] t \in InFlight -> "sending"
      [] t \in delivered -> "delivered"
      [] t \in lost -> "lost"
      [] t \in Dropped -> "dropped"
      [] OTHER -> "open"

Delivery == INSTANCE TraceDelivery WITH status <- [t \in Traces |-> Status(t)]

\* Every step of the pipeline moves traces forward, one way, as TraceDelivery
\* allows (tracer.go:291-373, writer.go:60-106).
ImplementsDelivery == Delivery!Spec

-----------------------------------------------------------------------------
(***************************************************************************)
(* The inductive invariants behind the properties (TracerPipeline_proofs). *)
(***************************************************************************)

\* Requests are never empty and built once, a flush goes on only with something to
\* send, and the worker and Stop do not flush at the same time.
WriterInv ==
    /\ \A p \in senders : p.traces # {} /\ (p.state = "started" => p.header = {})
    /\ flushing # "no" => payload # {} /\ worker # "exited"
    /\ flushing = "invoked" <=> serving # NoFlusher
    /\ stopper \in {"flush", "wait", "returned"} => worker = "exited"

\* How far Stop has come bounds what can still be at work.
StopInv ==
    /\ stopper \in {"wait", "returned"} => payload = {}
    /\ stopper = "returned" => senders = {}
    /\ worker = "exited" => early \cap queue = {}
    /\ worker # "select" => stopped
    /\ stopped => stopper \notin {"running", "swapped"}
    /\ \A t \in early : push[t] = "done"

\* What was buffered when Flush was called cannot come back to the payload.
FlushInv ==
    \A f \in Flushers :
        /\ \A t \in asked[f] : push[t] = "done" /\ t \notin queue
        /\ flusher[f] = "returned" => asked[f] \cap payload = {}

=============================================================================

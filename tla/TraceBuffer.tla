---------------------------- MODULE TraceBuffer ----------------------------
(***************************************************************************)
(* The span buffer of ONE trace (ddtrace/tracer/spancontext.go, type trace)*)
(* with the life of the spans that go through it (StartSpan in tracer.go,  *)
(* SetTag and Finish in span.go).                                          *)
(*                                                                         *)
(* Every span is started by some goroutine and finished by some goroutine; *)
(* pc[s] says how far those calls have come.  A step is what happens       *)
(* between two points where another goroutine can observe or change the    *)
(* shared trace: a critical section of trace.mu, an atomic operation on    *)
(* trace.samplingDecision, or an unsynchronised access to trace.root.      *)
(* What only the span's own lock protects is merged into these steps.      *)
(*                                                                         *)
(* The slice trace.spans is abstracted to the set of its members and its   *)
(* first element: the code uses its length, spans[0], and nothing else.    *)
(***************************************************************************)
EXTENDS Integers, FiniteSets

CONSTANTS
    Spans,              \* the spans that may be started in this trace
    Nil,                \* a nil pointer / an absent map key
    TraceMaxSize,       \* traceMaxSize
    Remote,             \* TRUE: the trace was extracted from a carrier
    DropP0s,            \* config.canDropP0s(): the agent lets the client drop
    ManualPriorities,   \* what callers set with ManualKeep / ManualDrop
    SamplerPriorities   \* what the rules and the priority sampler assign

Priorities == -1 .. 2      \* ext.PriorityUserReject .. ext.PriorityUserKeep

UserKeep == 2              \* ext.PriorityUserKeep

ASSUME SpansAssumption == IsFiniteSet(Spans) /\ Nil \notin Spans
ASSUME SizeAssumption == TraceMaxSize \in Nat \ {0}
ASSUME PriorityAssumption ==
    /\ ManualPriorities \subseteq Priorities
    /\ SamplerPriorities \subseteq Priorities
    /\ Nil \notin Priorities
ASSUME ConfigAssumption == Remote \in BOOLEAN /\ DropP0s \in BOOLEAN

Decisions == {"none", "drop", "keep"}

\* samplernames: who may have set a positive priority; "unknown" leaves no tag.
Samplers == {"upstream", "rate", "manual"}

VARIABLES
    spans,          \* trace.spans, as a set
    first,          \* trace.spans[0]
    finished,       \* trace.finished
    full,           \* trace.full
    priority,       \* trace.priority
    locked,         \* trace.locked
    decision,       \* trace.samplingDecision
    dm,             \* trace.propagatingTags["_dd.p.dm"]
    root,           \* trace.root
    pc,             \* how far the calls on each span have come
    metric,         \* span.Metrics["_sampling_priority_v1"]
    dmTag,          \* span.Meta["_dd.p.dm"], set when it leads its chunk
    error,          \* span.Error
    errors,         \* span.context.errors
    parent,         \* the context handed to StartSpan with ChildOf
    out,            \* the finishedTraces handed to tracer.pushTrace
    tracer,         \* TRUE while the global tracer is a *tracer
    spansStarted, spansFinished, tracesDropped     \* the tracer's counters

traceVars == <<spans, first, finished, full, priority, locked, decision, dm, root>>
spanVars  == <<pc, metric, dmTag, error, errors, parent>>
tracerVars == <<out, tracer, spansStarted, spansFinished, tracesDropped>>
vars == <<traceVars, spanVars, tracerVars>>

PCs == {"new", "context", "root", "push", "sample", "apply", "live",
        "keep", "ack", "done"}

Chunks == [spans : SUBSET Spans, first : Spans, decision : Decisions]

TypeOK ==
    /\ spans \in SUBSET Spans
    /\ first \in Spans \cup {Nil}
    /\ finished \in Nat
    /\ full \in BOOLEAN
    /\ priority \in Priorities \cup {Nil}
    /\ locked \in BOOLEAN
    /\ decision \in Decisions
    /\ dm \in Samplers \cup {Nil}
    /\ root \in Spans \cup {Nil}
    /\ pc \in [Spans -> PCs]
    /\ metric \in [Spans -> Priorities \cup {Nil}]
    /\ dmTag \in [Spans -> Samplers \cup {Nil}]
    /\ error \in [Spans -> {0, 1}]
    /\ errors \in [Spans -> Nat]
    /\ parent \in [Spans -> Spans \cup {Nil}]
    /\ out \in SUBSET Chunks
    /\ tracer \in BOOLEAN
    /\ spansStarted \in Nat
    /\ spansFinished \in Nat
    /\ tracesDropped \in Nat

-----------------------------------------------------------------------------
(* Predicates on a span's program counter. *)

Returned == {s \in Spans : pc[s] \in {"live", "keep", "ack", "done"}}   \* StartSpan returned
Finished == {s \in Spans : pc[s] \in {"keep", "ack", "done"}}           \* span.finished
Settable == {s \in Spans : pc[s] \in {"sample", "live"}}                \* SetTag has an effect

-----------------------------------------------------------------------------
(***************************************************************************)
(* An extracted trace starts with what the headers carried: the priority   *)
(* and the decision maker are read by two independent header cases, so any *)
(* combination is possible.  A local trace starts empty.                   *)
(***************************************************************************)
Init ==
    /\ spans = {} /\ first = Nil /\ finished = 0 /\ full = FALSE
    /\ priority \in IF Remote THEN Priorities \cup {Nil} ELSE {Nil}
    /\ dm \in IF Remote THEN {"upstream", Nil} ELSE {Nil}
    /\ locked = FALSE /\ decision = "none" /\ root = Nil
    /\ pc = [s \in Spans |-> "new"]
    /\ metric = [s \in Spans |-> Nil]
    /\ dmTag = [s \in Spans |-> Nil]
    /\ error = [s \in Spans |-> 0]
    /\ errors = [s \in Spans |-> 0]
    /\ parent = [s \in Spans |-> Nil]
    /\ out = {} /\ tracer = TRUE
    /\ spansStarted = 0 /\ spansFinished = 0 /\ tracesDropped = 0

-----------------------------------------------------------------------------
(* trace.setSamplingPriorityLocked(p, sampler). *)

\* Mutant: the lock on the priority is ignored.
MutPriorityUnlocked(p) == p

PriorityAfter(p) == IF locked THEN priority ELSE p

\* Mutant: a priority that is not positive leaves the decision maker in place.
MutDecisionMakerKept(p, sampler) ==
    IF ~locked /\ p > 0 /\ dm = Nil /\ sampler # "unknown" THEN sampler ELSE dm

DecisionMakerAfter(p, sampler) ==
    CASE locked -> dm
      [] ~locked /\ p <= 0 -> Nil
      [] ~locked /\ p > 0 /\ dm = Nil /\ sampler # "unknown" -> sampler
      [] OTHER -> dm

SetSamplingPriorityLocked(p, sampler) ==
    /\ priority' = PriorityAfter(p)
    /\ dm' = DecisionMakerAfter(p, sampler)

\* span.setSamplingPriorityLocked on an unfinished span: the span's metric and
\* the trace's priority, both under the span's lock.
SetSpanPriority(s, p, sampler) ==
    /\ metric' = [metric EXCEPT ![s] = p]
    /\ SetSamplingPriorityLocked(p, sampler)

-----------------------------------------------------------------------------
(***************************************************************************)
(* tracer.StartSpan.                                                       *)
(***************************************************************************)

\* Line 427-436: a child copies the trace's current priority into its metrics.
\* Parents are spans whose StartSpan has returned, or the extracted context;
\* a local trace has one parentless span, which creates it.
StartSpan(s, p) ==
    /\ pc[s] = "new" /\ tracer
    /\ IF p = Nil
       THEN Remote \/ \A q \in Spans : pc[q] = "new"
       ELSE p \in Returned
    /\ parent' = [parent EXCEPT ![s] = p]
    /\ metric' = [metric EXCEPT ![s] = priority]
    /\ pc' = [pc EXCEPT ![s] = "context"]
    /\ UNCHANGED <<traceVars, dmTag, error, errors, tracerVars>>

\* newSpanContext: inherit the error count, look at trace.root (no lock).
NewSpanContext(s) ==
    /\ pc[s] = "context"
    /\ errors' = [errors EXCEPT ![s] = IF parent[s] = Nil THEN 0 ELSE errors[parent[s]]]
    /\ pc' = [pc EXCEPT ![s] = IF root = Nil THEN "root" ELSE "push"]
    /\ UNCHANGED <<traceVars, metric, dmTag, error, parent, tracerVars>>

\* newSpanContext: the span that saw no root makes itself the root (no lock).
SetRoot(s) ==
    /\ pc[s] = "root"
    /\ root' = s
    /\ pc' = [pc EXCEPT ![s] = "push"]
    /\ UNCHANGED <<spans, first, finished, full, priority, locked, decision, dm,
                   metric, dmTag, error, errors, parent, tracerVars>>

\* trace.push, under trace.mu.
PushFull(s) ==
    /\ full
    /\ UNCHANGED <<traceVars, tracerVars>>

PushOverflow(s) ==
    /\ ~full /\ Cardinality(spans) >= TraceMaxSize
    /\ full' = TRUE
    /\ spans' = {} /\ first' = Nil
    /\ tracesDropped' = IF tracer THEN tracesDropped + 1 ELSE tracesDropped
    /\ UNCHANGED <<finished, priority, locked, decision, dm, root, out, tracer,
                   spansStarted, spansFinished>>

PushAppend(s) ==
    /\ ~full /\ Cardinality(spans) < TraceMaxSize
    /\ IF metric[s] # Nil
       THEN SetSamplingPriorityLocked(metric[s], "unknown")
       ELSE UNCHANGED <<priority, dm>>
    /\ spans' = spans \cup {s}
    /\ first' = IF spans = {} THEN s ELSE first
    /\ spansStarted' = IF tracer THEN spansStarted + 1 ELSE spansStarted
    /\ UNCHANGED <<finished, full, locked, decision, root, out, tracer,
                   spansFinished, tracesDropped>>

Push(s) ==
    /\ pc[s] = "push"
    /\ PushFull(s) \/ PushOverflow(s) \/ PushAppend(s)
    /\ pc' = [pc EXCEPT ![s] = "sample"]
    /\ UNCHANGED <<metric, dmTag, error, errors, parent>>

\* Line 486-489 and the same test again in tracer.sample.
CheckSampled(s) ==
    /\ pc[s] = "sample"
    /\ pc' = [pc EXCEPT ![s] = IF priority = Nil THEN "apply" ELSE "live"]
    /\ UNCHANGED <<traceVars, metric, dmTag, error, errors, parent, tracerVars>>

\* tracer.sample: the configured sampler rejects the span, trace.drop() (a CAS).
SampleDrop(s) ==
    /\ pc[s] = "apply"
    /\ decision' = IF decision = "none" THEN "drop" ELSE decision
    /\ pc' = [pc EXCEPT ![s] = "live"]
    /\ UNCHANGED <<spans, first, finished, full, priority, locked, dm, root,
                   metric, dmTag, error, errors, parent, tracerVars>>

\* tracer.sample: a rule or the priority sampler assigns a priority.
SampleApply(s) ==
    /\ pc[s] = "apply"
    /\ \E p \in SamplerPriorities : SetSpanPriority(s, p, "rate")
    /\ pc' = [pc EXCEPT ![s] = "live"]
    /\ UNCHANGED <<spans, first, finished, full, locked, decision, root,
                   dmTag, error, errors, parent, tracerVars>>

-----------------------------------------------------------------------------
(***************************************************************************)
(* span.SetTag, by the options of StartSpan or by the application.         *)
(***************************************************************************)

\* ext.ManualKeep, ext.ManualDrop, ext.SamplingPriority.
SetTagPriority(s) ==
    /\ s \in Settable
    /\ \E p \in ManualPriorities : SetSpanPriority(s, p, "manual")
    /\ UNCHANGED <<spans, first, finished, full, locked, decision, root,
                   pc, dmTag, error, errors, parent, tracerVars>>

\* ext.Error: setTagError keeps context.errors in step with span.Error.
SetTagError(s) ==
    /\ s \in Settable
    /\ \E e \in {0, 1} :
          /\ error' = [error EXCEPT ![s] = e]
          /\ errors' = [errors EXCEPT ![s] = @ + (e - error[s])]
    /\ UNCHANGED <<traceVars, pc, metric, dmTag, parent, tracerVars>>

-----------------------------------------------------------------------------
(***************************************************************************)
(* span.finish.                                                            *)
(***************************************************************************)

\* Mutant: errors do not keep a trace.
MutShouldKeep(s, sampled) == (priority # Nil /\ priority > 0) \/ sampled

\* shouldKeep; sampled stands for the analytics rate of ext.EventSampleRate.
ShouldKeep(s, sampled) ==
    \/ priority # Nil /\ priority > 0
    \/ errors[s] > 0
    \/ sampled

\* Mutant: P0 dropping does not ask whether the agent supports it.
MutFinishDropsP0(s) ==
    /\ pc[s] = "live"
    /\ \E sampled \in BOOLEAN :
          pc' = [pc EXCEPT ![s] =
                   IF tracer /\ ~ShouldKeep(s, sampled) THEN "ack" ELSE "keep"]
    /\ UNCHANGED <<traceVars, metric, dmTag, error, errors, parent, tracerVars>>

\* The span is marked finished (a finished one returns early), and whether it
\* keeps its trace is decided.
Finish(s) ==
    /\ pc[s] = "live"
    /\ \E sampled \in BOOLEAN :
          pc' = [pc EXCEPT ![s] =
                   IF tracer /\ DropP0s /\ ~ShouldKeep(s, sampled) THEN "ack" ELSE "keep"]
    /\ UNCHANGED <<traceVars, metric, dmTag, error, errors, parent, tracerVars>>

\* trace.keep(): a compare-and-swap.
Keep(s) ==
    /\ pc[s] = "keep"
    /\ decision' = IF decision = "none" THEN "keep" ELSE decision
    /\ pc' = [pc EXCEPT ![s] = "ack"]
    /\ UNCHANGED <<spans, first, finished, full, priority, locked, dm, root,
                   metric, dmTag, error, errors, parent, tracerVars>>

\* Mutants of finishedOne's parts: the root keeps its own priority; only the root
\* reports the trace's tags; the buffer is reused without resetting the counter.
MutLockRoot(s) ==
    IF s = root /\ priority # Nil
    THEN locked' = TRUE /\ UNCHANGED metric
    ELSE UNCHANGED <<locked, metric>>

MutCopyTags(s) ==
    dmTag' = IF s = root /\ dm # Nil THEN [dmTag EXCEPT ![s] = dm] ELSE dmTag

MutFlushNoReset ==
    /\ spans' = {} /\ first' = Nil /\ finished' = finished + 1
    /\ IF tracer
       THEN /\ out' = out \cup {[spans |-> spans, first |-> first, decision |-> decision]}
            /\ spansFinished' = spansFinished + Cardinality(spans)
       ELSE UNCHANGED <<out, spansFinished>>

\* trace.finishedOne, under trace.mu: the three parts of a critical section.
LockRoot(s) ==
    IF s = root /\ priority # Nil
    THEN locked' = TRUE /\ metric' = [metric EXCEPT ![s] = priority]
    ELSE UNCHANGED <<locked, metric>>

CopyTags(s) ==
    dmTag' = IF s = first /\ dm # Nil THEN [dmTag EXCEPT ![s] = dm] ELSE dmTag

ChunkComplete == Cardinality(spans) = finished + 1

\* The buffer is emptied for its next flush; only a *tracer takes the chunk.
FlushChunk ==
    /\ spans' = {} /\ first' = Nil /\ finished' = 0
    /\ IF tracer
       THEN /\ out' = out \cup {[spans |-> spans, first |-> first, decision |-> decision]}
            /\ spansFinished' = spansFinished + Cardinality(spans)
       ELSE UNCHANGED <<out, spansFinished>>

FinishedOne(s) ==
    /\ pc[s] = "ack"
    /\ pc' = [pc EXCEPT ![s] = "done"]
    /\ \/ /\ full
          /\ UNCHANGED <<spans, first, finished, locked, metric, dmTag, out, spansFinished>>
       \/ /\ ~full /\ ~ChunkComplete
          /\ LockRoot(s) /\ CopyTags(s)
          /\ finished' = finished + 1
          /\ UNCHANGED <<spans, first, out, spansFinished>>
       \/ /\ ~full /\ ChunkComplete
          /\ LockRoot(s) /\ CopyTags(s)
          /\ FlushChunk
    /\ UNCHANGED <<full, priority, decision, dm, root, error, errors, parent,
                   tracer, spansStarted, tracesDropped>>

\* tracer.Stop: the no-op tracer becomes the global one.
StopTracer ==
    /\ tracer
    /\ tracer' = FALSE
    /\ UNCHANGED <<traceVars, spanVars, out, spansStarted, spansFinished, tracesDropped>>

-----------------------------------------------------------------------------
SpanStep(s) ==
    \/ \E p \in Spans \cup {Nil} : StartSpan(s, p)
    \/ NewSpanContext(s) \/ SetRoot(s) \/ Push(s)
    \/ CheckSampled(s) \/ SampleDrop(s) \/ SampleApply(s)
    \/ SetTagPriority(s) \/ SetTagError(s)
    \/ Finish(s) \/ Keep(s) \/ FinishedOne(s)

Next == StopTracer \/ \E s \in Spans : SpanStep(s)

Spec == Init /\ [][Next]_vars

-----------------------------------------------------------------------------
(***************************************************************************)
(* Properties.                                                             *)
(***************************************************************************)

Acknowledged == {s \in spans : pc[s] = "done"}

\* The counter trace.finished is the number of buffered spans whose finishedOne
\* ran: finishedOne compares it with len(trace.spans) to decide on a flush, over
\* every interleaving of pushes and finishes and over every reuse of the buffer
\* (spancontext.go:306, 330-335).
FinishedCount == ~full => finished = Cardinality(Acknowledged)

\* A buffer never waits for a finish that will not come: as long as it holds
\* spans, one of them has yet to call finishedOne (spancontext.go:330).
NoStrandedChunk == (~full /\ spans # {}) => \E s \in spans : pc[s] # "done"

\* The spans of a chunk given to pushTrace have all been acknowledged, are in
\* no other chunk and no longer in the buffer, so none can be modified or sent
\* again while the worker encodes it without a lock (span.go:110-112).
FlushedOnce ==
    \A c \in out :
        /\ \A s \in c.spans : pc[s] = "done" /\ s \notin spans
        /\ \A d \in out \ {c} : c.spans \cap d.spans = {}

\* A single span that wants its trace kept keeps the whole chunk: trace.keep()
\* ran before the chunk was handed over, so its decision is made; only an
\* earlier rejection by the sampler wins over it (span.go:463-467, 531).
ErrorChunkDecided ==
    \A c \in out : (\E s \in c.spans : error[s] = 1) => c.decision # "none"

\* When the client may not drop P0 traces, no chunk leaves undecided: the worker
\* would drop it (span.go:448, tracer.go:338-341).
ChunkDecided == \A c \in out : c.decision # "none"

\* The priority is locked only by a root that finished, and the root span
\* carries the locked value: what is sent to the agent and what is propagated
\* agree from then on (spancontext.go:307-313).
LockedByRoot ==
    locked => /\ root \in Finished
              /\ priority # Nil /\ metric[root] = priority

\* Every chunk of a local trace reports the decision maker that is propagated
\* downstream once the priority is locked (spancontext.go:315-327).
ChunkDecisionMaker == locked => \A c \in out : dmTag[c.first] = dm

\* The decision maker is propagated only with a positive priority, whatever
\* order the samplers, the users and the pushes of stale priorities came in
\* (spancontext.go:257-264).
DecisionMakerPositive == dm # Nil => priority # Nil /\ priority > 0

\* The health counters account for every span of a running tracer: what was
\* started is finished or still buffered (spancontext.go:290-292, 341).
SpanCounters ==
    (tracer /\ ~full) => spansStarted = spansFinished + Cardinality(spans)

\* The accounting of the buffer: counters, buffer and chunks agree whatever the
\* interleaving of pushes and finishes, over every reuse of the buffer and also when
\* Finish is called twice (spancontext.go:267-346).
Accounted == FinishedCount /\ NoStrandedChunk /\ FlushedOnce /\ SpanCounters

\* A locked priority is never changed again, not by samplers, users, nor by the
\* push of a span that read an older priority (spancontext.go:249-251).
LockedPriorityStable == [][locked => UNCHANGED <<locked, priority, dm>>]_vars

\* "ManualKeep is a tag which specifies that the trace to which this span belongs
\* to should be kept when set to true" (ext/tags.go:93): with no other manual
\* priority in play, a span that carries the manual keep means that the trace
\* has that priority, until the root's finish locks it.
ManualKeepHolds ==
    (~locked /\ \E s \in Spans : metric[s] = UserKeep) => priority = UserKeep

-----------------------------------------------------------------------------
(***************************************************************************)
(* The inductive invariant behind the properties above (TraceBuffer_proofs)*)
(***************************************************************************)

\* Pushed and not yet acknowledged: while the trace is not full, exactly these
\* spans and the acknowledged ones of the current chunk are in the buffer.
Open == {s \in Spans : pc[s] \in {"sample", "apply", "live", "keep", "ack"}}

ErrorsInv ==
    \A s \in Spans : /\ errors[s] >= error[s]
                     /\ pc[s] \in {"new", "context"} => error[s] = 0

BufferInv ==
    /\ spans \subseteq Open \cup {s \in Spans : pc[s] = "done"}
    /\ ~full => Open \subseteq spans
    /\ full => spans = {}
    /\ spans # {} => first \in spans

\* In a local trace one span runs alone until its StartSpan has returned; it is
\* the root.
LocalRootInv ==
    /\ root = Nil => /\ \A s \in Spans : pc[s] \in {"new", "context", "root"}
                     /\ \A s, t \in Spans : pc[s] # "new" /\ pc[t] # "new" => s = t
    /\ root # Nil => /\ \A s \in Spans : pc[s] # "root"
                     /\ pc[root] \notin {"new", "context"}
                     /\ root \notin Returned => \A s \in Spans \ {root} : pc[s] = "new"

RootLockInv ==
    locked => /\ root # Nil /\ pc[root] = "done"
              /\ priority # Nil /\ metric[root] = priority

\* The root leads the first chunk, and no chunk leaves before the root finished;
\* from then on the leader of the buffer, once it finished, reports dm.
ChunkTagInv ==
    /\ \A s \in Spans : pc[s] # "done" => dmTag[s] = Nil
    /\ root = Nil => out = {} /\ spans = {}
    /\ (root # Nil /\ pc[root] # "done") => out = {} /\ (spans # {} => first = root)
    /\ \A c \in out : c.first \in c.spans
    /\ (locked /\ spans # {} /\ pc[first] = "done") => dmTag[first] = dm
    /\ locked => \A c \in out : dmTag[c.first] = dm

\* A span passes trace.keep(), or needs not keep its trace, before finishedOne: the
\* spans whose calls of Finish have come that far.
Settled == {s \in Spans : pc[s] \in {"ack", "done"}}

\* A settled span with an error, and any settled span of a client that may not
\* drop P0s, found or left the decision made.
KeepInv ==
    \A s \in Settled : (error[s] = 1 \/ ~DropP0s) => decision # "none"

=============================================================================

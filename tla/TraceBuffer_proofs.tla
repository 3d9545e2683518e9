-------------------------- MODULE TraceBuffer_proofs --------------------------
(***************************************************************************)
(* Theorems about TraceBuffer, for any finite set of spans, any buffer size*)
(* and any choice of samplers and manual priorities.                       *)
(***************************************************************************)
EXTENDS TraceBuffer, FiniteSetTheorems, TLAPS

-----------------------------------------------------------------------------
(* Type correctness. *)

TypeInv == TypeOK /\ ErrorsInv /\ (spans # {} => first \in spans)

\* Cardinalities of the buffer are natural numbers.
LEMMA BufferFinite ==
    ASSUME NEW S \in SUBSET Spans
    PROVE  IsFiniteSet(S) /\ Cardinality(S) \in Nat
  BY SpansAssumption, FS_Subset, FS_CardinalityType

\* A buffer that completes a chunk is not empty.
LEMMA CompleteNonEmpty ==
    ASSUME TypeOK, ChunkComplete
    PROVE  spans # {}
  BY SMTT(30), FS_EmptySet DEF ChunkComplete, TypeOK

\* The trace's priority and decision maker keep their types.
LEMMA SetPriorityTyped ==
    ASSUME TypeOK, NEW p \in Priorities, NEW n \in Samplers \cup {"unknown"},
           SetSamplingPriorityLocked(p, n)
    PROVE  priority' \in Priorities \cup {Nil} /\ dm' \in Samplers \cup {Nil}
  <1>1. priority' \in Priorities \cup {Nil}
    BY DEF SetSamplingPriorityLocked, PriorityAfter, TypeOK
  <1>2. DecisionMakerAfter(p, n) \in Samplers \cup {Nil}
    <2>0. p \in Int /\ (p <= 0 \/ p > 0)
      BY DEF Priorities
    <2>1. CASE locked
      BY <2>1 DEF DecisionMakerAfter, TypeOK
    <2>2. CASE ~locked /\ p <= 0
      BY <2>2 DEF DecisionMakerAfter, TypeOK
    <2>3. CASE ~locked /\ p > 0 /\ dm = Nil /\ n # "unknown"
      BY <2>0, <2>3 DEF DecisionMakerAfter, TypeOK
    <2>4. CASE ~locked /\ p > 0 /\ ~(dm = Nil /\ n # "unknown")
      BY <2>0, <2>4 DEF DecisionMakerAfter, TypeOK
    <2> QED BY <2>0, <2>1, <2>2, <2>3, <2>4 DEF TypeOK
  <1> QED BY <1>1, <1>2 DEF SetSamplingPriorityLocked

\* The steps of StartSpan keep the types.
LEMMA StartTyped ==
    ASSUME TypeInv, NEW s \in Spans,
           \/ \E p \in Spans \cup {Nil} : StartSpan(s, p)
           \/ NewSpanContext(s) \/ SetRoot(s)
           \/ CheckSampled(s) \/ SampleDrop(s) \/ SampleApply(s)
    PROVE  TypeInv'
  <1> USE DEF TypeInv, TypeOK, ErrorsInv, traceVars, spanVars, tracerVars, PCs
  <1>1. CASE \E p \in Spans \cup {Nil} : StartSpan(s, p)
    BY <1>1 DEF StartSpan
  <1>2. CASE NewSpanContext(s)
    <2>1. (IF parent[s] = Nil THEN 0 ELSE errors[parent[s]]) \in Nat
      OBVIOUS
    <2>2. errors' \in [Spans -> Nat]
      BY <1>2, <2>1 DEF NewSpanContext
    <2>3. error[s] = 0
      BY <1>2 DEF NewSpanContext
    <2>4. ErrorsInv'
      BY <1>2, <2>1, <2>3 DEF NewSpanContext
    <2> QED BY <1>2, <2>2, <2>4 DEF NewSpanContext
  <1>3. CASE SetRoot(s)
    BY <1>3 DEF SetRoot
  <1>4. CASE CheckSampled(s)
    BY <1>4 DEF CheckSampled
  <1>5. CASE SampleDrop(s)
    BY <1>5 DEF SampleDrop, Decisions
  <1>6. CASE SampleApply(s)
    <2>1. PICK p \in SamplerPriorities : SetSpanPriority(s, p, "rate")
      BY <1>6 DEF SampleApply
    <2>2. p \in Priorities
      BY <2>1, PriorityAssumption
    <2>3. priority' \in Priorities \cup {Nil} /\ dm' \in Samplers \cup {Nil}
      BY <2>1, <2>2, SetPriorityTyped DEF SetSpanPriority, Samplers
    <2> QED BY <1>6, <2>1, <2>2, <2>3 DEF SampleApply, SetSpanPriority
  <1> QED BY <1>1, <1>2, <1>3, <1>4, <1>5, <1>6

\* trace.push keeps the types.
LEMMA PushTyped ==
    ASSUME TypeInv, NEW s \in Spans, Push(s)
    PROVE  TypeInv'
  <1> USE DEF TypeInv, TypeOK, ErrorsInv, PCs
  <1>0. /\ pc' = [pc EXCEPT ![s] = "sample"]
        /\ UNCHANGED <<metric, dmTag, error, errors, parent>>
        /\ pc[s] = "push"
    BY DEF Push
  <1>1. CASE PushFull(s)
    BY <1>0, <1>1 DEF PushFull, traceVars, tracerVars
  <1>2. CASE PushOverflow(s)
    BY <1>0, <1>2 DEF PushOverflow
  <1>3. CASE PushAppend(s)
    <2>1. priority' \in Priorities \cup {Nil} /\ dm' \in Samplers \cup {Nil}
      <3>1. CASE metric[s] # Nil
        <4>1. metric[s] \in Priorities
          BY <3>1
        <4>2. SetSamplingPriorityLocked(metric[s], "unknown")
          BY <1>3, <3>1 DEF PushAppend
        <4> QED BY <4>1, <4>2, SetPriorityTyped
      <3>2. CASE metric[s] = Nil
        BY <1>3, <3>2 DEF PushAppend
      <3> QED BY <3>1, <3>2
    <2> QED BY <1>0, <1>3, <2>1 DEF PushAppend
  <1> QED BY <1>1, <1>2, <1>3 DEF Push

\* Setting tags and the first two steps of Finish keep the types.
LEMMA TagTyped ==
    ASSUME TypeInv, NEW s \in Spans,
           SetTagPriority(s) \/ SetTagError(s) \/ Finish(s) \/ Keep(s)
    PROVE  TypeInv'
  <1> USE DEF TypeInv, TypeOK, ErrorsInv, traceVars, spanVars, tracerVars, PCs
  <1>1. CASE SetTagPriority(s)
    <2>1. PICK p \in ManualPriorities : SetSpanPriority(s, p, "manual")
      BY <1>1 DEF SetTagPriority
    <2>2. p \in Priorities
      BY <2>1, PriorityAssumption
    <2>3. priority' \in Priorities \cup {Nil} /\ dm' \in Samplers \cup {Nil}
      BY <2>1, <2>2, SetPriorityTyped DEF SetSpanPriority, Samplers
    <2> QED BY <1>1, <2>1, <2>2, <2>3 DEF SetTagPriority, SetSpanPriority
  <1>2. CASE SetTagError(s)
    <2>1. PICK e \in {0, 1} :
             /\ error' = [error EXCEPT ![s] = e]
             /\ errors' = [errors EXCEPT ![s] = @ + (e - error[s])]
      BY <1>2 DEF SetTagError
    <2>2. errors[s] + (e - error[s]) \in Nat /\ errors[s] + (e - error[s]) >= e
      BY <2>1
    <2>3. pc[s] \notin {"new", "context"}
      BY <1>2 DEF SetTagError, Settable
    <2>4. ErrorsInv'
      BY <1>2, <2>1, <2>2, <2>3 DEF SetTagError
    <2> QED BY <1>2, <2>1, <2>2, <2>4 DEF SetTagError
  <1>3. CASE Finish(s)
    BY <1>3 DEF Finish
  <1>4. CASE Keep(s)
    BY <1>4 DEF Keep, Decisions
  <1> QED BY <1>1, <1>2, <1>3, <1>4

\* trace.finishedOne keeps the types.
LEMMA FinishedOneTyped ==
    ASSUME TypeInv, NEW s \in Spans, FinishedOne(s)
    PROVE  TypeInv'
  <1> USE DEF TypeInv, TypeOK, ErrorsInv
  <1>0. /\ pc' = [pc EXCEPT ![s] = "done"] /\ pc[s] = "ack"
        /\ UNCHANGED <<full, priority, decision, dm, root, error, errors, parent,
                       tracer, spansStarted, tracesDropped>>
    BY DEF FinishedOne
  <1>1. pc' \in [Spans -> PCs] /\ ErrorsInv'
    BY <1>0 DEF PCs
  <1>2. CASE full /\ UNCHANGED <<spans, first, finished, locked, metric, dmTag,
                                 out, spansFinished>>
    BY <1>0, <1>1, <1>2
  <1>3. ASSUME LockRoot(s), CopyTags(s)
        PROVE  /\ locked' \in BOOLEAN
               /\ metric' \in [Spans -> Priorities \cup {Nil}]
               /\ dmTag' \in [Spans -> Samplers \cup {Nil}]
    BY <1>3 DEF LockRoot, CopyTags
  <1>4. CASE /\ LockRoot(s) /\ CopyTags(s)
             /\ finished' = finished + 1
             /\ UNCHANGED <<spans, first, out, spansFinished>>
    BY <1>0, <1>1, <1>3, <1>4
  <1>5. CASE ChunkComplete /\ LockRoot(s) /\ CopyTags(s) /\ FlushChunk
    <2>1. spans # {} /\ first \in Spans
      BY <1>5, CompleteNonEmpty
    <2>2. [spans |-> spans, first |-> first, decision |-> decision] \in Chunks
      BY <2>1 DEF Chunks
    <2>3. Cardinality(spans) \in Nat
      BY BufferFinite
    <2>4. out' \in SUBSET Chunks /\ spansFinished' \in Nat
      BY <1>5, <2>2, <2>3 DEF FlushChunk
    <2> QED BY <1>0, <1>1, <1>3, <1>5, <2>4 DEF FlushChunk
  <1> QED BY <1>2, <1>4, <1>5 DEF FinishedOne

\* The typing invariant is inductive.
LEMMA TypeInvariance == Spec => []TypeInv
  <1>1. Init => TypeInv
    <2> SUFFICES ASSUME Init PROVE TypeInv
      OBVIOUS
    <2>1. priority \in Priorities \cup {Nil} /\ dm \in Samplers \cup {Nil}
      BY ConfigAssumption DEF Init, Samplers
    <2>2. ErrorsInv
      BY DEF Init, ErrorsInv
    <2> QED BY <2>1, <2>2 DEF Init, TypeInv, TypeOK, PCs, Decisions
  <1>2. TypeInv /\ [Next]_vars => TypeInv'
    <2> SUFFICES ASSUME TypeInv, [Next]_vars PROVE TypeInv'
      OBVIOUS
    <2>1. CASE UNCHANGED vars
      BY <2>1 DEF vars, traceVars, spanVars, tracerVars, TypeInv, TypeOK, ErrorsInv
    <2>2. CASE StopTracer
      BY <2>2 DEF StopTracer, traceVars, spanVars, TypeInv, TypeOK, ErrorsInv
    <2>3. ASSUME NEW s \in Spans, SpanStep(s) PROVE TypeInv'
      BY <2>3, StartTyped, PushTyped, TagTyped, FinishedOneTyped DEF SpanStep
    <2> QED BY <2>1, <2>2, <2>3 DEF Next
  <1> QED BY <1>1, <1>2, PTL DEF Spec

\* TraceBuffer is type correct: in particular span contexts never count a
\* negative number of errors, and every chunk handed over has a first span.
THEOREM TypeCorrect == Spec => []TypeOK
  <1>1. TypeInv => TypeOK
    BY DEF TypeInv
  <1> QED BY <1>1, TypeInvariance, PTL

-----------------------------------------------------------------------------
(* The accounting of the buffer. *)

AccountInv == BufferInv /\ FinishedCount /\ NoStrandedChunk /\ FlushedOnce /\ SpanCounters

\* Steps of s that neither enter nor leave the buffer.
Quiet(s) ==
    /\ UNCHANGED <<spans, first, finished, full, out, tracer, spansStarted, spansFinished>>
    /\ pc[s] # "done" /\ pc'[s] # "done"
    /\ \A t \in Spans : t # s => pc'[t] = pc[t]
    /\ s \in Open <=> (s \in Open)'

LEMMA QuietStep ==
    ASSUME TypeInv, NEW s \in Spans,
           \/ \E p \in Spans \cup {Nil} : StartSpan(s, p)
           \/ NewSpanContext(s) \/ SetRoot(s)
           \/ CheckSampled(s) \/ SampleDrop(s) \/ SampleApply(s)
           \/ SetTagPriority(s) \/ SetTagError(s) \/ Finish(s) \/ Keep(s)
    PROVE  Quiet(s)
  <1> USE DEF TypeInv, TypeOK, Quiet, Open, traceVars, spanVars, tracerVars
  <1>1. CASE \E p \in Spans \cup {Nil} : StartSpan(s, p)
    BY <1>1 DEF StartSpan
  <1>2. CASE NewSpanContext(s)
    BY <1>2 DEF NewSpanContext
  <1>3. CASE SetRoot(s)
    BY <1>3 DEF SetRoot
  <1>4. CASE CheckSampled(s)
    BY <1>4 DEF CheckSampled
  <1>5. CASE SampleDrop(s)
    BY <1>5 DEF SampleDrop
  <1>6. CASE SampleApply(s)
    BY <1>6 DEF SampleApply
  <1>7. CASE SetTagPriority(s) \/ SetTagError(s)
    BY <1>7 DEF SetTagPriority, SetTagError, Settable
  <1>8. CASE Finish(s)
    BY <1>8 DEF Finish
  <1>9. CASE Keep(s)
    BY <1>9 DEF Keep
  <1> QED BY <1>1, <1>2, <1>3, <1>4, <1>5, <1>6, <1>7, <1>8, <1>9

LEMMA QuietAccount ==
    ASSUME TypeInv, AccountInv, NEW s \in Spans, Quiet(s)
    PROVE  AccountInv'
  <1> USE DEF AccountInv
  <1>1. Open' = Open /\ \A t \in Spans : pc'[t] = "done" <=> pc[t] = "done"
    BY DEF Quiet, Open
  <1>2. BufferInv'
    BY <1>1 DEF BufferInv, Quiet
  <1>3. Acknowledged' = Acknowledged
    BY <1>1 DEF Acknowledged, Quiet, TypeInv, TypeOK
  <1>4. FinishedCount' /\ SpanCounters'
    BY <1>3 DEF FinishedCount, SpanCounters, Quiet
  <1>5. NoStrandedChunk'
    BY <1>1 DEF NoStrandedChunk, Quiet, TypeInv, TypeOK
  <1>6. FlushedOnce'
    BY <1>1 DEF FlushedOnce, Quiet, TypeInv, TypeOK, Chunks
  <1> QED BY <1>2, <1>4, <1>5, <1>6

LEMMA PushAccount ==
    ASSUME TypeInv, AccountInv, NEW s \in Spans, Push(s)
    PROVE  AccountInv'
  <1> USE DEF AccountInv
  <1>0. /\ pc[s] = "push" /\ pc' = [pc EXCEPT ![s] = "sample"]
        /\ s \notin Open /\ Open' = Open \cup {s}
        /\ \A t \in Spans : pc'[t] = "done" <=> pc[t] = "done"
    BY DEF Push, Open, TypeInv, TypeOK
  <1>a. s \notin spans
    BY <1>0 DEF BufferInv
  <1>1. CASE PushFull(s)
    <2>1. UNCHANGED <<spans, first, finished, full, out, tracer, spansStarted, spansFinished>> /\ full
      BY <1>1 DEF PushFull, traceVars, tracerVars
    <2>2. BufferInv' /\ FinishedCount' /\ SpanCounters' /\ NoStrandedChunk'
      BY <1>0, <2>1 DEF BufferInv, FinishedCount, SpanCounters, NoStrandedChunk
    <2>3. FlushedOnce'
      BY <1>0, <2>1 DEF FlushedOnce, TypeInv, TypeOK, Chunks
    <2> QED BY <2>2, <2>3
  <1>2. CASE PushOverflow(s)
    <2>1. BufferInv' /\ FinishedCount' /\ SpanCounters' /\ NoStrandedChunk'
      BY <1>0, <1>2 DEF PushOverflow, BufferInv, FinishedCount, SpanCounters, NoStrandedChunk
    <2>2. FlushedOnce'
      BY <1>0, <1>2 DEF PushOverflow, FlushedOnce, TypeInv, TypeOK, Chunks
    <2> QED BY <2>1, <2>2
  <1>3. CASE PushAppend(s)
    <2>0. /\ ~full /\ spans' = spans \cup {s}
          /\ first' = IF spans = {} THEN s ELSE first
          /\ spansStarted' = IF tracer THEN spansStarted + 1 ELSE spansStarted
          /\ UNCHANGED <<finished, full, out, tracer, spansFinished>>
      BY <1>3 DEF PushAppend
    <2>1. BufferInv'
      BY <1>0, <2>0 DEF BufferInv
    <2>2. Acknowledged' = Acknowledged
      BY <1>0, <2>0 DEF Acknowledged, TypeInv, TypeOK
    <2>3. FinishedCount'
      BY <2>0, <2>2 DEF FinishedCount
    <2>4. NoStrandedChunk'
      BY <1>0, <2>0 DEF NoStrandedChunk
    <2>5. FlushedOnce'
      BY <1>0, <2>0 DEF FlushedOnce, TypeInv, TypeOK, Chunks
    <2>6. Cardinality(spans') = Cardinality(spans) + 1 /\ Cardinality(spans) \in Nat
      BY <1>a, <2>0, BufferFinite, FS_AddElement DEF TypeInv, TypeOK
    <2>7. SpanCounters'
      BY <2>0, <2>6 DEF SpanCounters, TypeInv, TypeOK
    <2> QED BY <2>1, <2>3, <2>4, <2>5, <2>7
  <1> QED BY <1>1, <1>2, <1>3 DEF Push

LEMMA FinishedOneAccount ==
    ASSUME TypeInv, AccountInv, NEW s \in Spans, FinishedOne(s)
    PROVE  AccountInv'
  <1> USE DEF AccountInv
  <1>0. /\ pc[s] = "ack" /\ pc' = [pc EXCEPT ![s] = "done"]
        /\ UNCHANGED <<full, tracer, spansStarted>>
        /\ s \in Open /\ Open' = Open \ {s}
        /\ pc'[s] = "done"
        /\ \A t \in Spans : t # s => pc'[t] = pc[t]
    BY DEF FinishedOne, Open, TypeInv, TypeOK
  <1>1. CASE full /\ UNCHANGED <<spans, first, finished, out, spansFinished>>
    <2>1. BufferInv' /\ FinishedCount' /\ SpanCounters' /\ NoStrandedChunk'
      BY <1>0, <1>1 DEF BufferInv, FinishedCount, SpanCounters, NoStrandedChunk
    <2>2. FlushedOnce'
      BY <1>0, <1>1 DEF FlushedOnce, TypeInv, TypeOK, Chunks
    <2> QED BY <2>1, <2>2
  <1>2. ASSUME ~full
        PROVE  /\ s \in spans
               /\ Acknowledged \cup {s} \subseteq spans
               /\ Cardinality(Acknowledged \cup {s}) = finished + 1
               /\ \A t \in Acknowledged \cup {s} : pc'[t] = "done"
               /\ \A t \in spans : pc'[t] = "done" => t \in Acknowledged \cup {s}
    <2>1. s \in spans /\ s \notin Acknowledged
      BY <1>0, <1>2 DEF BufferInv, Acknowledged
    <2>2. Acknowledged \cup {s} \subseteq spans /\ Acknowledged \in SUBSET Spans
      BY <2>1 DEF Acknowledged, TypeInv, TypeOK
    <2>3. Cardinality(Acknowledged \cup {s}) = finished + 1
      BY <1>2, <2>1, <2>2, BufferFinite, FS_AddElement DEF FinishedCount
    <2>4. /\ \A t \in Acknowledged \cup {s} : pc'[t] = "done"
          /\ \A t \in spans : pc'[t] = "done" => t \in Acknowledged \cup {s}
      BY <1>0, <2>2 DEF Acknowledged
    <2> QED BY <2>1, <2>2, <2>3, <2>4
  <1>3. CASE /\ ~full /\ ~ChunkComplete
             /\ finished' = finished + 1
             /\ UNCHANGED <<spans, first, out, spansFinished>>
    <2>1. Acknowledged' = Acknowledged \cup {s}
      BY <1>2, <1>3 DEF Acknowledged
    <2>2. FinishedCount'
      BY <1>2, <1>3, <2>1 DEF FinishedCount
    <2>3. Acknowledged \cup {s} # spans
      BY <1>2, <1>3 DEF ChunkComplete
    <2>4. NoStrandedChunk'
      BY <1>2, <1>3, <2>3 DEF NoStrandedChunk
    <2>5. BufferInv'
      BY <1>0, <1>3 DEF BufferInv
    <2>6. FlushedOnce'
      BY <1>0, <1>3 DEF FlushedOnce, TypeInv, TypeOK, Chunks
    <2>7. SpanCounters'
      BY <1>0, <1>3 DEF SpanCounters
    <2> QED BY <2>2, <2>4, <2>5, <2>6, <2>7
  <1>4. CASE ~full /\ ChunkComplete /\ FlushChunk
    <2>0. IsFiniteSet(spans) /\ Cardinality(spans) \in Nat
      BY BufferFinite DEF TypeInv, TypeOK
    <2>1. Acknowledged \cup {s} = spans
      BY <1>2, <1>4, <2>0, FS_Subset DEF ChunkComplete
    <2>2. \A t \in spans : pc'[t] = "done"
      BY <1>2, <1>4, <2>1
    <2>3. spans' = {} /\ finished' = 0
      BY <1>4 DEF FlushChunk
    <2>4. BufferInv'
      <3>1. Open' = {}
        BY <1>0, <1>4, <2>2 DEF BufferInv, Open
      <3> QED BY <1>0, <1>4, <2>3, <3>1 DEF BufferInv
    <2>5. Cardinality({}) = 0
      BY FS_EmptySet
    <2>6. FinishedCount' /\ NoStrandedChunk'
      <3>1. Acknowledged' = {}
        BY <2>3 DEF Acknowledged
      <3> QED BY <2>3, <2>5, <3>1 DEF FinishedCount, NoStrandedChunk
    <2>7. SpanCounters'
      BY <1>0, <1>4, <2>0, <2>5 DEF SpanCounters, FlushChunk, TypeInv, TypeOK
    <2>8. FlushedOnce'
      <3> DEFINE chunk == [spans |-> spans, first |-> first, decision |-> decision]
      <3>1. out' \subseteq out \cup {chunk}
        BY <1>4 DEF FlushChunk
      <3>2. chunk.spans = spans
        OBVIOUS
      <3>3. \A c \in out' : \A t \in c.spans : pc'[t] = "done" /\ t \notin spans'
        BY <1>0, <2>2, <2>3, <3>1, <3>2 DEF FlushedOnce, TypeInv, TypeOK, Chunks
      <3>4. \A c \in out' : \A d \in out' \ {c} : c.spans \cap d.spans = {}
        <4> HIDE DEF chunk
        <4>1. \A c \in out : c.spans \cap spans = {}
          BY DEF FlushedOnce
        <4> QED BY <3>1, <3>2, <4>1 DEF FlushedOnce
      <3> QED BY <3>3, <3>4 DEF FlushedOnce
    <2> QED BY <2>4, <2>6, <2>7, <2>8
  <1> QED BY <1>1, <1>3, <1>4 DEF FinishedOne

\* The accounting invariant is inductive.
LEMMA AccountInvariance == Spec => []AccountInv
  <1>1. Init => AccountInv
    BY FS_EmptySet DEF Init, AccountInv, BufferInv, Open, FinishedCount, Acknowledged,
       NoStrandedChunk, FlushedOnce, SpanCounters
  <1>2. TypeInv /\ AccountInv /\ [Next]_vars => AccountInv'
    <2> SUFFICES ASSUME TypeInv, AccountInv, [Next]_vars PROVE AccountInv'
      OBVIOUS
    <2>1. CASE UNCHANGED vars
      BY <2>1 DEF vars, traceVars, spanVars, tracerVars, AccountInv, BufferInv, Open,
         FinishedCount, Acknowledged, NoStrandedChunk, FlushedOnce, SpanCounters
    <2>2. CASE StopTracer
      BY <2>2 DEF StopTracer, traceVars, spanVars, AccountInv, BufferInv, Open,
         FinishedCount, Acknowledged, NoStrandedChunk, FlushedOnce, SpanCounters
    <2>3. ASSUME NEW s \in Spans, SpanStep(s) PROVE AccountInv'
      <3>1. CASE Push(s)
        BY <3>1, PushAccount
      <3>2. CASE FinishedOne(s)
        BY <3>2, FinishedOneAccount
      <3>3. CASE ~Push(s) /\ ~FinishedOne(s)
        BY <2>3, <3>3, QuietStep, QuietAccount DEF SpanStep
      <3> QED BY <3>1, <3>2, <3>3
    <2> QED BY <2>1, <2>2, <2>3 DEF Next
  <1> QED BY <1>1, <1>2, TypeInvariance, PTL DEF Spec

\* The buffer's accounting is right for every number of spans and every buffer
\* size: trace.finished counts the acknowledged spans, no complete chunk is left
\* in the buffer, no span is handed over twice or before it finished, and the
\* health counters add up.
THEOREM Accounting == Spec => []Accounted
  <1>1. AccountInv => Accounted
    BY DEF AccountInv, Accounted
  <1> QED BY <1>1, AccountInvariance, PTL

-----------------------------------------------------------------------------
(* The lock on the sampling priority. *)

\* A locked priority and its decision maker never change: for local and remote
\* traces, whatever samplers, users and stale pushes do.
THEOREM LockIsFinal == Spec => LockedPriorityStable
  <1>1. TypeInv /\ [Next]_vars => [locked => UNCHANGED <<locked, priority, dm>>]_vars
    <2> SUFFICES ASSUME TypeInv, Next, locked PROVE UNCHANGED <<locked, priority, dm>>
      OBVIOUS
    <2>0. ASSUME NEW p, NEW n, SetSamplingPriorityLocked(p, n)
          PROVE  UNCHANGED <<priority, dm>>
      BY <2>0 DEF SetSamplingPriorityLocked, PriorityAfter, DecisionMakerAfter
    <2>1. CASE StopTracer
      BY <2>1 DEF StopTracer, traceVars
    <2>2. ASSUME NEW s \in Spans, SpanStep(s) PROVE UNCHANGED <<locked, priority, dm>>
      <3>1. CASE Push(s)
        BY <2>0, <3>1 DEF Push, PushFull, PushOverflow, PushAppend, traceVars
      <3>2. CASE FinishedOne(s)
        BY <3>2 DEF FinishedOne, LockRoot, TypeInv, TypeOK
      <3>3. CASE SampleApply(s)
        BY <2>0, <3>3 DEF SampleApply, SetSpanPriority
      <3>4. CASE SetTagPriority(s)
        BY <2>0, <3>4 DEF SetTagPriority, SetSpanPriority
      <3>5. CASE \/ \E p \in Spans \cup {Nil} : StartSpan(s, p)
                 \/ NewSpanContext(s) \/ SetRoot(s) \/ CheckSampled(s) \/ SampleDrop(s)
                 \/ SetTagError(s) \/ Finish(s) \/ Keep(s)
        BY <3>5 DEF StartSpan, NewSpanContext, SetRoot, CheckSampled, SampleDrop,
           SetTagError, Finish, Keep, traceVars
      <3> QED BY <2>2, <3>1, <3>2, <3>3, <3>4, <3>5 DEF SpanStep
    <2> QED BY <2>1, <2>2 DEF Next
  <1> QED BY <1>1, TypeInvariance, PTL DEF Spec, LockedPriorityStable

\* What a step of a span may do to another span: nothing.
LEMMA OwnSpanOnly ==
    ASSUME TypeInv, NEW s \in Spans, SpanStep(s), NEW t \in Spans, t # s
    PROVE  pc'[t] = pc[t] /\ metric'[t] = metric[t] /\ dmTag'[t] = dmTag[t]
  <1> USE DEF TypeInv, TypeOK, traceVars, spanVars, tracerVars
  <1>1. CASE \E p \in Spans \cup {Nil} : StartSpan(s, p)
    BY <1>1 DEF StartSpan
  <1>2. CASE NewSpanContext(s) \/ SetRoot(s) \/ CheckSampled(s) \/ SampleDrop(s)
    BY <1>2 DEF NewSpanContext, SetRoot, CheckSampled, SampleDrop
  <1>3. CASE SampleApply(s) \/ SetTagPriority(s)
    BY <1>3 DEF SampleApply, SetTagPriority, SetSpanPriority
  <1>4. CASE SetTagError(s) \/ Finish(s) \/ Keep(s)
    BY <1>4 DEF SetTagError, Finish, Keep
  <1>5. CASE Push(s)
    BY <1>5 DEF Push
  <1>6. CASE FinishedOne(s)
    BY <1>6 DEF FinishedOne, LockRoot, CopyTags
  <1> QED BY <1>1, <1>2, <1>3, <1>4, <1>5, <1>6 DEF SpanStep

\* A local trace has one root, which is set before any other span starts.
LEMMA LocalRootStep ==
    ASSUME ~Remote, TypeInv, LocalRootInv, NEW s \in Spans, SpanStep(s)
    PROVE  LocalRootInv' /\ (root # Nil => root' = root)
  <1> USE DEF TypeInv, TypeOK, traceVars, spanVars, tracerVars, LocalRootInv, Returned
  <1>0. Nil \notin Spans
    BY SpansAssumption
  <1>1. CASE \E p \in Spans \cup {Nil} : StartSpan(s, p)
    BY <1>0, <1>1 DEF StartSpan
  <1>2. CASE NewSpanContext(s)
    BY <1>0, <1>2 DEF NewSpanContext
  <1>3. CASE SetRoot(s)
    BY <1>0, <1>3 DEF SetRoot
  <1>4. CASE CheckSampled(s) \/ SampleDrop(s) \/ SampleApply(s)
    BY <1>0, <1>4 DEF CheckSampled, SampleDrop, SampleApply
  <1>5. CASE SetTagPriority(s) \/ SetTagError(s) \/ Finish(s) \/ Keep(s)
    BY <1>0, <1>5 DEF SetTagPriority, SetTagError, Finish, Keep, Settable
  <1>6. CASE Push(s)
    <2>1. root' = root /\ pc[s] = "push" /\ pc' = [pc EXCEPT ![s] = "sample"]
      BY <1>6 DEF Push, PushFull, PushOverflow, PushAppend
    <2> QED BY <1>0, <2>1
  <1>7. CASE FinishedOne(s)
    <2>1. root' = root /\ pc[s] = "ack" /\ pc' = [pc EXCEPT ![s] = "done"]
      BY <1>7 DEF FinishedOne
    <2> QED BY <1>0, <2>1
  <1> QED BY <1>1, <1>2, <1>3, <1>4, <1>5, <1>6, <1>7 DEF SpanStep

\* Only the root's finishedOne locks the priority.
LEMMA LockStep ==
    ASSUME TypeInv, NEW s \in Spans, SpanStep(s)
    PROVE  \/ locked' = locked
           \/ /\ FinishedOne(s) /\ ~full /\ s = root /\ locked'
              /\ priority # Nil /\ metric' = [metric EXCEPT ![s] = priority]
              /\ priority' = priority /\ root' = root /\ dm' = dm
  <1> USE DEF traceVars
  <1>1. CASE FinishedOne(s)
    BY <1>1 DEF FinishedOne, LockRoot
  <1>2. CASE ~FinishedOne(s)
    BY <1>2 DEF SpanStep, StartSpan, NewSpanContext, SetRoot, CheckSampled, SampleDrop,
       SampleApply, SetTagPriority, SetTagError, Finish, Keep, Push, PushFull,
       PushOverflow, PushAppend
  <1> QED BY <1>1, <1>2

\* A span that is done takes no step.
LEMMA DoneIsFinal ==
    ASSUME TypeInv, NEW s \in Spans, SpanStep(s)
    PROVE  pc[s] # "done"
  BY DEF SpanStep, StartSpan, NewSpanContext, SetRoot, CheckSampled, SampleDrop,
     SampleApply, SetTagPriority, SetTagError, Settable, Finish, Keep, Push, FinishedOne

LEMMA RootLockStep ==
    ASSUME ~Remote, TypeInv, LocalRootInv, RootLockInv, NEW s \in Spans, SpanStep(s),
           locked => UNCHANGED <<locked, priority, dm>>
    PROVE  RootLockInv'
  <1>0. root \in Spans \cup {Nil} /\ Nil \notin Spans
    BY SpansAssumption DEF TypeInv, TypeOK
  <1>1. CASE locked
    <2>1. root \in Spans /\ s # root /\ root' = root
      BY <1>0, <1>1, DoneIsFinal, LocalRootStep DEF RootLockInv
    <2>2. pc'[root] = pc[root] /\ metric'[root] = metric[root]
      BY <2>1, OwnSpanOnly
    <2> QED BY <1>1, <2>1, <2>2 DEF RootLockInv
  <1>2. CASE ~locked /\ locked'
    <2>1. /\ FinishedOne(s) /\ s = root /\ priority # Nil
          /\ metric' = [metric EXCEPT ![s] = priority]
          /\ priority' = priority /\ root' = root
      BY <1>2, LockStep
    <2>2. pc'[s] = "done" /\ metric'[s] = priority
      BY <2>1 DEF FinishedOne, TypeInv, TypeOK
    <2> QED BY <1>0, <2>1, <2>2 DEF RootLockInv
  <1>3. CASE ~locked'
    BY <1>3 DEF RootLockInv
  <1> QED BY <1>1, <1>2, <1>3 DEF TypeInv, TypeOK

\* The root and the lock of a local trace.
LEMMA RootLockInvariance ==
    ASSUME ~Remote
    PROVE  Spec => [](LocalRootInv /\ RootLockInv)
  <1>1. Init => LocalRootInv /\ RootLockInv
    BY DEF Init, LocalRootInv, RootLockInv
  <1>2. /\ TypeInv /\ LocalRootInv /\ RootLockInv /\ [Next]_vars
        /\ [locked => UNCHANGED <<locked, priority, dm>>]_vars
        => (LocalRootInv /\ RootLockInv)'
    <2> SUFFICES ASSUME TypeInv, LocalRootInv, RootLockInv, [Next]_vars,
                        [locked => UNCHANGED <<locked, priority, dm>>]_vars
                 PROVE  (LocalRootInv /\ RootLockInv)'
      OBVIOUS
    <2> USE DEF vars, traceVars, spanVars, tracerVars
    <2>1. CASE UNCHANGED vars
      BY <2>1 DEF LocalRootInv, RootLockInv, Returned
    <2>2. CASE StopTracer
      BY <2>2 DEF StopTracer, LocalRootInv, RootLockInv, Returned
    <2>3. ASSUME NEW s \in Spans, SpanStep(s), ~UNCHANGED vars
          PROVE  (LocalRootInv /\ RootLockInv)'
      BY <2>3, LocalRootStep, RootLockStep
    <2> QED BY <2>1, <2>2, <2>3 DEF Next
  <1> QED BY <1>1, <1>2, TypeInvariance, LockIsFinal, PTL DEF Spec, LockedPriorityStable

\* In a local trace the priority is locked by its root, which has finished and
\* carries the locked value.
THEOREM RootHoldsLock ==
    ASSUME ~Remote
    PROVE  Spec => []LockedByRoot
  <1>1. TypeInv /\ RootLockInv => LockedByRoot
    BY DEF TypeInv, TypeOK, RootLockInv, LockedByRoot, Finished
  <1> QED BY <1>1, TypeInvariance, RootLockInvariance, PTL

-----------------------------------------------------------------------------
(* The decision maker that the chunks report. *)

\* Steps of a span outside push and finishedOne leave chunks and tags alone.
LEMMA QuietTags ==
    ASSUME TypeInv, NEW s \in Spans, SpanStep(s), ~Push(s), ~FinishedOne(s)
    PROVE  Quiet(s) /\ dmTag' = dmTag /\ locked' = locked
  <1>1. Quiet(s)
    BY QuietStep DEF SpanStep
  <1>2. dmTag' = dmTag
    BY DEF SpanStep, StartSpan, NewSpanContext, SetRoot, CheckSampled, SampleDrop,
       SampleApply, SetTagPriority, SetTagError, Finish, Keep, spanVars
  <1>3. locked' = locked
    BY LockStep
  <1> QED BY <1>1, <1>2, <1>3

LEMMA ChunkTagStep ==
    ASSUME ~Remote, TypeInv, AccountInv, LocalRootInv, RootLockInv, ChunkTagInv,
           NEW s \in Spans, SpanStep(s),
           locked => UNCHANGED <<locked, priority, dm>>
    PROVE  ChunkTagInv'
  <1> USE DEF ChunkTagInv
  <1>0. /\ root \in Spans \cup {Nil} /\ Nil \notin Spans
        /\ root # Nil => root' = root
        /\ LocalRootInv'
    BY SpansAssumption, LocalRootStep DEF TypeInv, TypeOK
  <1>a. \A t \in Spans : t # s => pc'[t] = pc[t] /\ dmTag'[t] = dmTag[t]
    BY OwnSpanOnly
  <1>b. pc[s] # "done" /\ dmTag[s] = Nil
    BY DoneIsFinal
  <1>c. \A c \in out : c.first \in Spans /\ pc[c.first] = "done" /\ c.first # s
    BY <1>b DEF AccountInv, FlushedOnce, TypeInv, TypeOK, Chunks
  <1>1. CASE ~Push(s) /\ ~FinishedOne(s)
    <2>0. \/ \E p \in Spans \cup {Nil} : StartSpan(s, p)
          \/ NewSpanContext(s) \/ SetRoot(s)
          \/ CheckSampled(s) \/ SampleDrop(s) \/ SampleApply(s)
          \/ SetTagPriority(s) \/ SetTagError(s) \/ Finish(s) \/ Keep(s)
      BY <1>1 DEF SpanStep
    <2>1. Quiet(s) /\ dmTag' = dmTag /\ locked' = locked
      BY <1>1, QuietTags
    <2>2. \A t \in Spans : pc'[t] = "done" <=> pc[t] = "done"
      BY <2>1 DEF Quiet
    <2>3. root' \in Spans \cup {Nil}
      BY <2>0, StartTyped, TagTyped DEF TypeInv, TypeOK
    <2>4. spans # {} => first \in Spans
      BY DEF TypeInv, TypeOK
    <2> QED BY <1>0, <2>1, <2>2, <2>3, <2>4 DEF Quiet
  <1>2. CASE Push(s)
    <2>0. /\ pc[s] = "push" /\ pc' = [pc EXCEPT ![s] = "sample"]
          /\ dmTag' = dmTag /\ root' = root /\ locked' = locked /\ out' = out
      BY <1>2 DEF Push, PushFull, PushOverflow, PushAppend, traceVars, tracerVars
    <2>1. root # Nil /\ \A t \in Spans : pc'[t] = "done" <=> pc[t] = "done"
      BY <2>0 DEF LocalRootInv, TypeInv, TypeOK
    <2>2. CASE spans' = spans /\ first' = first
      BY <2>0, <2>1, <2>2 DEF TypeInv, TypeOK
    <2>3. CASE spans' = {}
      BY <2>0, <2>1, <2>3
    <2>4. CASE ~full /\ spans' = spans \cup {s} /\ first' = IF spans = {} THEN s ELSE first
      <3>1. CASE spans = {}
        <4>1. first' = s /\ pc'[s] # "done"
          BY <2>0, <2>4, <3>1 DEF TypeInv, TypeOK
        <4>2. pc[root] # "done" => root = s
          BY <1>0, <2>0, <2>1, <2>4, <3>1
             DEF AccountInv, BufferInv, Open, LocalRootInv, Returned, TypeInv, TypeOK, PCs
        <4> QED BY <2>0, <2>1, <2>4, <4>1, <4>2 DEF TypeInv, TypeOK
      <3>2. CASE spans # {}
        <4>1. first' = first /\ first \in Spans
          BY <2>4, <3>2 DEF TypeInv, TypeOK
        <4> QED BY <2>0, <2>1, <2>4, <3>2, <4>1
      <3> QED BY <3>1, <3>2
    <2> QED BY <1>2, <2>2, <2>3, <2>4 DEF Push, PushFull, PushOverflow, PushAppend, traceVars
  <1>3. CASE FinishedOne(s)
    <2>0. /\ pc[s] = "ack" /\ pc' = [pc EXCEPT ![s] = "done"] /\ pc'[s] = "done"
          /\ root' = root /\ dm' = dm /\ full' = full
      BY <1>3 DEF FinishedOne, TypeInv, TypeOK
    <2>1. root # Nil /\ root \in Spans
      BY <1>0, <2>0 DEF LocalRootInv
    <2>2. CASE full /\ UNCHANGED <<spans, first, finished, locked, metric, dmTag, out, spansFinished>>
      <3>1. spans = {}
        BY <2>2 DEF AccountInv, BufferInv
      <3> QED BY <1>a, <2>0, <2>1, <2>2, <3>1
    <2>3. ASSUME ~full, CopyTags(s)
          PROVE  /\ s \in spans /\ first \in spans
                 /\ s = root => first = s
                 /\ s = first => dmTag'[s] = dm
                 /\ \A c \in out : dmTag'[c.first] = dmTag[c.first]
      <3>1. s \in spans /\ first \in spans
        BY <2>0, <2>3 DEF AccountInv, BufferInv, Open
      <3>2. s = root => first = s
        BY <2>0, <2>1, <3>1
      <3>3. s = first => dmTag'[s] = dm
        BY <1>b, <2>3 DEF CopyTags, TypeInv, TypeOK
      <3>4. \A c \in out : dmTag'[c.first] = dmTag[c.first]
        BY <1>a, <1>c
      <3> QED BY <3>1, <3>2, <3>3, <3>4
    <2>4. ASSUME ~full, CopyTags(s), locked', pc'[first] = "done"
          PROVE  dmTag'[first] = dm
      <3>1. CASE s = first
        BY <2>3, <2>4, <3>1
      <3>2. CASE s # first
        <4>1. locked
          BY <2>3, <2>4, <3>2, LockStep
        <4>2. first \in spans /\ pc[first] = "done" /\ dmTag'[first] = dmTag[first]
          BY <1>a, <2>3, <2>4, <3>2 DEF TypeInv, TypeOK
        <4> QED BY <4>1, <4>2
      <3> QED BY <3>1, <3>2
    <2>5. ASSUME ~full, CopyTags(s), locked'
          PROVE  \A c \in out : dmTag'[c.first] = dm
      <3>1. CASE locked
        BY <2>3, <2>5, <3>1
      <3>2. CASE ~locked
        <4>1. s = root
          BY <2>5, <3>2, LockStep
        <4>2. out = {}
          BY <2>0, <2>1, <4>1
        <4> QED BY <4>2
      <3> QED BY <3>1, <3>2
    <2>6. CASE /\ ~full /\ CopyTags(s)
               /\ UNCHANGED <<spans, first, out>>
      <3>1. \A t \in Spans : pc'[t] # "done" => dmTag'[t] = Nil
        BY <1>a, <2>0
      <3>2. pc'[root] # "done" => pc[root] # "done"
        BY <1>a, <2>0, <2>1
      <3> QED BY <2>0, <2>1, <2>4, <2>5, <2>6, <3>1, <3>2
    <2>7. CASE ~full /\ ChunkComplete /\ CopyTags(s) /\ FlushChunk
      <3>1. \A t \in Spans : pc'[t] # "done" => dmTag'[t] = Nil
        BY <1>a, <2>0
      <3>2. spans' = {} /\ out' \subseteq out \cup {[spans |-> spans, first |-> first, decision |-> decision]}
        BY <2>7 DEF FlushChunk
      <3>3. AccountInv'
        BY <1>3, FinishedOneAccount
      <3>4. pc'[root] = "done"
        <4>1. SUFFICES ASSUME pc'[root] # "done" PROVE FALSE
          OBVIOUS
        <4>2. root # s /\ pc[root] # "done" /\ pc'[root] = pc[root]
          BY <1>a, <2>0, <2>1, <4>1
        <4>3. root \in Returned
          BY <2>0, <2>1, <4>2 DEF LocalRootInv
        <4>4. root \in Open'
          BY <2>1, <4>2, <4>3 DEF Returned, Open
        <4> QED BY <2>0, <2>7, <3>2, <3>3, <4>4 DEF AccountInv, BufferInv
      <3>5. \A t \in spans : pc'[t] = "done"
        <4>1. ~full' /\ Open' = {}
          BY <2>0, <2>7, <3>2, <3>3 DEF AccountInv, BufferInv
        <4>2. \A t \in spans : t \in Spans /\ (pc'[t] \in {"sample", "apply", "live", "keep", "ack"} \/ pc'[t] = "done")
          BY <1>a, <2>0 DEF AccountInv, BufferInv, Open, TypeInv, TypeOK
        <4> QED BY <4>1, <4>2 DEF Open
      <3>6. locked' => dmTag'[first] = dm
        BY <2>3, <2>4, <2>7, <3>5
      <3>7. \A c \in out' : c.first \in c.spans /\ (locked' => dmTag'[c.first] = dm)
        BY <2>3, <2>5, <2>7, <3>2, <3>6
      <3> QED BY <2>0, <2>1, <3>1, <3>2, <3>4, <3>7
    <2> QED BY <1>3, <2>2, <2>6, <2>7 DEF FinishedOne
  <1> QED BY <1>1, <1>2, <1>3

\* Once a local trace's priority is locked, every chunk it sent or will send
\* reports the decision maker that is propagated to other services.
THEOREM ChunksReportDecisionMaker ==
    ASSUME ~Remote
    PROVE  Spec => []ChunkDecisionMaker
  <1>1. Init => ChunkTagInv
    BY DEF Init, ChunkTagInv
  <1>2. /\ TypeInv /\ AccountInv /\ LocalRootInv /\ RootLockInv /\ ChunkTagInv /\ [Next]_vars
        /\ [locked => UNCHANGED <<locked, priority, dm>>]_vars
        => ChunkTagInv'
    <2> SUFFICES ASSUME TypeInv, AccountInv, LocalRootInv, RootLockInv, ChunkTagInv, [Next]_vars,
                        [locked => UNCHANGED <<locked, priority, dm>>]_vars
                 PROVE  ChunkTagInv'
      OBVIOUS
    <2> USE DEF vars, traceVars, spanVars, tracerVars
    <2>1. CASE UNCHANGED vars
      BY <2>1 DEF ChunkTagInv
    <2>2. CASE StopTracer
      BY <2>2 DEF StopTracer, ChunkTagInv
    <2>3. ASSUME NEW s \in Spans, SpanStep(s), ~UNCHANGED vars PROVE ChunkTagInv'
      BY <2>3, ChunkTagStep
    <2> QED BY <2>1, <2>2, <2>3 DEF Next
  <1>3. ChunkTagInv => ChunkDecisionMaker
    BY DEF ChunkTagInv, ChunkDecisionMaker
  <1> QED BY <1>1, <1>2, <1>3, TypeInvariance, AccountInvariance, RootLockInvariance,
          LockIsFinal, PTL DEF Spec, LockedPriorityStable

-----------------------------------------------------------------------------
(* The decision on a chunk. *)

\* The decision is made once: trace.keep and trace.drop are compare-and-swaps.
LEMMA DecisionFinal ==
    ASSUME TypeInv, NEW s \in Spans, SpanStep(s), decision # "none"
    PROVE  decision' = decision
  BY DEF SpanStep, StartSpan, NewSpanContext, SetRoot, CheckSampled, SampleDrop,
     SampleApply, SetTagPriority, SetTagError, Finish, Keep, Push, PushFull,
     PushOverflow, PushAppend, FinishedOne, traceVars

\* Only SetTag(ext.Error) on an unfinished span changes a span's error.
LEMMA ErrorStep ==
    ASSUME TypeInv, NEW s \in Spans, SpanStep(s), NEW t \in Spans, t \in Settled
    PROVE  error'[t] = error[t]
  <1>1. CASE SetTagError(s)
    <2>1. s # t
      BY <1>1 DEF SetTagError, Settable, Settled
    <2> QED BY <1>1, <2>1 DEF SetTagError, TypeInv, TypeOK
  <1>2. CASE ~SetTagError(s)
    BY <1>2 DEF SpanStep, StartSpan, NewSpanContext, SetRoot, CheckSampled, SampleDrop,
       SampleApply, SetTagPriority, Finish, Keep, Push, FinishedOne
  <1> QED BY <1>1, <1>2

\* The step that settles a span: Finish of a span that need not keep its trace,
\* or trace.keep().
LEMMA SettleStep ==
    ASSUME TypeInv, NEW s \in Spans, SpanStep(s), s \notin Settled, s \in Settled'
    PROVE  (error'[s] = 1 \/ ~DropP0s) => decision' # "none"
  <1>1. CASE Finish(s)
    <2>1. DropP0s /\ errors[s] = 0 /\ error' = error
      BY <1>1 DEF Finish, ShouldKeep, Settled, TypeInv, TypeOK, PCs
    <2>2. error[s] = 0
      BY <2>1 DEF TypeInv, ErrorsInv, TypeOK
    <2> QED BY <2>1, <2>2
  <1>2. CASE Keep(s)
    BY <1>2 DEF Keep
  <1>3. CASE ~Finish(s) /\ ~Keep(s)
    BY <1>3 DEF SpanStep, StartSpan, NewSpanContext, SetRoot, CheckSampled, SampleDrop,
       SampleApply, SetTagPriority, SetTagError, Settable, Push, FinishedOne, Settled,
       TypeInv, TypeOK, PCs, spanVars
  <1> QED BY <1>1, <1>2, <1>3

LEMMA KeepStep ==
    ASSUME TypeInv, KeepInv, NEW s \in Spans, SpanStep(s)
    PROVE  KeepInv'
  <1> SUFFICES ASSUME NEW t \in Spans, t \in Settled', error'[t] = 1 \/ ~DropP0s
               PROVE  decision' # "none"
    BY DEF KeepInv, Settled
  <1>1. CASE t \in Settled
    <2>1. decision # "none"
      BY <1>1, ErrorStep DEF KeepInv
    <2> QED BY <2>1, DecisionFinal
  <1>2. CASE t \notin Settled
    <2>1. t = s
      BY <1>2, OwnSpanOnly DEF Settled
    <2> QED BY <1>2, <2>1, SettleStep
  <1> QED BY <1>1, <1>2

\* What a step adds to the chunks: at most the buffer, with the decision of that
\* moment, when all of its spans are settled.
LEMMA NewChunk ==
    ASSUME TypeInv, AccountInv, NEW s \in Spans, SpanStep(s), NEW c \in out', c \notin out
    PROVE  c.decision = decision /\ c.spans \subseteq Settled /\ c.spans # {}
  <1>1. FinishedOne(s)
    <2>1. CASE Push(s)
      BY <2>1 DEF Push, PushFull, PushOverflow, PushAppend, tracerVars
    <2>2. CASE ~Push(s) /\ ~FinishedOne(s)
      BY <2>2, QuietTags DEF Quiet
    <2> QED BY <2>1, <2>2
  <1>2. /\ ChunkComplete /\ FlushChunk /\ pc' = [pc EXCEPT ![s] = "done"] /\ pc[s] = "ack"
        /\ c = [spans |-> spans, first |-> first, decision |-> decision]
    BY <1>1 DEF FinishedOne, FlushChunk
  <1>3. AccountInv'
    BY <1>1, FinishedOneAccount
  <1>4. \A t \in c.spans : t \in Spans /\ pc'[t] = "done"
    BY <1>2, <1>3 DEF AccountInv, FlushedOnce, TypeInv, TypeOK
  <1>5. c.spans \subseteq Settled
    BY <1>2, <1>4 DEF Settled, TypeInv, TypeOK
  <1>6. c.spans # {}
    BY <1>2, CompleteNonEmpty DEF TypeInv
  <1> QED BY <1>2, <1>5, <1>6

\* A chunk's spans stay as they were when it left.
LEMMA OldChunk ==
    ASSUME TypeInv, AccountInv, NEW s \in Spans, SpanStep(s), NEW c \in out
    PROVE  \A t \in c.spans : t \in Spans /\ error'[t] = error[t]
  <1>1. \A t \in c.spans : t \in Spans /\ t \in Settled
    BY DEF AccountInv, FlushedOnce, TypeInv, TypeOK, Chunks, Settled
  <1> QED BY <1>1, ErrorStep

\* What every chunk's decision owes to its spans.
DecidedInv == KeepInv /\ ErrorChunkDecided /\ (~DropP0s => ChunkDecided)

LEMMA DecidedStep ==
    ASSUME TypeInv, AccountInv, DecidedInv, NEW s \in Spans, SpanStep(s)
    PROVE  DecidedInv'
  <1>1. KeepInv'
    BY KeepStep DEF DecidedInv
  <1>2. ASSUME NEW c \in out', c \notin out
        PROVE  /\ (\E t \in c.spans : error'[t] = 1) => c.decision # "none"
               /\ ~DropP0s => c.decision # "none"
    <2>1. c.decision = decision /\ c.spans \subseteq Settled /\ c.spans # {}
      BY <1>2, NewChunk
    <2>2. \A t \in c.spans : error'[t] = error[t]
      BY <2>1, ErrorStep DEF Settled
    <2> QED BY <2>1, <2>2 DEF DecidedInv, KeepInv
  <1>3. ASSUME NEW c \in out', c \in out
        PROVE  /\ (\E t \in c.spans : error'[t] = 1) => c.decision # "none"
               /\ ~DropP0s => c.decision # "none"
    <2>1. \A t \in c.spans : error'[t] = error[t]
      BY <1>3, OldChunk
    <2> QED BY <1>3, <2>1 DEF DecidedInv, ErrorChunkDecided, ChunkDecided
  <1>4. ErrorChunkDecided'
    BY <1>2, <1>3 DEF ErrorChunkDecided
  <1>5. (~DropP0s => ChunkDecided)'
    BY <1>2, <1>3 DEF ChunkDecided
  <1> QED BY <1>1, <1>4, <1>5 DEF DecidedInv

LEMMA DecidedInvariance == Spec => []DecidedInv
  <1>1. Init => DecidedInv
    BY DEF Init, DecidedInv, KeepInv, Settled, ErrorChunkDecided, ChunkDecided
  <1>2. TypeInv /\ AccountInv /\ DecidedInv /\ [Next]_vars => DecidedInv'
    <2> SUFFICES ASSUME TypeInv, AccountInv, DecidedInv, [Next]_vars PROVE DecidedInv'
      OBVIOUS
    <2>1. CASE UNCHANGED vars \/ StopTracer
      BY <2>1 DEF StopTracer, vars, traceVars, spanVars, tracerVars, DecidedInv, KeepInv,
         Settled, ErrorChunkDecided, ChunkDecided
    <2>2. ASSUME NEW s \in Spans, SpanStep(s) PROVE DecidedInv'
      BY <2>2, DecidedStep
    <2> QED BY <2>1, <2>2 DEF Next
  <1> QED BY <1>1, <1>2, TypeInvariance, AccountInvariance, PTL DEF Spec

\* A chunk with an error in any of its spans never leaves undecided, however the
\* finishes, the tags and the sampler's rejections interleave: trace.keep() ran for
\* the erroneous span before the chunk was complete.
THEOREM ErrorsDecide == Spec => []ErrorChunkDecided
  <1>1. DecidedInv => ErrorChunkDecided
    BY DEF DecidedInv
  <1> QED BY <1>1, DecidedInvariance, PTL

\* When the client may not drop P0s, no chunk at all leaves undecided.
THEOREM AllChunksDecided ==
    ASSUME ~DropP0s
    PROVE  Spec => []ChunkDecided
  <1>1. DecidedInv => ChunkDecided
    BY DEF DecidedInv
  <1> QED BY <1>1, DecidedInvariance, PTL

-----------------------------------------------------------------------------
(* The decision maker and the priority. *)

\* setSamplingPriorityLocked removes the decision maker with the positive priority.
LEMMA SetPriorityPositive ==
    ASSUME TypeInv, DecisionMakerPositive, NEW p \in Priorities,
           NEW n \in Samplers \cup {"unknown"}, SetSamplingPriorityLocked(p, n)
    PROVE  DecisionMakerPositive'
  <1>0. p \in Int /\ (p <= 0 \/ p > 0) /\ p # Nil
    BY PriorityAssumption DEF Priorities
  <1>1. CASE locked
    BY <1>1 DEF SetSamplingPriorityLocked, PriorityAfter, DecisionMakerAfter,
       DecisionMakerPositive
  <1>2. CASE ~locked /\ p <= 0
    <2>1. DecisionMakerAfter(p, n) = Nil
      BY <1>0, <1>2 DEF DecisionMakerAfter
    <2>2. dm' = Nil
      BY <2>1 DEF SetSamplingPriorityLocked
    <2> QED BY <2>2 DEF DecisionMakerPositive
  <1>3. CASE ~locked /\ p > 0
    BY <1>0, <1>3 DEF SetSamplingPriorityLocked, PriorityAfter, DecisionMakerPositive
  <1> QED BY <1>0, <1>1, <1>2, <1>3 DEF TypeInv, TypeOK

\* In a local trace a decision maker is propagated only with a positive priority,
\* whatever order samplers, users and pushes of stale priorities came in.
THEOREM DecisionMakerIsPositive ==
    ASSUME ~Remote
    PROVE  Spec => []DecisionMakerPositive
  <1>1. Init => DecisionMakerPositive
    BY DEF Init, DecisionMakerPositive
  <1>2. TypeInv /\ DecisionMakerPositive /\ [Next]_vars => DecisionMakerPositive'
    <2> SUFFICES ASSUME TypeInv, DecisionMakerPositive, [Next]_vars
                 PROVE  DecisionMakerPositive'
      OBVIOUS
    <2>1. CASE UNCHANGED <<priority, dm>>
      BY <2>1 DEF DecisionMakerPositive
    <2>2. ASSUME NEW s \in Spans, PushAppend(s), metric[s] # Nil
          PROVE  DecisionMakerPositive'
      <3>1. metric[s] \in Priorities
        BY <2>2 DEF TypeInv, TypeOK
      <3> QED BY <2>2, <3>1, SetPriorityPositive DEF PushAppend
    <2>3. ASSUME NEW s \in Spans, SampleApply(s)
          PROVE  DecisionMakerPositive'
      <3>1. PICK p \in SamplerPriorities : SetSamplingPriorityLocked(p, "rate")
        BY <2>3 DEF SampleApply, SetSpanPriority
      <3>2. p \in Priorities
        BY <3>1, PriorityAssumption
      <3> QED BY <3>1, <3>2, SetPriorityPositive DEF Samplers
    <2>4. ASSUME NEW s \in Spans, SetTagPriority(s)
          PROVE  DecisionMakerPositive'
      <3>1. PICK p \in ManualPriorities : SetSamplingPriorityLocked(p, "manual")
        BY <2>4 DEF SetTagPriority, SetSpanPriority
      <3>2. p \in Priorities
        BY <3>1, PriorityAssumption
      <3> QED BY <3>1, <3>2, SetPriorityPositive DEF Samplers
    <2>5. ASSUME NEW s \in Spans, SpanStep(s), ~SampleApply(s), ~SetTagPriority(s)
          PROVE  \/ UNCHANGED <<priority, dm>>
                 \/ PushAppend(s) /\ metric[s] # Nil
      BY <2>5 DEF SpanStep, StartSpan, NewSpanContext, SetRoot, CheckSampled, SampleDrop,
         SetTagError, Finish, Keep, Push, PushFull, PushOverflow, PushAppend, FinishedOne,
         traceVars
    <2>6. CASE UNCHANGED vars \/ StopTracer
      BY <2>1, <2>6 DEF StopTracer, vars, traceVars
    <2> QED BY <2>1, <2>2, <2>3, <2>4, <2>5, <2>6 DEF Next
  <1> QED BY <1>1, <1>2, TypeInvariance, PTL DEF Spec

=============================================================================

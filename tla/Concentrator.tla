---------------------------- MODULE Concentrator ----------------------------
(***************************************************************************)
(* The concentrator of client-computed stats (ddtrace/tracer/stats.go):    *)
(* finishing spans are sent into a bounded channel, the ingester puts them *)
(* into time buckets, the flusher exports the buckets that are over at     *)
(* every tick, and Stop drains and exports what is left.                   *)
(*                                                                         *)
(* The statistics of a bucket are abstracted to the set of spans it has    *)
(* handled.  Time is counted in units; a ticker's channel holds one tick,  *)
(* and a tick that finds it occupied is dropped (time.Ticker).             *)
(***************************************************************************)
EXTENDS Integers, FiniteSets

CONSTANTS
    Spans,          \* the spans that finish during the run
    Nil,            \* no span
    InSize,         \* the capacity of concentrator.In
    BucketSize,     \* concentrator.bucketSize
    MaxTime,        \* bound on the clock
    EndTimes        \* Start+Duration of a span: WithFinishTime allows any

ASSUME SpansAssumption == IsFiniteSet(Spans) /\ Nil \notin Spans
ASSUME SizeAssumption == InSize \in Nat \ {0} /\ BucketSize \in Nat \ {0}
ASSUME TimeAssumption == MaxTime \in Nat /\ EndTimes \subseteq Nat

VARIABLES
    clock,          \* the time now
    tick,           \* what the ticker's channel holds: a time, or -1
    phase,          \* the time at which Start created the ticker
    global,         \* the concentrator's tracer is the global one
    produce,        \* produce[s]: how far span.finish has come with s
    end,            \* end[s]: Start+Duration of s
    in,             \* concentrator.In
    disregarded,    \* spans that found the channel full, or no tracer
    closed,         \* close(c.stop) happened
    ingester,       \* the ingester's loop: "select", "add" or "exited"
    holding,        \* the span it received
    buckets,        \* concentrator.buckets: the spans of each bucket
    flusher,        \* the flusher's loop: "select", "send" or "exited"
    sending,        \* the buckets of the payload being sent
    stopper,        \* how far the call of Stop has come
    sent,           \* the buckets the agent accepted
    failed,         \* the buckets of failed requests
    addedAt,        \* history: when s was added to its bucket
    early           \* history: spans in the channel or beyond when Stop began

timeVars    == <<clock, tick, phase>>
spanVars    == <<produce, end, disregarded>>
ingestVars  == <<ingester, holding>>
sendVars    == <<flusher, sending, sent, failed>>
stopVars    == <<global, closed, stopper, early>>
vars == <<timeVars, spanVars, in, ingestVars, buckets, addedAt, sendVars, stopVars>>

Times == 0 .. MaxTime

alignTs(ts) == ts - (ts % BucketSize)

BucketTimes == {alignTs(t) : t \in EndTimes}

\* A statsBucket, abstracted to its start and the spans in its counts.
Exports == [start : BucketTimes, spans : SUBSET Spans]

TypeOK ==
    /\ clock \in Times /\ phase \in Times /\ tick \in Times \cup {-1}
    /\ global \in BOOLEAN /\ closed \in BOOLEAN
    /\ produce \in [Spans -> {"new", "send", "done"}]
    /\ end \in [Spans -> EndTimes]
    /\ in \subseteq Spans /\ Cardinality(in) <= InSize
    /\ disregarded \subseteq Spans
    /\ ingester \in {"select", "add", "exited"} /\ holding \in Spans \cup {Nil}
    /\ buckets \in [BucketTimes -> SUBSET Spans]
    /\ flusher \in {"select", "send", "exited"}
    /\ stopper \in {"running", "swapped", "wait", "drain", "send", "returned"}
    /\ sending \subseteq Exports /\ sent \subseteq Exports /\ failed \subseteq Exports
    /\ addedAt \in [Spans -> Times] /\ early \subseteq Spans

\* Start made the channels, the ticker and the goroutines before any span
\* could find the tracer.
Init ==
    /\ phase \in Times /\ phase < BucketSize
    /\ clock = phase /\ tick = -1
    /\ global = TRUE /\ closed = FALSE
    /\ produce = [s \in Spans |-> "new"]
    /\ end \in [Spans -> EndTimes]
    /\ in = {} /\ disregarded = {}
    /\ ingester = "select" /\ holding = Nil
    /\ buckets = [b \in BucketTimes |-> {}]
    /\ flusher = "select" /\ sending = {} /\ sent = {} /\ failed = {}
    /\ stopper = "running" /\ early = {}
    /\ addedAt = [s \in Spans |-> 0]

-----------------------------------------------------------------------------
\* Time passes; every BucketSize units the ticker offers the time.
Pass ==
    /\ clock < MaxTime
    /\ clock' = clock + 1
    /\ tick' = IF (clock' - phase) % BucketSize = 0 /\ tick = -1 THEN clock' ELSE tick
    /\ UNCHANGED <<phase, spanVars, in, ingestVars, buckets, addedAt, sendVars, stopVars>>

-----------------------------------------------------------------------------
(* span.finish, by any goroutine. *)

FindTracer(s) ==
    /\ produce[s] = "new"
    /\ produce' = [produce EXCEPT ![s] = IF global THEN "send" ELSE "done"]
    /\ disregarded' = IF global THEN disregarded ELSE disregarded \cup {s}
    /\ UNCHANGED <<timeVars, end, in, ingestVars, buckets, addedAt, sendVars, stopVars>>

\* A send on In that never blocks.
SendIn(s) ==
    /\ produce[s] = "send"
    /\ produce' = [produce EXCEPT ![s] = "done"]
    /\ IF Cardinality(in) < InSize
       THEN in' = in \cup {s} /\ UNCHANGED disregarded
       ELSE disregarded' = disregarded \cup {s} /\ UNCHANGED in
    /\ UNCHANGED <<timeVars, end, ingestVars, buckets, addedAt, sendVars, stopVars>>

-----------------------------------------------------------------------------
(* runIngester. *)

add(s) ==
    /\ buckets' = [buckets EXCEPT ![alignTs(end[s])] = @ \cup {s}]
    /\ addedAt' = [addedAt EXCEPT ![s] = clock]

Ingest(s) ==
    /\ ingester = "select" /\ s \in in
    /\ in' = in \ {s}
    /\ ingester' = "add" /\ holding' = s
    /\ UNCHANGED <<timeVars, spanVars, buckets, addedAt, sendVars, stopVars>>

IngestAdd ==
    /\ ingester = "add"
    /\ add(holding)
    /\ ingester' = "select" /\ holding' = Nil
    /\ UNCHANGED <<timeVars, spanVars, in, sendVars, stopVars>>

IngestExit ==
    /\ ingester = "select" /\ closed
    /\ ingester' = "exited"
    /\ UNCHANGED <<timeVars, spanVars, in, holding, buckets, addedAt, sendVars, stopVars>>

-----------------------------------------------------------------------------
(* flushAndSend. *)

\* Mutant: the bucket that began less than a bucket size ago is flushed too.
MutOver(b, now) == b <= now

\* The bucket that starts at b is not the current one at time now.
Over(b, now) == b <= now - BucketSize

\* Mutant: exported buckets are not deleted.
MutTakeBuckets(S) ==
    LET full == {b \in S : buckets[b] # {}}
    IN  /\ sending' = {[start |-> b, spans |-> buckets[b]] : b \in full}
        /\ UNCHANGED buckets

\* Under c.mu: export and delete the buckets that start at a time of S.
TakeBuckets(S) ==
    LET full == {b \in S : buckets[b] # {}}
    IN  /\ sending' = {[start |-> b, spans |-> buckets[b]] : b \in full}
        /\ buckets' = [b \in BucketTimes |-> IF b \in full THEN {} ELSE buckets[b]]

\* sendStats has an answer, good or bad.
SendStats ==
    /\ sending # {}
    /\ sending' = {}
    /\ \/ sent' = sent \cup sending /\ UNCHANGED failed
       \/ failed' = failed \cup sending /\ UNCHANGED sent

-----------------------------------------------------------------------------
(* runFlusher. *)

FlushTick ==
    /\ flusher = "select" /\ tick # -1
    /\ TakeBuckets({b \in BucketTimes : Over(b, tick)})
    /\ tick' = -1
    /\ flusher' = IF sending' = {} THEN "select" ELSE "send"
    /\ UNCHANGED <<clock, phase, spanVars, in, ingestVars, addedAt, sent, failed, stopVars>>

FlushSend ==
    /\ flusher = "send"
    /\ SendStats
    /\ flusher' = "select"
    /\ UNCHANGED <<timeVars, spanVars, in, ingestVars, buckets, addedAt, stopVars>>

FlushExit ==
    /\ flusher = "select" /\ closed
    /\ flusher' = "exited"
    /\ UNCHANGED <<timeVars, spanVars, in, ingestVars, buckets, addedAt, sending, sent, failed,
                   stopVars>>

-----------------------------------------------------------------------------
(* Stop, called by tracer.Stop after the global tracer was replaced. *)

StopSwap ==
    /\ stopper = "running"
    /\ stopper' = "swapped" /\ global' = FALSE
    /\ early' = {s \in Spans : produce[s] = "done"}
    /\ UNCHANGED <<timeVars, spanVars, in, ingestVars, buckets, addedAt, sendVars, closed>>

\* Mutant: the stop channel is not closed.
MutStopClose ==
    /\ stopper = "swapped"
    /\ stopper' = "wait"
    /\ UNCHANGED <<timeVars, spanVars, in, ingestVars, buckets, addedAt, sendVars, global,
                   closed, early>>

StopClose ==
    /\ stopper = "swapped"
    /\ stopper' = "wait" /\ closed' = TRUE
    /\ UNCHANGED <<timeVars, spanVars, in, ingestVars, buckets, addedAt, sendVars, global, early>>

\* c.wg.Wait()
StopWait ==
    /\ stopper = "wait" /\ ingester = "exited" /\ flusher = "exited"
    /\ stopper' = "drain"
    /\ UNCHANGED <<timeVars, spanVars, in, ingestVars, buckets, addedAt, sendVars, global,
                   closed, early>>

StopDrain(s) ==
    /\ stopper = "drain" /\ s \in in
    /\ in' = in \ {s}
    /\ add(s)
    /\ UNCHANGED <<timeVars, spanVars, ingestVars, sendVars, stopVars>>

\* Mutant: the final flush leaves the current bucket.
MutStopCurrent ==
    /\ stopper = "drain" /\ in = {}
    /\ TakeBuckets({b \in BucketTimes : Over(b, clock)})
    /\ stopper' = IF sending' = {} THEN "returned" ELSE "send"
    /\ UNCHANGED <<timeVars, spanVars, in, ingestVars, addedAt, flusher, sent, failed, global,
                   closed, early>>

StopFlush ==
    /\ stopper = "drain" /\ in = {}
    /\ TakeBuckets(BucketTimes)
    /\ stopper' = IF sending' = {} THEN "returned" ELSE "send"
    /\ UNCHANGED <<timeVars, spanVars, in, ingestVars, addedAt, flusher, sent, failed, global,
                   closed, early>>

StopSend ==
    /\ stopper = "send"
    /\ SendStats
    /\ stopper' = "returned"
    /\ UNCHANGED <<timeVars, spanVars, in, ingestVars, buckets, addedAt, flusher, global,
                   closed, early>>

-----------------------------------------------------------------------------
Producer(s) == FindTracer(s) \/ SendIn(s)
Ingester == (\E s \in Spans : Ingest(s)) \/ IngestAdd \/ IngestExit
Flusher == FlushTick \/ FlushSend \/ FlushExit
Stopper == StopClose \/ StopWait \/ (\E s \in Spans : StopDrain(s)) \/ StopFlush \/ StopSend

Next == Pass \/ (\E s \in Spans : Producer(s)) \/ Ingester \/ Flusher \/ StopSwap \/ Stopper

Spec == Init /\ [][Next]_vars

\* Every runnable goroutine runs; select chooses at random among ready cases, so
\* a loop whose stop channel is closed leaves in the end.
Fairness == /\ \A s \in Spans : WF_vars(Producer(s))
            /\ WF_vars(Ingester) /\ SF_vars(IngestExit)
            /\ WF_vars(Flusher) /\ SF_vars(FlushExit)
            /\ WF_vars(Stopper)

FairSpec == Spec /\ Fairness
-----------------------------------------------------------------------------
(* Properties. *)

Held == IF holding = Nil THEN {} ELSE {holding}

Bucketed == UNION {buckets[b] : b \in BucketTimes}

Covered(exports) == UNION {e.spans : e \in exports}

\* A span is counted exactly once: in the channel, in the ingester's hand, in a
\* bucket or in one exported bucket, however adds, ticks and Stop interleave
\* (stats.go:128-134, 137-148, 188-196).
CountedOnce ==
    /\ {s \in Spans : produce[s] = "done"} =
          in \cup Held \cup Bucketed \cup Covered(sending \cup sent \cup failed) \cup disregarded
    /\ in \cap (Held \cup Bucketed \cup Covered(sending \cup sent \cup failed) \cup disregarded) = {}
    /\ Held \cap (Bucketed \cup Covered(sending \cup sent \cup failed) \cup disregarded) = {}
    /\ Bucketed \cap (Covered(sending \cup sent \cup failed) \cup disregarded) = {}
    /\ Covered(sending \cup sent \cup failed) \cap disregarded = {}
    /\ \A d, e \in sending \cup sent \cup failed : d # e => d.spans \cap e.spans = {}

\* Whatever reached the channel before Stop was called has been exported, the
\* current bucket included, when Stop returns, and the concentrator is empty but for
\* spans of goroutines that had found the tracer before (stats.go:151-168).
StopExports ==
    stopper = "returned" =>
        /\ ingester = "exited" /\ flusher = "exited" /\ sending = {}
        /\ Bucketed = {} /\ Held = {}
        /\ early \subseteq Covered(sent \cup failed) \cup disregarded

\* s was added before its bucket was over.
OnTime(s) == addedAt[s] < alignTs(end[s]) + BucketSize

\* The current bucket is never torn apart: of all the exports of one bucket, a
\* single one contains spans that were added on time, although ticks are received
\* late and adds go on meanwhile (stats.go:189).
OnTimeTogether ==
    \A d, e \in sending \cup sent \cup failed :
        (d # e /\ d.start = e.start) =>
            \/ \A s \in d.spans : ~OnTime(s)
            \/ \A s \in e.spans : ~OnTime(s)

\* Stop returns (stats.go:151-168), whatever is queued and being sent.
StopReturns == (stopper # "running") ~> (stopper = "returned")

-----------------------------------------------------------------------------
(* The inductive invariants behind the properties (Concentrator_proofs). *)

\* The goroutines' program counters, what they hold, and how far Stop has come.
ControlInv ==
    /\ (ingester = "add") <=> (holding # Nil)
    /\ (sending # {}) <=> (flusher = "send" \/ stopper = "send")
    /\ stopper \in {"drain", "send", "returned"} => ingester = "exited" /\ flusher = "exited"
    /\ stopper \in {"send", "returned"} => Bucketed = {} /\ early \cap in = {}
    /\ \A s \in early : produce[s] = "done"

Exported == sending \cup sent \cup failed

\* Spans are in the bucket of their end, also when it is exported.
BucketInv ==
    /\ \A b \in BucketTimes : \A s \in buckets[b] : alignTs(end[s]) = b
    /\ \A e \in Exported : \A s \in e.spans : alignTs(end[s]) = e.start

\* Once a bucket was exported by the flusher it is over, and what it holds since
\* is late.
OverInv ==
    /\ tick <= clock
    /\ \A e \in Exported :
          /\ e.start + BucketSize <= clock \/ stopper \in {"send", "returned"}
          /\ \A s \in buckets[e.start] : ~OnTime(s)

=============================================================================

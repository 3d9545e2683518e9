------------------------------ MODULE Profiler ------------------------------
(***************************************************************************)
(* The continuous profiler (profiler/profiler.go, upload.go, profile.go):  *)
(* Start and Stop of the one active profiler under the package's lock, the *)
(* collecting goroutine with one goroutine per profile type, the bounded   *)
(* upload queue that evicts its oldest batch, and the sending goroutine    *)
(* with its retries.                                                       *)
(*                                                                         *)
(* Profilers are numbered in the order of their creation.  A batch is      *)
(* abstracted to the profiler and its sequence number; the zero batch that *)
(* a receive from a closed channel yields belongs to profiler 0.           *)
(***************************************************************************)
EXTENDS Integers, Sequences, FiniteSets, SequencesExt

CONSTANTS
    Types,          \* the enabled profile types, cfg.types
    OutSize,        \* outChannelSize
    MaxRetries,     \* maxRetries
    MaxStarts,      \* bound: calls of Start that succeed
    MaxBatches      \* bound: batches of each profiler

CPU == "cpu"
Others == Types \ {CPU}

\* The application itself uses the runtime's CPU profiler.
App == -1

ASSUME SizeAssumption == OutSize \in Nat \ {0} /\ MaxRetries \in Nat \ {0}
ASSUME TypesAssumption == IsFiniteSet(Types) /\ Types # {}
ASSUME BoundAssumption == MaxStarts \in Nat /\ MaxBatches \in [1 .. MaxStarts -> Nat \ {0}]

Profilers == 1 .. MaxStarts

Zero == [profiler |-> 0, seq |-> 0]
Batches == UNION {[profiler : {p}, seq : 0 .. MaxBatches[p] - 1] : p \in Profilers}

VARIABLES
    calling,        \* the holder of the package's lock: "no", "start" or "stop"
    active,         \* activeProfiler, 0 for nil
    created,        \* how many profilers were created
    exit,           \* exit[p]: p.exit is closed
    collector,      \* the goroutine of collect
    seq,            \* seq[p]: p.seq
    task,           \* task[p][t]: the goroutine that collects type t
    pending,        \* pending[p]: the counter of p.pendingProfiles
    cpu,            \* for whom the runtime's CPU profiler runs: a profiler, App or 0
    out,            \* out[p]: p.out; it is closed when the collector has exited
    sender,         \* the goroutine of send
    bat,            \* bat[p]: the batch the sender works on
    tries,          \* tries[p]: the loop variable of upload
    received,       \* the last and the newest batch the agent got of each profiler
    uploaded,       \* the batches whose upload succeeded
    evicted, failed, abandoned      \* batches that will not be uploaded

callVars    == <<calling, active, created, exit>>
collectVars == <<collector, seq, task, pending, cpu>>
sendVars    == <<sender, bat, tries>>
fateVars    == <<received, uploaded, evicted, failed, abandoned>>
vars == <<callVars, collectVars, out, sendVars, fateVars>>

CallTypeOK ==
    /\ calling \in {"no", "start", "stop"}
    /\ active \in 0 .. MaxStarts /\ created \in 0 .. MaxStarts
    /\ exit \in [Profilers -> BOOLEAN]

CollectTypeOK ==
    /\ collector \in [Profilers -> {"new", "spawn", "wait", "enqueue", "evict", "select", "exited"}]
    /\ seq \in [Profilers -> Nat] /\ \A p \in Profilers : seq[p] <= MaxBatches[p]
    /\ task \in [Profilers -> [Types -> {"off", "sleep", "profile", "done"}]]
    /\ pending \in [Profilers -> 0 .. Cardinality(Others)]
    /\ cpu \in {App} \cup 0 .. MaxStarts

SendTypeOK ==
    /\ out \in [Profilers -> Seq(Batches)] /\ \A p \in Profilers : Len(out[p]) <= OutSize
    /\ sender \in [Profilers ->
                     {"new", "select", "output", "loop", "request", "backoff", "exited"}]
    /\ bat \in [Profilers -> Batches \cup {Zero}]
    /\ tries \in [Profilers -> 0 .. MaxRetries]
    /\ received \in [Profilers -> [last : Int, newest : Int]]
    /\ uploaded \subseteq Batches /\ evicted \subseteq Batches /\ failed \subseteq Batches
    /\ abandoned \subseteq Batches \cup {Zero}

TypeOK == CallTypeOK /\ CollectTypeOK /\ SendTypeOK

Init ==
    /\ calling = "no" /\ active = 0 /\ created = 0
    /\ exit = [p \in Profilers |-> FALSE]
    /\ collector = [p \in Profilers |-> "new"] /\ seq = [p \in Profilers |-> 0]
    /\ task = [p \in Profilers |-> [t \in Types |-> "done"]]
    /\ pending = [p \in Profilers |-> 0] /\ cpu = 0
    /\ out = [p \in Profilers |-> <<>>]
    /\ sender = [p \in Profilers |-> "new"]
    /\ bat = [p \in Profilers |-> Zero] /\ tries = [p \in Profilers |-> 0]
    /\ received = [p \in Profilers |-> [last |-> -1, newest |-> -1]] /\ uploaded = {} /\ evicted = {} /\ failed = {} /\ abandoned = {}

-----------------------------------------------------------------------------
(***************************************************************************)
(* Start and Stop.                                                         *)
(***************************************************************************)

\* Both goroutines of p are over: p.wg.Wait() returns.
Gone(p) == collector[p] \in {"new", "exited"} /\ sender[p] \in {"new", "exited"}

\* Start or Stop gets the lock and closes exit of the active profiler.
Call(what) ==
    /\ calling = "no"
    /\ what = "stop" => active # 0
    /\ calling' = what
    /\ exit' = IF active = 0 THEN exit ELSE [exit EXCEPT ![active] = TRUE]
    /\ UNCHANGED <<active, created, collectVars, out, sendVars, fateVars>>

\* Mutant: stop does not wait for the goroutines.
MutWaited == TRUE

Waited == active # 0 => Gone(active)

StopReturn ==
    /\ calling = "stop" /\ Waited
    /\ calling' = "no" /\ active' = 0
    /\ UNCHANGED <<created, exit, collectVars, out, sendVars, fateVars>>

\* newProfiler fails: activeProfiler is left as it is, stopped.
StartFail ==
    /\ calling = "start" /\ Waited
    /\ calling' = "no"
    /\ UNCHANGED <<active, created, exit, collectVars, out, sendVars, fateVars>>

\* A round of collect begins: number the batch, count what the CPU profile will
\* wait for.
StartBatch(p) ==
    /\ collector' = [collector EXCEPT ![p] = "spawn"]
    /\ seq' = [seq EXCEPT ![p] = @ + 1]
    /\ pending' = [pending EXCEPT ![p] = @ + Cardinality(Others)]
    /\ task' = [task EXCEPT ![p] = [t \in Types |-> "off"]]

StartRun ==
    /\ calling = "start" /\ Waited /\ created < MaxStarts
    /\ calling' = "no"
    /\ created' = created + 1 /\ active' = created + 1
    /\ StartBatch(created + 1)
    /\ sender' = [sender EXCEPT ![created + 1] = "select"]
    /\ UNCHANGED <<exit, cpu, out, bat, tries, fateVars>>

-----------------------------------------------------------------------------
(***************************************************************************)
(* collect and the goroutines of the profile types.  Sleeps end when their *)
(* time is over or exit is closed, that is at any time.                    *)
(***************************************************************************)

\* One goroutine for each type, the one for the CPU profile first.
Spawn(p, t) ==
    /\ collector[p] = "spawn" /\ task[p][t] = "off"
    /\ (t # CPU /\ CPU \in Types) => task[p][CPU] # "off"
    /\ task' = [task EXCEPT ![p][t] = "sleep"]
    /\ collector' = [collector EXCEPT ![p] =
           IF \E u \in Types \ {t} : task[p][u] = "off" THEN "spawn" ELSE "wait"]
    /\ UNCHANGED <<callVars, seq, pending, cpu, out, sendVars, fateVars>>

\* Mutant: a profile that ends in an error is not taken off pendingProfiles.
MutCollect(p, t) ==
    /\ task[p][t] = "sleep"
    /\ task' = [task EXCEPT ![p][t] = "done"]
    /\ pending' \in {pending, [pending EXCEPT ![p] = @ - 1]}
    /\ UNCHANGED <<callVars, collector, seq, cpu, out, sendVars, fateVars>>

\* A type other than CPU ends with a profile or with an error.
Collect(p, t) ==
    /\ task[p][t] = "sleep"
    /\ task' = [task EXCEPT ![p][t] = "done"]
    /\ pending' = [pending EXCEPT ![p] = @ - 1]
    /\ UNCHANGED <<callVars, collector, seq, cpu, out, sendVars, fateVars>>

\* startCPUProfile fails when the runtime already profiles.
StartCPUProfile(p) ==
    /\ CPU \in Types /\ task[p][CPU] = "sleep"
    /\ IF cpu = 0
       THEN cpu' = p /\ task' = [task EXCEPT ![p][CPU] = "profile"]
       ELSE UNCHANGED cpu /\ task' = [task EXCEPT ![p][CPU] = "done"]
    /\ UNCHANGED <<callVars, collector, seq, pending, out, sendVars, fateVars>>

\* Mutant: the CPU profile does not wait for the others.
MutStopCPUProfile(p) ==
    /\ CPU \in Types /\ task[p][CPU] = "profile"
    /\ cpu' = 0 /\ task' = [task EXCEPT ![p][CPU] = "done"]
    /\ UNCHANGED <<callVars, collector, seq, pending, out, sendVars, fateVars>>

\* pendingProfiles.Wait(), stopCPUProfile().
StopCPUProfile(p) ==
    /\ CPU \in Types /\ task[p][CPU] = "profile" /\ pending[p] = 0
    /\ cpu' = 0 /\ task' = [task EXCEPT ![p][CPU] = "done"]
    /\ UNCHANGED <<callVars, collector, seq, pending, out, sendVars, fateVars>>

\* The application starts or stops a CPU profile of its own.
AppCPUProfile ==
    /\ cpu \in {0, App}
    /\ cpu' = IF cpu = 0 THEN App ELSE 0
    /\ UNCHANGED <<callVars, collector, seq, task, pending, out, sendVars, fateVars>>

\* wg.Wait(): all goroutines of the round are done.
BatchReady(p) ==
    /\ collector[p] = "wait" /\ \A t \in Types : task[p][t] = "done"
    /\ collector' = [collector EXCEPT ![p] = "enqueue"]
    /\ UNCHANGED <<callVars, seq, task, pending, cpu, out, sendVars, fateVars>>

Current(p) == [profiler |-> p, seq |-> seq[p] - 1]

\* enqueueUpload: one turn of its loop is a try to send ...
Enqueue(p) ==
    /\ collector[p] = "enqueue"
    /\ IF Len(out[p]) < OutSize
       THEN /\ out' = [out EXCEPT ![p] = Append(@, Current(p))]
            /\ collector' = [collector EXCEPT ![p] = "select"]
       ELSE /\ collector' = [collector EXCEPT ![p] = "evict"] /\ UNCHANGED out
    /\ UNCHANGED <<callVars, seq, task, pending, cpu, sendVars, fateVars>>

\* Mutant: the newest batch of the queue is evicted.
MutEvict(p) ==
    /\ collector[p] = "evict"
    /\ IF out[p] = <<>>
       THEN UNCHANGED <<out, evicted>>
       ELSE /\ evicted' = evicted \cup {Last(out[p])}
            /\ out' = [out EXCEPT ![p] = Front(@)]
    /\ collector' = [collector EXCEPT ![p] = "enqueue"]
    /\ UNCHANGED <<callVars, seq, task, pending, cpu, sendVars, received, uploaded, failed, abandoned>>

\* ... and a try to evict the oldest batch, if the sender has left one.
Evict(p) ==
    /\ collector[p] = "evict"
    /\ IF out[p] = <<>>
       THEN UNCHANGED <<out, evicted>>
       ELSE /\ evicted' = evicted \cup {Head(out[p])}
            /\ out' = [out EXCEPT ![p] = Tail(@)]
    /\ collector' = [collector EXCEPT ![p] = "enqueue"]
    /\ UNCHANGED <<callVars, seq, task, pending, cpu, sendVars, received, uploaded, failed, abandoned>>

\* The ticker starts the next round.
NextBatch(p) ==
    /\ collector[p] = "select" /\ seq[p] < MaxBatches[p]
    /\ StartBatch(p)
    /\ UNCHANGED <<callVars, cpu, out, sendVars, fateVars>>

\* collect returns and closes out.
CollectExit(p) ==
    /\ collector[p] = "select" /\ exit[p]
    /\ collector' = [collector EXCEPT ![p] = "exited"]
    /\ UNCHANGED <<callVars, seq, task, pending, cpu, out, sendVars, fateVars>>

-----------------------------------------------------------------------------
(***************************************************************************)
(* send, outputDir and upload.                                             *)
(***************************************************************************)

SendExit(p) ==
    /\ sender[p] = "select" /\ exit[p]
    /\ sender' = [sender EXCEPT ![p] = "exited"]
    /\ UNCHANGED <<callVars, collectVars, out, bat, tries, fateVars>>

\* A receive from out, which yields the zero batch when out is closed and empty.
SendTake(p) ==
    /\ sender[p] = "select"
    /\ \/ /\ out[p] # <<>>
          /\ bat' = [bat EXCEPT ![p] = Head(out[p])]
          /\ out' = [out EXCEPT ![p] = Tail(@)]
       \/ /\ out[p] = <<>> /\ collector[p] = "exited"
          /\ bat' = [bat EXCEPT ![p] = Zero]
          /\ UNCHANGED out
    /\ sender' = [sender EXCEPT ![p] = "output"]
    /\ UNCHANGED <<callVars, collectVars, tries, fateVars>>

\* outputDir: whether it writes the batch, fails or has nothing to do, upload follows.
Output(p) ==
    /\ sender[p] = "output"
    /\ sender' = [sender EXCEPT ![p] = "loop"] /\ tries' = [tries EXCEPT ![p] = 0]
    /\ UNCHANGED <<callVars, collectVars, out, bat, received, uploaded, evicted, failed, abandoned>>

\* The sender is done with its batch.
Back(p) == sender' = [sender EXCEPT ![p] = "select"] /\ bat' = [bat EXCEPT ![p] = Zero]

GiveUp(p) ==
    /\ sender[p] = "loop" /\ tries[p] = MaxRetries
    /\ failed' = failed \cup {bat[p]}
    /\ Back(p)
    /\ UNCHANGED <<callVars, collectVars, out, tries, received, uploaded, evicted, abandoned>>

Abandon(p) ==
    /\ sender[p] = "loop" /\ tries[p] < MaxRetries /\ exit[p]
    /\ abandoned' = abandoned \cup {bat[p]}
    /\ Back(p)
    /\ UNCHANGED <<callVars, collectVars, out, tries, received, uploaded, evicted, failed>>

Try(p) ==
    /\ sender[p] = "loop" /\ tries[p] < MaxRetries /\ ~exit[p]
    /\ sender' = [sender EXCEPT ![p] = "request"]
    /\ UNCHANGED <<callVars, collectVars, out, bat, tries, fateVars>>

\* The agent gets the batch.
Got(p) ==
    LET n == bat[p].seq IN
    [received EXCEPT ![p] = [last |-> n, newest |-> IF n > @.newest THEN n ELSE @.newest]]

\* doRequest: 2xx.
RequestOK(p) ==
    /\ sender[p] = "request"
    /\ received' = Got(p) /\ uploaded' = uploaded \cup {bat[p]}
    /\ Back(p)
    /\ UNCHANGED <<callVars, collectVars, out, tries, evicted, failed, abandoned>>

\* doRequest: the batch cannot be encoded, or another status.
RequestRefused(p) ==
    /\ sender[p] = "request"
    /\ failed' = failed \cup {bat[p]}
    /\ Back(p)
    /\ UNCHANGED <<callVars, collectVars, out, tries, received, uploaded, evicted, abandoned>>

\* doRequest: 5xx, an error of the connection, the timeout, or exit was closed.  The
\* agent may have got the batch although its answer was lost.
RequestRetriable(p) ==
    /\ sender[p] = "request"
    /\ received' \in {received, Got(p)}
    /\ sender' = [sender EXCEPT ![p] = "backoff"]
    /\ tries' = [tries EXCEPT ![p] = @ + 1]
    /\ UNCHANGED <<callVars, collectVars, out, bat, uploaded, evicted, failed, abandoned>>

\* The sleep before the next turn is over.
Backoff(p) ==
    /\ sender[p] = "backoff"
    /\ sender' = [sender EXCEPT ![p] = "loop"]
    /\ UNCHANGED <<callVars, collectVars, out, bat, tries, fateVars>>

-----------------------------------------------------------------------------
Task(p) == (\E t \in Others : Collect(p, t)) \/ StartCPUProfile(p) \/ StopCPUProfile(p)
Collector(p) == (\E t \in Types : Spawn(p, t)) \/ BatchReady(p) \/ Enqueue(p) \/ Evict(p) \/ NextBatch(p) \/ CollectExit(p)
Sender(p) == \/ SendExit(p) \/ SendTake(p) \/ Output(p) \/ GiveUp(p) \/ Abandon(p) \/ Try(p)
             \/ RequestOK(p) \/ RequestRefused(p) \/ RequestRetriable(p) \/ Backoff(p)
Return == StopReturn \/ StartFail \/ StartRun

Next == \/ Call("start") \/ Call("stop") \/ Return \/ AppCPUProfile
        \/ \E p \in Profilers : Task(p) \/ Collector(p) \/ Sender(p)

Spec == Init /\ [][Next]_vars

\* Goroutines run, sleeps and requests end (uploadTimeout is positive), select is
\* random, so that a closed exit is noticed in the end.
Fairness == /\ WF_vars(Return)
            /\ \A p \in Profilers : /\ WF_vars(Task(p)) /\ WF_vars(Collector(p)) /\ WF_vars(Sender(p))
                                    /\ SF_vars(CollectExit(p)) /\ SF_vars(SendExit(p))

FairSpec == Spec /\ Fairness

-----------------------------------------------------------------------------
(***************************************************************************)
(* Properties.                                                             *)
(***************************************************************************)

Running == {p \in Profilers : ~Gone(p)}

\* At most one profiler is at work, however Start, Stop and failing Starts follow
\* each other, so the process-wide CPU profiler and the delta state are never
\* shared (profiler.go:36-60, 449-454).
OneProfiler ==
    /\ Running \subseteq {active}
    /\ cpu \in Profilers => cpu \in Running /\ CPU \in Types /\ task[cpu][CPU] = "profile"

\* A batch that a profiler numbered is in exactly one place: with the collector,
\* in the queue, with the sender, or its fate is known.  What is evicted is older
\* than everything that stays in the queue, although the sender takes batches
\* between the two selects; and however requests are retried and answers lost, the
\* agent gets the batches of a profiler in the order of their numbers, so a gap is a
\* batch that is lost: "The profile_seq tag can be used to identify the first
\* profile uploaded by a given runtime-id, identify missing profiles"
\* (profiler.go:289-415, upload.go:77-79).
Collecting(p) == collector[p] \in {"spawn", "wait", "enqueue", "evict"}
Places(p, n) ==
    LET b == [profiler |-> p, seq |-> n] IN
    {x \in {"collector", "queue", "sender", "uploaded", "evicted", "failed", "abandoned"} :
        \/ x = "collector" /\ Collecting(p) /\ n = seq[p] - 1
        \/ x = "queue" /\ b \in ToSet(out[p])
        \/ x = "sender" /\ b = bat[p]
        \/ x = "uploaded" /\ b \in uploaded
        \/ x = "evicted" /\ b \in evicted
        \/ x = "failed" /\ b \in failed
        \/ x = "abandoned" /\ b \in abandoned}
BatchOnce == \A p \in Profilers : \A n \in 0 .. seq[p] - 1 : \E x \in Places(p, n) : Places(p, n) = {x}
ReceivedInOrder == \A p \in Profilers : received[p].last = received[p].newest
EvictsOldest == \A b \in evicted : \A c \in ToSet(out[b.profiler]) : b.seq < c.seq
BatchesOrdered == TypeOK /\ BatchOnce /\ ReceivedInOrder /\ EvictsOldest

\* "We want the CPU profiler to finish last" (profile.go:97): while a profile of
\* another type is being collected, a CPU profile that was started goes on.
CPULast ==
    [][\A p \in Profilers :
          (CPU \in Types /\ task[p][CPU] = "profile" /\ task'[p][CPU] = "done") =>
              \A t \in Others : task[p][t] = "done"]_vars

\* "Stop cancels any ongoing profiling or upload operations and returns"
\* (profiler.go:51): a call of Start or Stop returns.
CallReturns == (calling # "no") ~> (calling = "no")

-----------------------------------------------------------------------------
(***************************************************************************)
(* The inductive invariants behind the properties above (Profiler_proofs). *)
(***************************************************************************)

\* Profilers are made one after the other, and only the active one's goroutines run.
LifeOf(p) ==
    /\ p > created <=> collector[p] = "new"
    /\ p > created <=> sender[p] = "new"
    /\ p > created <=> seq[p] = 0
    /\ ~Gone(p) => p = active

\* The goroutines of a round are over outside of it; pendingProfiles counts those whose
\* profile is to come; the one that profiles the CPU owns the runtime's profiler.
RoundOf(p) ==
    /\ collector[p] \notin {"spawn", "wait"} => \A t \in Types : task[p][t] = "done"
    /\ cpu = p <=> CPU \in Types /\ task[p][CPU] = "profile"
    /\ pending[p] = Cardinality({t \in Others : task[p][t] # "done"})

RunInv == active <= created /\ \A p \in Profilers : LifeOf(p) /\ RoundOf(p)

\* What the sender works on: the zero batch only after exit was closed, and then it is
\* not posted.
SenderOf(p) ==
    /\ collector[p] = "exited" => exit[p]
    /\ sender[p] \in {"new", "select", "exited"} => bat[p] = Zero
    /\ sender[p] = "request" => tries[p] < MaxRetries
    /\ (bat[p] = Zero /\ sender[p] \notin {"new", "select", "exited"}) =>
          /\ exit[p] /\ sender[p] \in {"output", "loop"}
          /\ sender[p] = "loop" => tries[p] = 0

SenderInv == \A p \in Profilers : SenderOf(p)

\* One more than the greatest number that left the collector.
Limit(p) == IF Collecting(p) THEN seq[p] - 1 ELSE seq[p]

\* The queue is sorted; what the agent got and what the sender works on are older than
\* all of it, and what was evicted too.
QueueOf(p) ==
    \A i \in 1 .. Len(out[p]) :
        /\ out[p][i].profiler = p /\ out[p][i].seq < Limit(p)
        /\ \A j \in 1 .. Len(out[p]) : i < j => out[p][i].seq < out[p][j].seq
        /\ received[p].newest < out[p][i].seq
        /\ bat[p] # Zero => bat[p].seq < out[p][i].seq
        /\ \A b \in evicted : b.profiler = p => b.seq < out[p][i].seq

OrderOf(p) ==
    /\ received[p].last = received[p].newest /\ received[p].newest < Limit(p)
    /\ bat[p] # Zero => /\ bat[p].profiler = p /\ bat[p].seq < Limit(p)
                        /\ received[p].newest <= bat[p].seq
    /\ \A b \in uploaded \cup evicted \cup failed \cup abandoned :
         b.profiler = p => b.seq < Limit(p)

OrderInv == \A p \in Profilers : QueueOf(p) /\ OrderOf(p)

=============================================================================

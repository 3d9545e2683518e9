--------------------------- MODULE Profiler_proofs ---------------------------
(***************************************************************************)
(* Theorems about Profiler, for any set of profile types, any capacity of  *)
(* the upload queue, any number of retries, Starts and batches.            *)
(***************************************************************************)
EXTENDS Profiler, FiniteSetTheorems, TLAPS

-----------------------------------------------------------------------------
(* The life of the goroutines. *)

StateInv == TypeOK /\ RunInv /\ SenderInv

LEMMA ProfilerNumbers ==
    /\ Profilers \subseteq Nat \ {0} /\ App \notin Profilers /\ 0 \notin Profilers
    /\ \A n \in 0 .. MaxStarts : n # 0 => n \in Profilers
    /\ \A n \in 0 .. MaxStarts : n < MaxStarts => n + 1 \in Profilers
    /\ \A p \in Profilers : MaxBatches[p] \in Nat \ {0}
  BY BoundAssumption DEF Profilers, App

LEMMA BatchShape ==
    /\ \A p \in Profilers : \A n \in 0 .. MaxBatches[p] - 1 : [profiler |-> p, seq |-> n] \in Batches
    /\ \A b \in Batches : /\ b.profiler \in Profilers /\ b.seq \in Nat
                          /\ b = [profiler |-> b.profiler, seq |-> b.seq]
    /\ Zero \notin Batches
  <1>1. \A b \in Batches : /\ b.profiler \in Profilers /\ b.seq \in Nat
                           /\ b = [profiler |-> b.profiler, seq |-> b.seq]
    <2> SUFFICES ASSUME NEW p \in Profilers, NEW b \in [profiler : {p}, seq : 0 .. MaxBatches[p] - 1]
                 PROVE  b.profiler \in Profilers /\ b.seq \in Nat
                        /\ b = [profiler |-> b.profiler, seq |-> b.seq]
      BY Zenon DEF Batches
    <2>1. MaxBatches[p] \in Nat
      BY ProfilerNumbers
    <2> QED BY <2>1
  <1>2. \A p \in Profilers : \A n \in 0 .. MaxBatches[p] - 1 : [profiler |-> p, seq |-> n] \in Batches
    BY DEF Batches
  <1>3. Zero \notin Batches
    BY <1>1, ProfilerNumbers DEF Zero
  <1> QED BY <1>1, <1>2, <1>3

LEMMA PendingFinite ==
    ASSUME NEW S \in SUBSET Others
    PROVE  IsFiniteSet(S) /\ Cardinality(S) \in 0 .. Cardinality(Others)
  <1>1. IsFiniteSet(Others)
    BY TypesAssumption, FS_Subset DEF Others
  <1> QED BY <1>1, FS_Subset, FS_CardinalityType

\* What is left of a round when nothing of it changes.
LEMMA RoundFrame ==
    ASSUME NEW q \in Profilers, RoundOf(q), task'[q] = task[q], pending'[q] = pending[q],
           cpu' = q <=> cpu = q,
           collector[q] \in {"spawn", "wait"} /\ collector'[q] \notin {"spawn", "wait"}
              => \A t \in Types : task[q][t] = "done"
    PROVE  RoundOf(q)'
  <1>1. {t \in Others : task[q][t] # "done"}' = {t \in Others : task[q][t] # "done"}
    OBVIOUS
  <1> QED BY <1>1 DEF RoundOf

LEMMA LifeFrame ==
    ASSUME NEW q \in Profilers, LifeOf(q), created' = created, active' = active,
           seq'[q] = 0 <=> seq[q] = 0,
           collector'[q] = "new" <=> collector[q] = "new",
           sender'[q] = "new" <=> sender[q] = "new",
           collector[q] = "exited" => collector'[q] = "exited",
           sender[q] = "exited" => sender'[q] = "exited"
    PROVE  LifeOf(q)'
  BY DEF LifeOf, Gone

-----------------------------------------------------------------------------
(* Start, Stop and the application's own use of the CPU profiler. *)

LEMMA CallState ==
    ASSUME StateInv, NEW what \in {"start", "stop"}, Call(what)
    PROVE  StateInv'
  <1> USE DEF StateInv
  <1>0. /\ UNCHANGED <<active, created, collectVars, out, sendVars, fateVars>>
        /\ calling' = what /\ exit' = IF active = 0 THEN exit ELSE [exit EXCEPT ![active] = TRUE]
    BY DEF Call
  <1>1. TypeOK'
    BY <1>0 DEF TypeOK, CallTypeOK, CollectTypeOK, SendTypeOK, collectVars, sendVars, fateVars
  <1>2. RunInv'
    BY <1>0, RoundFrame, LifeFrame DEF RunInv, collectVars, sendVars
  <1>3. \A p \in Profilers : exit[p] => exit'[p]
    BY <1>0 DEF TypeOK, CallTypeOK
  <1>4. SenderInv'
    BY <1>0, <1>3 DEF SenderInv, SenderOf, collectVars, sendVars
  <1> QED BY <1>1, <1>2, <1>4

\* Stop, and a Start that fails, return when the goroutines of the active profiler are over.
LEMMA ReturnState ==
    ASSUME StateInv, StopReturn \/ StartFail
    PROVE  StateInv'
  <1> USE DEF StateInv, StopReturn, StartFail
  <1>0. /\ UNCHANGED <<created, exit, collectVars, out, sendVars, fateVars>> /\ calling' = "no"
        /\ active' \in {0, active}
    OBVIOUS
  <1>1. TypeOK'
    BY <1>0, BoundAssumption DEF TypeOK, CallTypeOK, CollectTypeOK, SendTypeOK, collectVars, sendVars, fateVars
  <1>2. \A p \in Profilers : Gone(p)
    BY ProfilerNumbers DEF Waited, RunInv, LifeOf
  <1>3. \A p \in Profilers : LifeOf(p)'
    BY <1>0, <1>2 DEF RunInv, LifeOf, Gone, collectVars, sendVars
  <1>4. \A p \in Profilers : RoundOf(p)'
    BY <1>0, RoundFrame DEF RunInv, collectVars
  <1>5. active' <= created'
    BY <1>0 DEF TypeOK, CallTypeOK, RunInv
  <1>6. SenderInv'
    BY <1>0 DEF SenderInv, SenderOf, collectVars, sendVars
  <1> QED BY <1>1, <1>3, <1>4, <1>5, <1>6 DEF RunInv

\* A round begins where the goroutines of the last one are over.
LEMMA StartBatchRound ==
    ASSUME TypeOK, NEW p \in Profilers, RoundOf(p), StartBatch(p), collector[p] \notin {"spawn", "wait"},
           seq[p] < MaxBatches[p]
    PROVE  /\ collector' = [collector EXCEPT ![p] = "spawn"]
           /\ collector' \in [Profilers -> {"new", "spawn", "wait", "enqueue", "evict", "select", "exited"}]
           /\ seq' \in [Profilers -> Nat] /\ \A q \in Profilers : seq'[q] <= MaxBatches[q]
           /\ task' \in [Profilers -> [Types -> {"off", "sleep", "profile", "done"}]]
           /\ pending' \in [Profilers -> 0 .. Cardinality(Others)]
           /\ cpu # p
           /\ cpu' = cpu => RoundOf(p)'
           /\ seq'[p] # 0
           /\ \A q \in Profilers : q # p => /\ collector'[q] = collector[q] /\ seq'[q] = seq[q]
                                            /\ task'[q] = task[q] /\ pending'[q] = pending[q]
  <1> USE DEF StartBatch, TypeOK, CollectTypeOK
  <1>0. Cardinality(Others) \in Nat
    BY PendingFinite
  <1>1. {t \in Others : task[p][t] # "done"} = {}
    BY DEF RoundOf, Others
  <1>2. pending[p] = 0
    BY <1>1, FS_EmptySet DEF RoundOf
  <1>3. pending'[p] = Cardinality(Others) /\ \A t \in Types : task'[p][t] = "off"
    BY <1>0, <1>2
  <1>4. {t \in Others : task[p][t] # "done"}' = Others
    BY <1>3 DEF Others
  <1>5. cpu # p
    BY DEF RoundOf
  <1>6. cpu' = cpu => RoundOf(p)'
    BY <1>3, <1>4, <1>5 DEF RoundOf
  <1>7. /\ seq' \in [Profilers -> Nat] /\ \A q \in Profilers : seq'[q] <= MaxBatches[q]
        /\ seq'[p] # 0
    BY ProfilerNumbers
  <1>8. pending' \in [Profilers -> 0 .. Cardinality(Others)]
    BY <1>0, <1>2
  <1>9. task' \in [Profilers -> [Types -> {"off", "sleep", "profile", "done"}]]
    OBVIOUS
  <1> QED BY <1>5, <1>6, <1>7, <1>8, <1>9

LEMMA StartRunState ==
    ASSUME StateInv, StartRun
    PROVE  StateInv'
  <1> USE DEF StateInv
  <1>a. PICK p \in Profilers : p = created + 1
    BY ProfilerNumbers DEF StartRun, TypeOK, CallTypeOK
  <1>0. /\ UNCHANGED <<exit, cpu, out, bat, tries, fateVars>> /\ calling' = "no"
        /\ created' = p /\ active' = p /\ created < MaxStarts
        /\ StartBatch(p) /\ sender' = [sender EXCEPT ![p] = "select"]
    BY <1>a DEF StartRun
  <1>1. p > created /\ created \in Nat /\ p \in 0 .. MaxStarts
    BY <1>0, <1>a, BoundAssumption DEF TypeOK, CallTypeOK, Profilers
  <1>2. \A q \in Profilers : Gone(q)
    BY ProfilerNumbers DEF StartRun, Waited, RunInv, LifeOf
  <1>3. collector[p] = "new" /\ sender[p] = "new" /\ seq[p] = 0
    BY <1>1 DEF RunInv, LifeOf
  <1>4. seq[p] < MaxBatches[p]
    BY <1>1, <1>3, ProfilerNumbers
  <1>5. /\ collector' = [collector EXCEPT ![p] = "spawn"]
        /\ RoundOf(p)' /\ CollectTypeOK' /\ seq'[p] # 0
        /\ \A q \in Profilers : q # p => /\ collector'[q] = collector[q] /\ seq'[q] = seq[q]
                                         /\ task'[q] = task[q] /\ pending'[q] = pending[q]
    BY <1>0, <1>3, <1>4, StartBatchRound DEF RunInv, TypeOK, CollectTypeOK
  <1>6. TypeOK'
    BY <1>0, <1>1, <1>5 DEF TypeOK, CallTypeOK, SendTypeOK, fateVars
  <1>7. ASSUME NEW q \in Profilers PROVE LifeOf(q)' /\ RoundOf(q)'
    <2>1. CASE q = p
      BY <1>0, <1>1, <1>5, <2>1 DEF LifeOf, TypeOK, CollectTypeOK, SendTypeOK
    <2>2. CASE q # p
      <3>1. RoundOf(q)'
        BY <1>0, <1>5, <2>2, RoundFrame DEF RunInv
      <3>2. q > created' <=> q > created
        BY <1>0, <1>1, <1>a, <2>2, ProfilerNumbers
      <3>3. LifeOf(q)'
        BY <1>0, <1>2, <1>5, <2>2, <3>2 DEF RunInv, LifeOf, Gone, TypeOK, SendTypeOK
      <3> QED BY <3>1, <3>3
    <2> QED BY <2>1, <2>2
  <1>8. active' <= created'
    BY <1>0, <1>1
  <1>9. SenderInv'
    <2> SUFFICES ASSUME NEW q \in Profilers PROVE SenderOf(q)'
      BY DEF SenderInv
    <2>0. SenderOf(q) /\ bat'[q] = bat[q] /\ tries'[q] = tries[q] /\ exit'[q] = exit[q]
      BY <1>0 DEF SenderInv
    <2>1. CASE q = p
      <3>1. collector'[q] = "spawn" /\ sender'[q] = "select"
        BY <1>0, <1>5, <2>1 DEF TypeOK, CollectTypeOK, SendTypeOK
      <3> QED BY <1>3, <2>0, <2>1, <3>1 DEF SenderOf
    <2>2. CASE q # p
      <3>1. collector'[q] = collector[q] /\ sender'[q] = sender[q]
        BY <1>0, <1>5, <2>2 DEF TypeOK, SendTypeOK
      <3> QED BY <2>0, <3>1 DEF SenderOf
    <2> QED BY <2>1, <2>2
  <1> QED BY <1>6, <1>7, <1>8, <1>9 DEF RunInv

LEMMA AppState ==
    ASSUME StateInv, AppCPUProfile
    PROVE  StateInv'
  <1> USE DEF StateInv, AppCPUProfile
  <1>0. /\ UNCHANGED <<callVars, collector, seq, task, pending, out, sendVars, fateVars>>
        /\ cpu \in {0, App} /\ cpu' \in {0, App}
    OBVIOUS
  <1>1. TypeOK'
    BY <1>0, BoundAssumption DEF TypeOK, CallTypeOK, CollectTypeOK, SendTypeOK, callVars, sendVars, fateVars
  <1>2. RunInv'
    BY <1>0, ProfilerNumbers, RoundFrame, LifeFrame DEF RunInv, callVars, sendVars
  <1>3. SenderInv'
    BY <1>0 DEF SenderInv, SenderOf, callVars, sendVars
  <1> QED BY <1>1, <1>2, <1>3

-----------------------------------------------------------------------------
(* The goroutines of the profile types. *)

\* One goroutine of a round takes a step.
LEMMA TaskRound ==
    ASSUME StateInv, NEW p \in Profilers, NEW t \in Types, NEW v \in {"off", "sleep", "profile", "done"},
           task' = [task EXCEPT ![p][t] = v], task[p][t] # "done"
    PROVE  /\ task' \in [Profilers -> [Types -> {"off", "sleep", "profile", "done"}]]
           /\ \A q \in Profilers : q # p => task'[q] = task[q]
           /\ \A u \in Types : task'[p][u] = IF u = t THEN v ELSE task[p][u]
           /\ collector[p] \in {"spawn", "wait"}
           /\ (v # "done" \/ t = CPU) =>
                 Cardinality({u \in Others : task[p][u] # "done"}') = pending[p]
           /\ (v = "done" /\ t \in Others) =>
                 /\ Cardinality({u \in Others : task[p][u] # "done"}') = pending[p] - 1
                 /\ pending[p] > 0
  <1> USE DEF StateInv, TypeOK, CollectTypeOK
  <1> DEFINE Left == {u \in Others : task[p][u] # "done"}
  <1>1. \A u \in Types : task'[p][u] = IF u = t THEN v ELSE task[p][u]
    OBVIOUS
  <1>2. collector[p] \in {"spawn", "wait"} /\ pending[p] = Cardinality(Left)
    BY DEF RunInv, RoundOf
  <1>3. ASSUME v # "done" \/ t = CPU PROVE Left' = Left
    BY <1>1, <1>3 DEF Others
  <1>4. ASSUME v = "done", t \in Others
        PROVE  Cardinality(Left') = pending[p] - 1 /\ pending[p] > 0
    <2>1. Left' = Left \ {t} /\ t \in Left /\ IsFiniteSet(Left) /\ Cardinality(Left) \in Nat
      BY <1>1, <1>4, PendingFinite DEF Others
    <2>2. Cardinality(Left') = Cardinality(Left) - 1
      <3> HIDE DEF Left
      <3>1. Cardinality(Left \ {t}) = Cardinality(Left) - 1
        BY <2>1, FS_RemoveElement
      <3> QED BY <2>1, <3>1
    <2>3. Cardinality(Left) # 0
      BY <2>1, FS_EmptySet
    <2> QED BY <1>2, <2>1, <2>2, <2>3
  <1>5. /\ task' \in [Profilers -> [Types -> {"off", "sleep", "profile", "done"}]]
        /\ \A q \in Profilers : q # p => task'[q] = task[q]
    OBVIOUS
  <1> QED BY <1>1, <1>2, <1>3, <1>4, <1>5

LEMMA SpawnState ==
    ASSUME StateInv, NEW p \in Profilers, NEW t \in Types, Spawn(p, t)
    PROVE  StateInv'
  <1> USE DEF StateInv
  <1>0. /\ collector[p] = "spawn" /\ task[p][t] = "off" /\ task' = [task EXCEPT ![p][t] = "sleep"]
        /\ collector' \in {[collector EXCEPT ![p] = "spawn"], [collector EXCEPT ![p] = "wait"]}
        /\ UNCHANGED <<callVars, seq, pending, cpu, out, sendVars, fateVars>>
    BY DEF Spawn
  <1>1. /\ task' \in [Profilers -> [Types -> {"off", "sleep", "profile", "done"}]]
        /\ \A q \in Profilers : q # p => task'[q] = task[q]
        /\ \A u \in Types : task'[p][u] = IF u = t THEN "sleep" ELSE task[p][u]
        /\ Cardinality({u \in Others : task[p][u] # "done"}') = pending[p]
    BY ZenonT(60), <1>0, TaskRound
  <1>2. /\ \A q \in Profilers : q # p => collector'[q] = collector[q]
        /\ collector'[p] \in {"spawn", "wait"}
    BY <1>0 DEF TypeOK, CollectTypeOK
  <1>3. TypeOK'
    BY <1>0, <1>1 DEF TypeOK, CallTypeOK, CollectTypeOK, SendTypeOK, callVars, sendVars, fateVars
  <1>4. ASSUME NEW q \in Profilers PROVE LifeOf(q)' /\ RoundOf(q)'
    <2>1. LifeOf(q)'
      BY <1>0, <1>2, LifeFrame DEF RunInv, callVars, sendVars
    <2>2. CASE q # p
      BY <1>0, <1>1, <1>2, <2>1, <2>2, RoundFrame DEF RunInv
    <2>3. CASE q = p
      BY <1>0, <1>1, <1>2, <2>1, <2>3 DEF RunInv, RoundOf
    <2> QED BY <2>2, <2>3
  <1>5. SenderInv'
    BY <1>0, <1>2 DEF SenderInv, SenderOf, callVars, sendVars
  <1> QED BY <1>0, <1>3, <1>4, <1>5 DEF RunInv, callVars

LEMMA CollectState ==
    ASSUME StateInv, NEW p \in Profilers, NEW t \in Others, Collect(p, t)
    PROVE  StateInv'
  <1> USE DEF StateInv
  <1>0. /\ t \in Types /\ t # CPU /\ task[p][t] = "sleep" /\ task' = [task EXCEPT ![p][t] = "done"]
        /\ pending' = [pending EXCEPT ![p] = @ - 1]
        /\ UNCHANGED <<callVars, collector, seq, cpu, out, sendVars, fateVars>>
    BY DEF Collect, Others
  <1>1. /\ task' \in [Profilers -> [Types -> {"off", "sleep", "profile", "done"}]]
        /\ \A q \in Profilers : q # p => task'[q] = task[q]
        /\ \A u \in Types : task'[p][u] = IF u = t THEN "done" ELSE task[p][u]
        /\ Cardinality({u \in Others : task[p][u] # "done"}') = pending[p] - 1
        /\ pending[p] > 0 /\ collector[p] \in {"spawn", "wait"}
    BY ZenonT(60), <1>0, TaskRound
  <1>2. /\ pending' \in [Profilers -> 0 .. Cardinality(Others)] /\ pending'[p] = pending[p] - 1
        /\ \A q \in Profilers : q # p => pending'[q] = pending[q]
    BY <1>0, <1>1, PendingFinite DEF TypeOK, CollectTypeOK
  <1>3. TypeOK'
    BY <1>0, <1>1, <1>2 DEF TypeOK, CallTypeOK, CollectTypeOK, SendTypeOK, callVars, sendVars, fateVars
  <1>4. ASSUME NEW q \in Profilers PROVE LifeOf(q)' /\ RoundOf(q)'
    <2>1. LifeOf(q)'
      BY <1>0, LifeFrame DEF RunInv, callVars, sendVars
    <2>2. CASE q # p
      BY <1>0, <1>1, <1>2, <2>1, <2>2, RoundFrame DEF RunInv
    <2>3. CASE q = p
      <3>1. CPU \in Types => task'[p][CPU] = task[p][CPU]
        BY <1>0, <1>1
      <3>2. pending'[p] = Cardinality({u \in Others : task[p][u] # "done"}')
        BY <1>1, <1>2
      <3>3. cpu' = p <=> CPU \in Types /\ task'[p][CPU] = "profile"
        BY <1>0, <3>1 DEF RunInv, RoundOf
      <3>4. collector'[p] \in {"spawn", "wait"}
        BY <1>0, <1>1
      <3> QED BY <2>1, <2>3, <3>2, <3>3, <3>4 DEF RoundOf
    <2> QED BY <2>2, <2>3
  <1>5. SenderInv'
    BY <1>0 DEF SenderInv, SenderOf, callVars, sendVars
  <1> QED BY <1>0, <1>3, <1>4, <1>5 DEF RunInv, callVars

LEMMA CPUState ==
    ASSUME StateInv, NEW p \in Profilers, StartCPUProfile(p) \/ StopCPUProfile(p)
    PROVE  StateInv'
  <1> USE DEF StateInv
  <1>0. /\ CPU \in Types /\ task[p][CPU] # "done"
        /\ UNCHANGED <<callVars, collector, seq, pending, out, sendVars, fateVars>>
    BY DEF StartCPUProfile, StopCPUProfile
  <1>1. PICK v \in {"profile", "done"} :
          /\ task' = [task EXCEPT ![p][CPU] = v]
          /\ \/ v = "profile" /\ cpu = 0 /\ cpu' = p
             \/ v = "done" /\ task[p][CPU] = "sleep" /\ cpu' = cpu
             \/ v = "done" /\ task[p][CPU] = "profile" /\ cpu' = 0
    BY DEF StartCPUProfile, StopCPUProfile
  <1>2. /\ task' \in [Profilers -> [Types -> {"off", "sleep", "profile", "done"}]]
        /\ \A q \in Profilers : q # p => task'[q] = task[q]
        /\ \A u \in Types : task'[p][u] = IF u = CPU THEN v ELSE task[p][u]
        /\ Cardinality({u \in Others : task[p][u] # "done"}') = pending[p]
        /\ collector[p] \in {"spawn", "wait"}
    BY ZenonT(60), <1>0, <1>1, TaskRound
  <1>3. cpu' \in {App} \cup 0 .. MaxStarts
    BY <1>1, BoundAssumption DEF TypeOK, CollectTypeOK, Profilers
  <1>4. TypeOK'
    BY <1>0, <1>2, <1>3 DEF TypeOK, CallTypeOK, CollectTypeOK, SendTypeOK, callVars, sendVars, fateVars
  <1>5. cpu = p <=> task[p][CPU] = "profile"
    BY <1>0 DEF RunInv, RoundOf
  <1>6. ASSUME NEW q \in Profilers PROVE LifeOf(q)' /\ RoundOf(q)'
    <2>1. LifeOf(q)'
      BY <1>0, LifeFrame DEF RunInv, callVars, sendVars
    <2>2. CASE q # p
      <3>1. cpu' = q <=> cpu = q
        BY <1>1, <1>5, <2>2, ProfilerNumbers
      <3> QED BY <1>0, <1>2, <2>1, <2>2, <3>1, RoundFrame DEF RunInv
    <2>3. CASE q = p
      <3>1. cpu' = p <=> v = "profile"
        BY <1>1, <1>5, ProfilerNumbers
      <3> QED BY <1>0, <1>2, <2>1, <2>3, <3>1 DEF RoundOf
    <2> QED BY <2>2, <2>3
  <1>7. SenderInv'
    BY <1>0 DEF SenderInv, SenderOf, callVars, sendVars
  <1> QED BY <1>0, <1>4, <1>6, <1>7 DEF RunInv, callVars

-----------------------------------------------------------------------------
(* The collecting goroutine. *)

\* A step of the collector of p between two places of a round.
LEMMA CollectorMoves ==
    ASSUME StateInv, NEW p \in Profilers, collector[p] \notin {"new", "exited"},
           NEW v \in {"enqueue", "evict", "select", "exited"},
           collector' = [collector EXCEPT ![p] = v],
           v = "exited" => exit[p],
           \A t \in Types : task[p][t] = "done",
           UNCHANGED <<callVars, seq, task, pending, cpu, sendVars>>
    PROVE  CallTypeOK' /\ CollectTypeOK' /\ RunInv' /\ SenderInv'
  <1> USE DEF StateInv
  <1>1. collector'[p] = v /\ \A q \in Profilers : q # p => collector'[q] = collector[q]
    BY DEF TypeOK, CollectTypeOK
  <1>2. CallTypeOK' /\ CollectTypeOK'
    BY DEF TypeOK, CallTypeOK, CollectTypeOK, callVars
  <1>3. ASSUME NEW q \in Profilers PROVE LifeOf(q)' /\ RoundOf(q)'
    <2>1. LifeOf(q)'
      BY <1>1, LifeFrame DEF RunInv, callVars, sendVars
    <2>2. RoundOf(q)'
      BY <1>1, RoundFrame DEF RunInv
    <2> QED BY <2>1, <2>2
  <1>4. SenderInv'
    BY <1>1 DEF SenderInv, SenderOf, callVars, sendVars
  <1> QED BY <1>2, <1>3, <1>4 DEF RunInv, callVars

LEMMA BatchReadyState ==
    ASSUME StateInv, NEW p \in Profilers, BatchReady(p) \/ CollectExit(p)
    PROVE  StateInv'
  <1>1. /\ \A t \in Types : task[p][t] = "done"
        /\ UNCHANGED <<callVars, seq, task, pending, cpu, out, sendVars, fateVars>>
    BY DEF BatchReady, CollectExit, StateInv, RunInv, RoundOf
  <1>2. CallTypeOK' /\ CollectTypeOK' /\ RunInv' /\ SenderInv'
    BY <1>1, CollectorMoves DEF BatchReady, CollectExit
  <1>3. SendTypeOK'
    BY <1>1 DEF StateInv, TypeOK, SendTypeOK, sendVars, fateVars
  <1> QED BY <1>2, <1>3 DEF StateInv, TypeOK

LEMMA CurrentTyped ==
    ASSUME StateInv, NEW p \in Profilers, collector[p] # "new"
    PROVE  /\ Current(p) \in Batches /\ Current(p) = [profiler |-> p, seq |-> seq[p] - 1]
           /\ seq[p] - 1 \in Nat
  <1>1. seq[p] \in Nat /\ seq[p] <= MaxBatches[p] /\ seq[p] # 0
    BY DEF StateInv, TypeOK, CollectTypeOK, RunInv, LifeOf
  <1>2. seq[p] - 1 \in 0 .. MaxBatches[p] - 1 /\ seq[p] - 1 \in Nat
    BY <1>1, ProfilerNumbers
  <1> QED BY <1>2, BatchShape DEF Current

LEMMA EnqueueState ==
    ASSUME StateInv, NEW p \in Profilers, Enqueue(p) \/ Evict(p)
    PROVE  StateInv'
  <1>0. /\ collector[p] \in {"enqueue", "evict"}
        /\ UNCHANGED <<callVars, seq, task, pending, cpu, sendVars, received, uploaded, failed, abandoned>>
    BY DEF Enqueue, Evict, fateVars
  <1>1. \A t \in Types : task[p][t] = "done"
    BY <1>0 DEF StateInv, RunInv, RoundOf
  <1>2. \E v \in {"enqueue", "evict", "select"} : collector' = [collector EXCEPT ![p] = v]
    BY DEF Enqueue, Evict
  <1>3. CallTypeOK' /\ CollectTypeOK' /\ RunInv' /\ SenderInv'
    BY <1>0, <1>1, <1>2, CollectorMoves
  <1>4. out[p] \in Seq(Batches) /\ Len(out[p]) \in Nat /\ Len(out[p]) <= OutSize
    BY DEF StateInv, TypeOK, SendTypeOK
  <1>5. /\ out' \in [Profilers -> Seq(Batches)] /\ \A q \in Profilers : Len(out'[q]) <= OutSize
        /\ evicted' \subseteq Batches
    <2> USE DEF StateInv, TypeOK, SendTypeOK
    <2>1. CASE Enqueue(p) /\ Len(out[p]) < OutSize
      <3>1. Current(p) \in Batches
        BY <1>0, CurrentTyped
      <3>2. Append(out[p], Current(p)) \in Seq(Batches) /\ Len(Append(out[p], Current(p))) <= OutSize
        BY <1>4, <2>1, <3>1, SizeAssumption
      <3>3. out' = [out EXCEPT ![p] = Append(out[p], Current(p))] /\ evicted' = evicted
        BY <2>1 DEF Enqueue, fateVars
      <3> QED BY <3>2, <3>3
    <2>2. CASE Evict(p) /\ out[p] # <<>>
      <3>1. Head(out[p]) \in Batches /\ Tail(out[p]) \in Seq(Batches) /\ Len(Tail(out[p])) <= OutSize
        BY <1>4, <2>2, SizeAssumption
      <3>2. out' = [out EXCEPT ![p] = Tail(out[p])] /\ evicted' = evicted \cup {Head(out[p])}
        BY <2>2 DEF Evict
      <3> QED BY <3>1, <3>2
    <2>3. CASE UNCHANGED <<out, evicted>>
      BY <2>3
    <2> QED BY <2>1, <2>2, <2>3 DEF Enqueue, Evict, fateVars
  <1>6. SendTypeOK'
    BY <1>0, <1>5 DEF StateInv, TypeOK, SendTypeOK, sendVars
  <1> QED BY <1>3, <1>6 DEF StateInv, TypeOK

LEMMA NextBatchState ==
    ASSUME StateInv, NEW p \in Profilers, NextBatch(p)
    PROVE  StateInv'
  <1> USE DEF StateInv
  <1>0. /\ collector[p] = "select" /\ seq[p] < MaxBatches[p] /\ StartBatch(p)
        /\ UNCHANGED <<callVars, cpu, out, sendVars, fateVars>>
    BY DEF NextBatch
  <1>1. /\ collector' = [collector EXCEPT ![p] = "spawn"]
        /\ RoundOf(p)' /\ CollectTypeOK' /\ seq'[p] # 0
        /\ \A q \in Profilers : q # p => /\ collector'[q] = collector[q] /\ seq'[q] = seq[q]
                                         /\ task'[q] = task[q] /\ pending'[q] = pending[q]
    BY <1>0, StartBatchRound DEF RunInv, TypeOK, CollectTypeOK
  <1>2. TypeOK'
    BY <1>0, <1>1 DEF TypeOK, CallTypeOK, SendTypeOK, callVars, sendVars, fateVars
  <1>3. collector'[p] = "spawn"
    BY <1>1 DEF TypeOK, CollectTypeOK
  <1>4. ASSUME NEW q \in Profilers PROVE LifeOf(q)' /\ RoundOf(q)'
    <2>1. CASE q = p
      <3>1. seq[p] # 0
        BY <1>0 DEF RunInv, LifeOf
      <3> QED BY <1>0, <1>1, <1>3, <2>1, <3>1, LifeFrame DEF RunInv, callVars, sendVars
    <2>2. CASE q # p
      BY <1>0, <1>1, <2>2, RoundFrame, LifeFrame DEF RunInv, callVars, sendVars
    <2> QED BY <2>1, <2>2
  <1>5. SenderInv'
    BY <1>0, <1>1, <1>3 DEF SenderInv, SenderOf, callVars, sendVars
  <1> QED BY <1>0, <1>2, <1>4, <1>5 DEF RunInv, callVars

-----------------------------------------------------------------------------
(* The sending goroutine. *)

\* No step of the sender of p touches the other goroutines.
LEMMA SenderFrame ==
    ASSUME StateInv, NEW p \in Profilers, Sender(p)
    PROVE  /\ UNCHANGED <<callVars, collectVars>>
           /\ sender[p] \notin {"new", "exited"} /\ sender'[p] # "new"
           /\ \A q \in Profilers : q # p => sender'[q] = sender[q] /\ bat'[q] = bat[q] /\ tries'[q] = tries[q]
           /\ sender' \in [Profilers -> {"new", "select", "output", "loop", "request", "backoff", "exited"}]
           /\ CallTypeOK' /\ CollectTypeOK' /\ RunInv'
  <1> USE DEF StateInv, TypeOK
  <1>1. UNCHANGED <<callVars, collectVars>>
    BY DEF Sender, SendExit, SendTake, Output, GiveUp, Abandon, Try, RequestOK, RequestRefused,
       RequestRetriable, Backoff
  <1>2. \E v \in {"select", "output", "loop", "request", "backoff", "exited"} :
            sender' = [sender EXCEPT ![p] = v]
    BY DEF Sender, SendExit, SendTake, Output, GiveUp, Abandon, Try, RequestOK, RequestRefused,
       RequestRetriable, Backoff, Back
  <1>3. sender[p] \notin {"new", "exited"}
    BY DEF Sender, SendExit, SendTake, Output, GiveUp, Abandon, Try, RequestOK, RequestRefused,
       RequestRetriable, Backoff
  <1>4. \A q \in Profilers : q # p => bat'[q] = bat[q] /\ tries'[q] = tries[q]
    BY DEF Sender, SendExit, SendTake, Output, GiveUp, Abandon, Try, RequestOK, RequestRefused,
       RequestRetriable, Backoff, Back, SendTypeOK
  <1>5. /\ sender'[p] # "new" /\ \A q \in Profilers : q # p => sender'[q] = sender[q]
        /\ sender' \in [Profilers -> {"new", "select", "output", "loop", "request", "backoff", "exited"}]
    BY <1>2 DEF SendTypeOK
  <1>6. CallTypeOK' /\ CollectTypeOK'
    BY <1>1 DEF CallTypeOK, CollectTypeOK, callVars, collectVars
  <1>7. ASSUME NEW q \in Profilers PROVE LifeOf(q)' /\ RoundOf(q)'
    BY <1>1, <1>3, <1>5, <1>7, LifeFrame, RoundFrame DEF RunInv, callVars, collectVars
  <1> QED BY <1>1, <1>3, <1>4, <1>5, <1>6, <1>7 DEF RunInv, callVars

\* The zero batch is not posted.
LEMMA RealBatch ==
    ASSUME StateInv, NEW p \in Profilers,
           \/ sender[p] \in {"request", "backoff"}
           \/ sender[p] = "loop" /\ (tries[p] = MaxRetries \/ ~exit[p])
    PROVE  bat[p] \in Batches
  BY SizeAssumption DEF StateInv, SenderInv, SenderOf, TypeOK, SendTypeOK

LEMMA GotTyped ==
    ASSUME SendTypeOK, NEW p \in Profilers, bat[p] \in Batches
    PROVE  Got(p) \in [Profilers -> [last : Int, newest : Int]]
  <1>1. bat[p].seq \in Int /\ received[p] \in [last : Int, newest : Int]
    BY BatchShape DEF SendTypeOK
  <1>2. [last |-> bat[p].seq,
         newest |-> IF bat[p].seq > received[p].newest THEN bat[p].seq ELSE received[p].newest]
           \in [last : Int, newest : Int]
    BY <1>1
  <1> QED BY <1>2 DEF Got, SendTypeOK

LEMMA SenderState ==
    ASSUME StateInv, NEW p \in Profilers, Sender(p)
    PROVE  StateInv'
  <1> USE DEF StateInv, TypeOK
  <1>0. /\ UNCHANGED <<callVars, collectVars>>
        /\ \A q \in Profilers : q # p => sender'[q] = sender[q] /\ bat'[q] = bat[q] /\ tries'[q] = tries[q]
        /\ sender' \in [Profilers -> {"new", "select", "output", "loop", "request", "backoff", "exited"}]
        /\ CallTypeOK' /\ CollectTypeOK' /\ RunInv' /\ UNCHANGED <<exit, collector>>
    BY SenderFrame DEF callVars, collectVars
  <1>1. ASSUME SendTypeOK', SenderOf(p)' PROVE StateInv'
    <2>1. ASSUME NEW q \in Profilers, q # p PROVE SenderOf(q)'
      BY <1>0, <2>1 DEF SenderInv, SenderOf
    <2> QED BY <1>0, <1>1, <2>1 DEF SenderInv
  <1>2. SenderOf(p) /\ SendTypeOK
    BY DEF SenderInv
  <1>3. CASE SendExit(p) \/ Output(p) \/ Try(p) \/ Backoff(p)
    <2>1. /\ UNCHANGED <<out, bat, fateVars>>
          /\ tries' \in [Profilers -> 0 .. MaxRetries]
      BY <1>2, <1>3, SizeAssumption DEF SendExit, Output, Try, Backoff, fateVars, SendTypeOK
    <2>2. SendTypeOK'
      BY <1>0, <1>2, <2>1 DEF SendTypeOK, fateVars
    <2>3. SenderOf(p)'
      BY <1>0, <1>2, <1>3, <2>1 DEF SenderOf, SendExit, Output, Try, Backoff, SendTypeOK
    <2> QED BY <1>1, <2>2, <2>3
  <1>4. CASE SendTake(p)
    <2>1. /\ sender'[p] = "output" /\ UNCHANGED <<tries, fateVars>>
          /\ out[p] \in Seq(Batches) /\ Len(out[p]) <= OutSize
      BY <1>2, <1>4 DEF SendTake, SendTypeOK
    <2>2. CASE out[p] # <<>>
      <3>1. Head(out[p]) \in Batches /\ Tail(out[p]) \in Seq(Batches) /\ Len(Tail(out[p])) <= OutSize
        BY <2>1, <2>2, SizeAssumption
      <3>2. out' = [out EXCEPT ![p] = Tail(out[p])] /\ bat' = [bat EXCEPT ![p] = Head(out[p])]
        BY <1>4, <2>2 DEF SendTake
      <3>3. SendTypeOK'
        BY <1>0, <1>2, <2>1, <3>1, <3>2 DEF SendTypeOK, fateVars
      <3>4. bat'[p] # Zero
        BY <1>2, <3>1, <3>2, BatchShape DEF SendTypeOK
      <3> QED BY <1>0, <1>1, <1>2, <2>1, <3>3, <3>4 DEF SenderOf
    <2>3. CASE out[p] = <<>>
      <3>1. collector[p] = "exited" /\ bat' = [bat EXCEPT ![p] = Zero] /\ UNCHANGED out
        BY <1>4, <2>3 DEF SendTake
      <3>2. SendTypeOK'
        BY <1>0, <1>2, <2>1, <3>1 DEF SendTypeOK, fateVars
      <3> QED BY <1>0, <1>1, <1>2, <2>1, <3>1, <3>2 DEF SenderOf
    <2> QED BY <2>2, <2>3
  <1>5. CASE GiveUp(p) \/ Abandon(p) \/ RequestRefused(p) \/ RequestOK(p)
    <2>1. /\ UNCHANGED <<out, tries, evicted>> /\ sender'[p] = "select"
          /\ bat' = [bat EXCEPT ![p] = Zero]
      BY <1>2, <1>5 DEF GiveUp, Abandon, RequestRefused, RequestOK, Back, SendTypeOK
    <2>2. /\ uploaded' \subseteq Batches /\ failed' \subseteq Batches
          /\ abandoned' \subseteq Batches \cup {Zero}
      BY <1>2, <1>5, RealBatch DEF GiveUp, Abandon, RequestRefused, RequestOK, SendTypeOK
    <2>3. received' \in [Profilers -> [last : Int, newest : Int]]
      <3>1. CASE RequestOK(p)
        BY <1>2, <3>1, GotTyped, RealBatch DEF RequestOK
      <3>2. CASE UNCHANGED received
        BY <1>2, <3>2 DEF SendTypeOK
      <3> QED BY <1>5, <3>1, <3>2 DEF GiveUp, Abandon, RequestRefused
    <2>4. SendTypeOK'
      BY <1>0, <1>2, <2>1, <2>2, <2>3 DEF SendTypeOK
    <2>5. bat'[p] = Zero
      BY <1>2, <2>1 DEF SendTypeOK
    <2> QED BY <1>0, <1>1, <1>2, <2>1, <2>4, <2>5 DEF SenderOf
  <1>6. CASE RequestRetriable(p)
    <2>1. /\ UNCHANGED <<out, bat, uploaded, evicted, failed, abandoned>> /\ sender'[p] = "backoff"
          /\ tries' = [tries EXCEPT ![p] = @ + 1] /\ sender[p] = "request"
      BY <1>2, <1>6 DEF RequestRetriable, SendTypeOK
    <2>2. tries' \in [Profilers -> 0 .. MaxRetries]
      BY <1>2, <2>1, SizeAssumption DEF SendTypeOK, SenderOf
    <2>3. received' \in [Profilers -> [last : Int, newest : Int]]
      BY <1>2, <1>6, GotTyped, RealBatch DEF RequestRetriable, SendTypeOK
    <2>4. SendTypeOK'
      BY <1>0, <1>2, <2>1, <2>2, <2>3 DEF SendTypeOK
    <2>5. bat[p] # Zero
      BY <2>1, RealBatch, BatchShape
    <2> QED BY <1>0, <1>1, <1>2, <2>1, <2>4, <2>5 DEF SenderOf
  <1> QED BY <1>3, <1>4, <1>5, <1>6 DEF Sender

-----------------------------------------------------------------------------
LEMMA InitState == Init => StateInv
  <1> SUFFICES ASSUME Init PROVE StateInv
    OBVIOUS
  <1> USE DEF Init
  <1>1. CallTypeOK
    BY BoundAssumption DEF CallTypeOK
  <1>2. CollectTypeOK
    BY BoundAssumption, ProfilerNumbers, PendingFinite DEF CollectTypeOK
  <1>3. SendTypeOK
    BY SizeAssumption DEF SendTypeOK
  <1>4. ASSUME NEW p \in Profilers PROVE LifeOf(p)
    BY ProfilerNumbers DEF LifeOf, Gone
  <1>5. ASSUME NEW p \in Profilers PROVE RoundOf(p)
    <2>1. {t \in Others : task[p][t] # "done"} = {}
      BY DEF Others
    <2> QED BY <2>1, FS_EmptySet, ProfilerNumbers DEF RoundOf
  <1>6. SenderInv
    BY DEF SenderInv, SenderOf
  <1> QED BY <1>1, <1>2, <1>3, <1>4, <1>5, <1>6 DEF StateInv, TypeOK, RunInv

LEMMA StateStep == StateInv /\ [Next]_vars => StateInv'
  <1> SUFFICES ASSUME StateInv, [Next]_vars PROVE StateInv'
    OBVIOUS
  <1>1. CASE Next
    <2>1. CASE Call("start") \/ Call("stop")
      BY <2>1, CallState
    <2>2. CASE Return
      BY <2>2, ReturnState, StartRunState DEF Return
    <2>3. CASE AppCPUProfile
      BY <2>3, AppState
    <2>4. ASSUME NEW p \in Profilers, Task(p) PROVE StateInv'
      BY <2>4, CollectState, CPUState DEF Task
    <2>5. ASSUME NEW p \in Profilers, Collector(p) PROVE StateInv'
      BY <2>5, SpawnState, BatchReadyState, EnqueueState, NextBatchState DEF Collector
    <2>6. ASSUME NEW p \in Profilers, Sender(p) PROVE StateInv'
      BY <2>6, SenderState
    <2> QED BY <1>1, <2>1, <2>2, <2>3, <2>4, <2>5, <2>6 DEF Next
  <1>2. CASE UNCHANGED vars
    <2>1. TypeOK'
      BY <1>2 DEF StateInv, TypeOK, CallTypeOK, CollectTypeOK, SendTypeOK, vars, callVars, collectVars,
         sendVars, fateVars
    <2>2. RunInv'
      BY <1>2, LifeFrame, RoundFrame DEF StateInv, RunInv, vars, callVars, collectVars, sendVars
    <2>3. SenderInv'
      BY <1>2 DEF StateInv, SenderInv, SenderOf, vars, callVars, collectVars, sendVars
    <2> QED BY <2>1, <2>2, <2>3 DEF StateInv
  <1> QED BY <1>1, <1>2

LEMMA StateInvariance == Spec => []StateInv
  BY InitState, StateStep, PTL DEF Spec

\* However Start, Stop and failing Starts follow each other, at most one profiler is at
\* work, and it is the one the runtime's CPU profiler runs for (profiler.go:36-60).
THEOREM OneProfilerRuns == Spec => []OneProfiler
  <1>1. StateInv => OneProfiler
    <2> SUFFICES ASSUME StateInv PROVE OneProfiler
      OBVIOUS
    <2>1. Running \subseteq {active}
      BY DEF Running, StateInv, RunInv, LifeOf
    <2>2. ASSUME cpu \in Profilers
          PROVE  cpu \in Running /\ CPU \in Types /\ task[cpu][CPU] = "profile"
      <3>1. CPU \in Types /\ task[cpu][CPU] = "profile"
        BY <2>2 DEF StateInv, RunInv, RoundOf
      <3>2. collector[cpu] \in {"spawn", "wait"}
        BY <2>2, <3>1 DEF StateInv, RunInv, RoundOf
      <3> QED BY <2>2, <3>1, <3>2 DEF Running, Gone
    <2> QED BY <2>1, <2>2 DEF OneProfiler
  <1> QED BY <1>1, StateInvariance, PTL

\* While a profile of another type is being collected, a CPU profile that was started
\* goes on: pendingProfiles counts exactly the goroutines whose profile is to come
\* (profile.go:97, profiler.go:292-300).
THEOREM CPUProfileLast == Spec => CPULast
  <1>1. ASSUME StateInv, [Next]_vars, NEW p \in Profilers,
               CPU \in Types, task[p][CPU] = "profile", task'[p][CPU] = "done"
        PROVE  \A t \in Others : task[p][t] = "done"
    <2> USE DEF StateInv, TypeOK, CollectTypeOK
    <2>1. CASE StopCPUProfile(p)
      <3> DEFINE Left == {t \in Others : task[p][t] # "done"}
      <3>1. Cardinality(Left) = 0 /\ IsFiniteSet(Left)
        BY <1>1, <2>1, PendingFinite DEF StopCPUProfile, RunInv, RoundOf
      <3>2. Left = {}
        BY <3>1, FS_EmptySet
      <3> QED BY <3>2
    <2>2. collector[p] \in {"spawn", "wait"}
      BY <1>1 DEF RunInv, RoundOf
    <2>3. ASSUME NEW q \in Profilers, NEW t \in Types, Spawn(q, t) PROVE FALSE
      BY <1>1, <2>3 DEF Spawn
    <2>4. ASSUME NEW q \in Profilers, NEW t \in Others, Collect(q, t) PROVE FALSE
      BY <1>1, <2>4 DEF Collect, Others
    <2>5. ASSUME NEW q \in Profilers, NextBatch(q) PROVE FALSE
      BY <1>1, <2>2, <2>5 DEF NextBatch, StartBatch
    <2>6. ASSUME StartRun PROVE FALSE
      <3>1. PICK q \in Profilers : q = created + 1
        BY <1>1, <2>6, ProfilerNumbers DEF StartRun, CallTypeOK
      <3>2. StartBatch(q)
        BY <2>6, <3>1 DEF StartRun
      <3> QED BY <1>1, <3>1, <3>2 DEF StartBatch
    <2>7. ASSUME NEW q \in Profilers, StartCPUProfile(q) PROVE FALSE
      BY <1>1, <2>7 DEF StartCPUProfile
    <2>8. ASSUME NEW q \in Profilers, q # p, StopCPUProfile(q) PROVE FALSE
      BY <1>1, <2>8 DEF StopCPUProfile
    <2>9. task' # task
      BY <1>1
    <2>10. ASSUME NEW q \in Profilers, Sender(q) PROVE FALSE
      BY <1>1, <2>9, <2>10, SenderFrame DEF collectVars
    <2>11. ~(Call("start") \/ Call("stop") \/ StopReturn \/ StartFail \/ AppCPUProfile)
      BY <2>9 DEF Call, StopReturn, StartFail, AppCPUProfile, collectVars
    <2>12. ASSUME NEW q \in Profilers, BatchReady(q) \/ Enqueue(q) \/ Evict(q) \/ CollectExit(q)
           PROVE  FALSE
      BY <2>9, <2>12 DEF BatchReady, Enqueue, Evict, CollectExit
    <2>13. ~UNCHANGED vars
      BY <2>9 DEF vars, collectVars
    <2> QED BY <1>1, <2>1, <2>3, <2>4, <2>5, <2>6, <2>7, <2>8, <2>10, <2>11, <2>12, <2>13
            DEF Next, Return, Task, Collector
  <1>2. StateInv /\ [Next]_vars =>
          [\A p \in Profilers :
              (CPU \in Types /\ task[p][CPU] = "profile" /\ task'[p][CPU] = "done") =>
                  \A t \in Others : task[p][t] = "done"]_vars
    BY <1>1
  <1> QED BY <1>2, StateInvariance, PTL DEF Spec, CPULast

-----------------------------------------------------------------------------
(* The order of the batches of a profiler. *)

OrderStateInv == StateInv /\ OrderInv

\* The head of a queue and what is behind it.
LEMMA HeadTail ==
    ASSUME NEW S, NEW s \in Seq(S), s # <<>>
    PROVE  /\ Len(s) \in Nat /\ Len(s) >= 1 /\ Head(s) = s[1] /\ Head(s) \in S
           /\ Tail(s) \in Seq(S) /\ Len(Tail(s)) = Len(s) - 1
           /\ \A i \in 1 .. Len(Tail(s)) : i + 1 \in 1 .. Len(s) /\ Tail(s)[i] = s[i + 1]
  OBVIOUS

LEMMA AppendIs ==
    ASSUME NEW S, NEW s \in Seq(S), NEW e \in S
    PROVE  /\ Len(s) \in Nat /\ Len(Append(s, e)) = Len(s) + 1
           /\ \A i \in 1 .. Len(s) : Append(s, e)[i] = s[i]
           /\ Append(s, e)[Len(s) + 1] = e
  OBVIOUS

LEMMA LimitTyped ==
    ASSUME TypeOK, NEW p \in Profilers
    PROVE  Limit(p) \in Int
  BY DEF TypeOK, CollectTypeOK, Limit

LEMMA OrderTyped ==
    ASSUME TypeOK, NEW p \in Profilers
    PROVE  /\ out[p] \in Seq(Batches) /\ Len(out[p]) \in Nat
           /\ \A i \in 1 .. Len(out[p]) : out[p][i] \in Batches /\ out[p][i].seq \in Nat
           /\ received[p].newest \in Int /\ received[p].last \in Int
           /\ bat[p] # Zero => bat[p] \in Batches /\ bat[p].seq \in Nat
           /\ \A b \in uploaded \cup evicted \cup failed \cup abandoned :
                b.profiler = p => b.seq \in Nat
  <1>1. out[p] \in Seq(Batches) /\ received[p] \in [last : Int, newest : Int] /\ bat[p] \in Batches \cup {Zero}
    BY DEF TypeOK, SendTypeOK
  <1>2. \A b \in uploaded \cup evicted \cup failed \cup abandoned : b \in Batches \cup {Zero}
    BY DEF TypeOK, SendTypeOK
  <1>3. Zero.profiler # p
    BY ProfilerNumbers DEF Zero
  <1>4. Len(out[p]) \in Nat /\ \A i \in 1 .. Len(out[p]) : out[p][i] \in Batches
    BY <1>1
  <1> QED BY <1>1, <1>2, <1>3, <1>4, BatchShape

\* What is sorted stays so while nothing of the profiler but its limit moves.
LEMMA OrderFrame ==
    ASSUME TypeOK, TypeOK', NEW q \in Profilers, QueueOf(q) /\ OrderOf(q),
           Limit(q) <= Limit(q)', out'[q] = out[q], bat'[q] \in {bat[q], Zero},
           received'[q] = received[q],
           \A b \in evicted' : b.profiler = q => b \in evicted,
           \A b \in (uploaded \cup failed \cup abandoned)' :
               b.profiler = q => b \in uploaded \cup evicted \cup failed \cup abandoned \cup {bat[q]}
    PROVE  QueueOf(q)' /\ OrderOf(q)'
  <1> USE OrderTyped, LimitTyped
  <1>0. Limit(q) \in Int /\ Limit(q)' \in Int
    BY DEF TypeOK, CollectTypeOK, Limit
  <1>1. /\ Len(out[q]) \in Nat /\ \A i \in 1 .. Len(out[q]) : out[q][i].seq \in Nat
        /\ received[q].newest \in Int
        /\ bat[q] # Zero => bat[q].seq \in Nat
        /\ \A b \in uploaded \cup evicted \cup failed \cup abandoned : b.profiler = q => b.seq \in Nat
    OBVIOUS
  <1>2. QueueOf(q)'
    BY <1>0, <1>1 DEF QueueOf
  <1>3. \A b \in (uploaded \cup evicted \cup failed \cup abandoned)' :
           b.profiler = q => b.seq < Limit(q)'
    <2> SUFFICES ASSUME NEW b \in (uploaded \cup evicted \cup failed \cup abandoned)', b.profiler = q
                 PROVE  b.seq < Limit(q)'
      OBVIOUS
    <2>1. CASE b \in uploaded \cup evicted \cup failed \cup abandoned
      BY <1>0, <1>1, <2>1 DEF OrderOf
    <2>2. CASE b = bat[q]
      <3>1. bat[q] # Zero
        BY <2>2, ProfilerNumbers DEF Zero
      <3> QED BY <1>0, <1>1, <2>2, <3>1 DEF OrderOf
    <2> QED BY <2>1, <2>2
  <1>4. OrderOf(q)'
    BY <1>0, <1>1, <1>3 DEF OrderOf
  <1> QED BY <1>2, <1>4

\* Steps that leave the queues, the senders' batches and the fates alone.
LEMMA RoundOrder ==
    ASSUME OrderStateInv, TypeOK', UNCHANGED <<out, bat, fateVars>>,
           \A q \in Profilers : Limit(q)' = Limit(q)
    PROVE  OrderInv'
  <1> SUFFICES ASSUME NEW q \in Profilers PROVE QueueOf(q)' /\ OrderOf(q)'
    BY DEF OrderInv
  <1>1. Limit(q) <= Limit(q)'
    BY LimitTyped DEF OrderStateInv, StateInv
  <1> QED BY <1>1, OrderFrame DEF OrderStateInv, StateInv, OrderInv, fateVars

LEMMA StartBatchLimit ==
    ASSUME TypeOK, NEW p \in Profilers, ~Collecting(p), StartBatch(p)
    PROVE  \A q \in Profilers : Limit(q)' = Limit(q)
  <1> USE DEF StartBatch, TypeOK, CollectTypeOK
  <1>1. Limit(p)' = Limit(p)
    BY DEF Limit, Collecting
  <1>2. ASSUME NEW q \in Profilers, q # p PROVE Limit(q)' = Limit(q)
    BY <1>2 DEF Limit, Collecting
  <1> QED BY <1>1, <1>2

\* The steps of Start, Stop, the profiles and of a round before its batch is enqueued.
LEMMA QuietOrder ==
    ASSUME OrderStateInv, StateInv',
           \/ \E what \in {"start", "stop"} : Call(what)
           \/ Return \/ AppCPUProfile
           \/ \E p \in Profilers : \/ Task(p) \/ NextBatch(p) \/ BatchReady(p) \/ CollectExit(p)
                                   \/ \E t \in Types : Spawn(p, t)
    PROVE  OrderInv'
  <1> USE DEF OrderStateInv, StateInv
  <1>1. ASSUME NEW p \in Profilers, ~Collecting(p), StartBatch(p), UNCHANGED <<out, bat, fateVars>>
        PROVE  OrderInv'
    BY <1>1, StartBatchLimit, RoundOrder
  <1>2. ASSUME UNCHANGED <<collector, seq, out, bat, fateVars>> PROVE OrderInv'
    <2>1. \A q \in Profilers : Limit(q)' = Limit(q)
      BY <1>2 DEF Limit, Collecting
    <2> QED BY <1>2, <2>1, RoundOrder
  <1>3. ASSUME NEW p \in Profilers, NEW v \in {"spawn", "wait", "enqueue", "exited"},
               collector' = [collector EXCEPT ![p] = v], v = "exited" <=> ~Collecting(p),
               UNCHANGED <<seq, out, bat, fateVars>>
        PROVE  OrderInv'
    <2>1. \A q \in Profilers : Collecting(q)' <=> Collecting(q)
      BY <1>3 DEF Collecting, TypeOK, CollectTypeOK
    <2>2. \A q \in Profilers : Limit(q)' = Limit(q)
      BY <1>3, <2>1 DEF Limit
    <2> QED BY <1>3, <2>2, RoundOrder
  <1>4. ASSUME NEW what \in {"start", "stop"}, Call(what) PROVE OrderInv'
    BY <1>2, <1>4 DEF Call, collectVars, sendVars
  <1>5. ASSUME StopReturn \/ StartFail \/ AppCPUProfile PROVE OrderInv'
    BY <1>2, <1>5 DEF StopReturn, StartFail, AppCPUProfile, collectVars, sendVars
  <1>6. ASSUME StartRun PROVE OrderInv'
    <2>1. PICK p \in Profilers : p = created + 1
      BY <1>6, ProfilerNumbers DEF StartRun, TypeOK, CallTypeOK
    <2>2. StartBatch(p) /\ UNCHANGED <<out, bat, fateVars>>
      BY <1>6, <2>1 DEF StartRun
    <2>3. p > created
      BY <2>1 DEF TypeOK, CallTypeOK
    <2>4. ~Collecting(p)
      BY <2>3 DEF RunInv, LifeOf, Collecting
    <2> QED BY <1>1, <2>2, <2>4
  <1>7. ASSUME NEW p \in Profilers, Task(p) PROVE OrderInv'
    BY <1>2, <1>7 DEF Task, Collect, StartCPUProfile, StopCPUProfile, sendVars
  <1>8. ASSUME NEW p \in Profilers, NextBatch(p) PROVE OrderInv'
    BY <1>1, <1>8 DEF NextBatch, Collecting, sendVars
  <1>9. ASSUME NEW p \in Profilers, BatchReady(p) \/ CollectExit(p) PROVE OrderInv'
    BY <1>3, <1>9 DEF BatchReady, CollectExit, Collecting, sendVars
  <1>10. ASSUME NEW p \in Profilers, NEW t \in Types, Spawn(p, t) PROVE OrderInv'
    BY <1>3, <1>10 DEF Spawn, Collecting, sendVars
  <1> QED BY <1>4, <1>5, <1>6, <1>7, <1>8, <1>9, <1>10 DEF Return

\* A batch that is enqueued is newer than all that left the collector before it.
LEMMA EnqueueOrder ==
    ASSUME OrderStateInv, StateInv', NEW p \in Profilers, Enqueue(p)
    PROVE  OrderInv'
  <1> USE DEF OrderStateInv, StateInv
  <1>0. collector[p] = "enqueue" /\ UNCHANGED <<seq, bat, fateVars>>
    BY DEF Enqueue, sendVars
  <1>1. CASE Len(out[p]) < OutSize
    <2>0. Current(p) \in Batches /\ Current(p).profiler = p /\ Current(p).seq = seq[p] - 1
      BY <1>0, CurrentTyped
    <2>1. out' = [out EXCEPT ![p] = Append(out[p], Current(p))]
          /\ collector' = [collector EXCEPT ![p] = "select"]
      BY <1>1 DEF Enqueue
    <2>2. /\ out'[p] = Append(out[p], Current(p)) /\ collector'[p] = "select"
          /\ \A q \in Profilers : q # p => out'[q] = out[q] /\ collector'[q] = collector[q]
      BY <2>1 DEF TypeOK, CollectTypeOK, SendTypeOK
    <2>3. Limit(p) = seq[p] - 1 /\ Limit(p)' = seq[p] /\ seq[p] \in Nat
      BY <1>0, <2>2 DEF Limit, Collecting, TypeOK, CollectTypeOK
    <2>4. ASSUME NEW q \in Profilers, q # p PROVE QueueOf(q)' /\ OrderOf(q)'
      <3>1. Limit(q)' = Limit(q)
        BY <1>0, <2>2, <2>4 DEF Limit, Collecting
      <3>2. Limit(q) <= Limit(q)'
        BY <3>1, LimitTyped
      <3> QED BY <1>0, <2>2, <2>4, <3>2, OrderFrame DEF OrderInv, fateVars
    <2>5. QueueOf(p)'
      <3>1. out[p] \in Seq(Batches) /\ QueueOf(p) /\ OrderOf(p)
        BY OrderTyped DEF OrderInv
      <3>2. /\ \A i \in 1 .. Len(out[p]) : out[p][i].seq \in Nat
            /\ received[p].newest \in Int
            /\ bat[p] # Zero => bat[p].seq \in Nat
            /\ \A b \in evicted : b.profiler = p => b.seq \in Nat
        BY OrderTyped
      <3>3. /\ Len(out[p]) \in Nat /\ Len(out'[p]) = Len(out[p]) + 1
            /\ \A i \in 1 .. Len(out[p]) : out'[p][i] = out[p][i]
            /\ out'[p][Len(out[p]) + 1] = Current(p)
        BY <2>0, <2>2, <3>1, AppendIs
      <3>4. \A i \in 1 .. Len(out'[p]) : i \in 1 .. Len(out[p]) \/ i = Len(out[p]) + 1
        BY <3>3
      <3> SUFFICES ASSUME NEW i \in 1 .. Len(out'[p])
                   PROVE  /\ out'[p][i].profiler = p /\ out'[p][i].seq < Limit(p)'
                          /\ \A j \in 1 .. Len(out'[p]) : i < j => out'[p][i].seq < out'[p][j].seq
                          /\ received[p].newest < out'[p][i].seq
                          /\ bat[p] # Zero => bat[p].seq < out'[p][i].seq
                          /\ \A b \in evicted : b.profiler = p => b.seq < out'[p][i].seq
        BY <1>0 DEF QueueOf, fateVars
      <3>5. CASE i \in 1 .. Len(out[p])
        <4>1. /\ out[p][i].profiler = p /\ out[p][i].seq < Limit(p)
              /\ \A j \in 1 .. Len(out[p]) : i < j => out[p][i].seq < out[p][j].seq
              /\ received[p].newest < out[p][i].seq
              /\ bat[p] # Zero => bat[p].seq < out[p][i].seq
              /\ \A b \in evicted : b.profiler = p => b.seq < out[p][i].seq
          BY <3>1, <3>5 DEF QueueOf
        <4>2. out'[p][i] = out[p][i] /\ out[p][i].seq \in Nat
          BY <3>2, <3>3, <3>5
        <4>3. ASSUME NEW j \in 1 .. Len(out'[p]), i < j PROVE out[p][i].seq < out'[p][j].seq
          BY <2>0, <2>3, <3>3, <3>4, <4>1, <4>3
        <4> QED BY <2>3, <4>1, <4>2, <4>3
      <3>6. CASE i = Len(out[p]) + 1
        BY <2>0, <2>3, <3>1, <3>2, <3>3, <3>4, <3>6 DEF OrderOf
      <3> QED BY <3>4, <3>5, <3>6
    <2>6. OrderOf(p)'
      <3>1. OrderOf(p) /\ Limit(p) < Limit(p)' /\ Limit(p) \in Int /\ Limit(p)' \in Int
        BY <2>3 DEF OrderInv
      <3> QED BY <1>0, <3>1, OrderTyped DEF OrderOf, fateVars
    <2> QED BY <2>4, <2>5, <2>6 DEF OrderInv
  <1>2. CASE ~(Len(out[p]) < OutSize)
    <2>1. collector' = [collector EXCEPT ![p] = "evict"] /\ UNCHANGED out
      BY <1>2 DEF Enqueue
    <2>2. \A q \in Profilers : Collecting(q)' <=> Collecting(q)
      BY <1>0, <2>1 DEF Collecting, TypeOK, CollectTypeOK
    <2>3. \A q \in Profilers : Limit(q)' = Limit(q)
      BY <1>0, <2>2 DEF Limit
    <2> QED BY <1>0, <2>1, <2>3, RoundOrder
  <1> QED BY <1>1, <1>2

\* The oldest batch leaves the queue of p: what stays is newer.
LEMMA PopOrder ==
    ASSUME TypeOK, NEW p \in Profilers, QueueOf(p), out[p] # <<>>, out' = [out EXCEPT ![p] = Tail(@)]
    PROVE  /\ Head(out[p]) \in Batches /\ Head(out[p]).profiler = p /\ Head(out[p]).seq < Limit(p)
           /\ received[p].newest < Head(out[p]).seq
           /\ \A q \in Profilers : q # p => out'[q] = out[q]
           /\ out'[p] = Tail(out[p]) /\ Len(out'[p]) \in Nat
           /\ \A i \in 1 .. Len(out'[p]) :
                /\ out'[p][i].profiler = p /\ out'[p][i].seq < Limit(p)
                /\ \A j \in 1 .. Len(out'[p]) : i < j => out'[p][i].seq < out'[p][j].seq
                /\ received[p].newest < out'[p][i].seq
                /\ bat[p] # Zero => bat[p].seq < out'[p][i].seq
                /\ \A b \in evicted : b.profiler = p => b.seq < out'[p][i].seq
                /\ Head(out[p]).seq < out'[p][i].seq
  <1>1. /\ out'[p] = Tail(out[p]) /\ \A q \in Profilers : q # p => out'[q] = out[q]
        /\ out[p] \in Seq(Batches)
    BY DEF TypeOK, SendTypeOK
  <1>2. /\ Len(out[p]) \in Nat /\ Len(out[p]) >= 1 /\ Head(out[p]) = out[p][1] /\ Head(out[p]) \in Batches
        /\ Len(out'[p]) = Len(out[p]) - 1
        /\ \A i \in 1 .. Len(out'[p]) : i + 1 \in 1 .. Len(out[p]) /\ out'[p][i] = out[p][i + 1]
    <2>1. /\ Len(out[p]) \in Nat /\ Len(out[p]) >= 1 /\ Head(out[p]) = out[p][1] /\ Head(out[p]) \in Batches
          /\ Len(Tail(out[p])) = Len(out[p]) - 1
          /\ \A i \in 1 .. Len(Tail(out[p])) :
               i + 1 \in 1 .. Len(out[p]) /\ Tail(out[p])[i] = out[p][i + 1]
      BY <1>1, HeadTail, Zenon
    <2> QED BY <1>1, <2>1, Zenon
  <1>3. 1 \in 1 .. Len(out[p])
    BY <1>2
  <1>4. ASSUME NEW i \in 1 .. Len(out'[p])
        PROVE  /\ out'[p][i].profiler = p /\ out'[p][i].seq < Limit(p)
               /\ \A j \in 1 .. Len(out'[p]) : i < j => out'[p][i].seq < out'[p][j].seq
               /\ received[p].newest < out'[p][i].seq
               /\ bat[p] # Zero => bat[p].seq < out'[p][i].seq
               /\ \A b \in evicted : b.profiler = p => b.seq < out'[p][i].seq
               /\ Head(out[p]).seq < out'[p][i].seq
    <2>1. i + 1 \in 1 .. Len(out[p]) /\ out'[p][i] = out[p][i + 1] /\ 1 < i + 1
      BY <1>2
    <2>2. /\ out[p][i + 1].profiler = p /\ out[p][i + 1].seq < Limit(p)
          /\ \A j \in 1 .. Len(out[p]) : i + 1 < j => out[p][i + 1].seq < out[p][j].seq
          /\ received[p].newest < out[p][i + 1].seq
          /\ bat[p] # Zero => bat[p].seq < out[p][i + 1].seq
          /\ \A b \in evicted : b.profiler = p => b.seq < out[p][i + 1].seq
      BY <2>1 DEF QueueOf
    <2>3. out[p][1].seq < out[p][i + 1].seq
      BY <1>3, <2>1 DEF QueueOf
    <2>4. ASSUME NEW j \in 1 .. Len(out'[p]), i < j PROVE out'[p][i].seq < out'[p][j].seq
      <3>1. j + 1 \in 1 .. Len(out[p]) /\ out'[p][j] = out[p][j + 1] /\ i + 1 < j + 1
        BY <1>2, <2>4
      <3> QED BY <2>1, <2>2, <3>1
    <2> QED BY <1>2, <2>1, <2>2, <2>3, <2>4
  <1>5. /\ Head(out[p]).profiler = p /\ Head(out[p]).seq < Limit(p)
        /\ received[p].newest < Head(out[p]).seq
    BY <1>2, <1>3 DEF QueueOf
  <1>6. Len(out'[p]) \in Nat
    BY <1>2
  <1> QED BY <1>1, <1>2, <1>4, <1>5, <1>6, Zenon

LEMMA EvictOrder ==
    ASSUME OrderStateInv, StateInv', NEW p \in Profilers, Evict(p)
    PROVE  OrderInv'
  <1> USE DEF OrderStateInv, StateInv
  <1>0. /\ collector[p] = "evict" /\ collector' = [collector EXCEPT ![p] = "enqueue"]
        /\ UNCHANGED <<seq, bat, received, uploaded, failed, abandoned>>
    BY DEF Evict, sendVars
  <1>1. \A q \in Profilers : Collecting(q)' <=> Collecting(q)
    BY <1>0 DEF Collecting, TypeOK, CollectTypeOK
  <1>2. \A q \in Profilers : Limit(q)' = Limit(q) /\ Limit(q) <= Limit(q)'
    BY <1>0, <1>1, LimitTyped DEF Limit
  <1>3. CASE out[p] = <<>>
    BY <1>0, <1>2, <1>3, RoundOrder DEF Evict, fateVars
  <1>4. CASE out[p] # <<>>
    <2>1. evicted' = evicted \cup {Head(out[p])} /\ out' = [out EXCEPT ![p] = Tail(@)]
      BY <1>4 DEF Evict
    <2>2. QueueOf(p) /\ OrderOf(p)
      BY DEF OrderInv
    <2>3. /\ Head(out[p]).profiler = p /\ Head(out[p]).seq < Limit(p)
          /\ \A q \in Profilers : q # p => out'[q] = out[q]
          /\ \A i \in 1 .. Len(out'[p]) :
               /\ out'[p][i].profiler = p /\ out'[p][i].seq < Limit(p)
               /\ \A j \in 1 .. Len(out'[p]) : i < j => out'[p][i].seq < out'[p][j].seq
               /\ received[p].newest < out'[p][i].seq
               /\ bat[p] # Zero => bat[p].seq < out'[p][i].seq
               /\ \A b \in evicted : b.profiler = p => b.seq < out'[p][i].seq
               /\ Head(out[p]).seq < out'[p][i].seq
      BY <1>4, <2>1, <2>2, PopOrder
    <2>4. ASSUME NEW q \in Profilers, q # p PROVE QueueOf(q)' /\ OrderOf(q)'
      BY <1>0, <1>2, <2>1, <2>3, <2>4, OrderFrame DEF OrderInv
    <2>5. QueueOf(p)'
      BY <1>0, <1>2, <2>1, <2>3 DEF QueueOf
    <2>6. OrderOf(p)'
      BY <1>0, <1>2, <2>1, <2>2, <2>3 DEF OrderOf
    <2> QED BY <2>4, <2>5, <2>6 DEF OrderInv
  <1> QED BY <1>3, <1>4

\* The sender takes the oldest batch of the queue, or the zero batch.
LEMMA TakeOrder ==
    ASSUME OrderStateInv, StateInv', NEW p \in Profilers, SendTake(p)
    PROVE  OrderInv'
  <1> USE DEF OrderStateInv, StateInv
  <1>0. UNCHANGED <<collector, seq, fateVars>>
    BY DEF SendTake, collectVars
  <1>1. \A q \in Profilers : Limit(q)' = Limit(q) /\ Limit(q) <= Limit(q)'
    BY <1>0, LimitTyped DEF Limit, Collecting
  <1>2. CASE out[p] = <<>>
    <2>1. UNCHANGED out /\ \A q \in Profilers : bat'[q] \in {bat[q], Zero}
      BY <1>2 DEF SendTake, TypeOK, SendTypeOK
    <2>2. ASSUME NEW q \in Profilers PROVE QueueOf(q)' /\ OrderOf(q)'
      BY <1>0, <1>1, <2>1, OrderFrame DEF OrderInv, fateVars
    <2> QED BY <2>2 DEF OrderInv
  <1>3. CASE out[p] # <<>>
    <2>1. bat' = [bat EXCEPT ![p] = Head(out[p])] /\ out' = [out EXCEPT ![p] = Tail(@)]
      BY <1>3 DEF SendTake
    <2>2. QueueOf(p) /\ OrderOf(p)
      BY DEF OrderInv
    <2>3. /\ Head(out[p]) \in Batches /\ Head(out[p]).profiler = p /\ Head(out[p]).seq < Limit(p)
          /\ received[p].newest < Head(out[p]).seq
          /\ \A q \in Profilers : q # p => out'[q] = out[q]
          /\ \A i \in 1 .. Len(out'[p]) :
               /\ out'[p][i].profiler = p /\ out'[p][i].seq < Limit(p)
               /\ \A j \in 1 .. Len(out'[p]) : i < j => out'[p][i].seq < out'[p][j].seq
               /\ received[p].newest < out'[p][i].seq
               /\ \A b \in evicted : b.profiler = p => b.seq < out'[p][i].seq
               /\ Head(out[p]).seq < out'[p][i].seq
      BY <1>3, <2>1, <2>2, PopOrder
    <2>4. bat'[p] = Head(out[p]) /\ \A q \in Profilers : q # p => bat'[q] = bat[q]
      BY <2>1 DEF TypeOK, SendTypeOK
    <2>5. ASSUME NEW q \in Profilers, q # p PROVE QueueOf(q)' /\ OrderOf(q)'
      BY <1>0, <1>1, <2>3, <2>4, <2>5, OrderFrame DEF OrderInv, fateVars
    <2>6. QueueOf(p)'
      BY <1>0, <1>1, <2>3, <2>4 DEF QueueOf, fateVars
    <2>7. received[p].newest <= Head(out[p]).seq
      BY <2>3, OrderTyped, BatchShape
    <2>8. OrderOf(p)'
      BY <1>0, <1>1, <2>2, <2>3, <2>4, <2>7 DEF OrderOf, fateVars
    <2> QED BY <2>5, <2>6, <2>8 DEF OrderInv
  <1> QED BY <1>2, <1>3

\* The agent gets nothing older than what it got before.
LEMMA GotNewest ==
    ASSUME OrderStateInv, NEW p \in Profilers, bat[p] \in Batches
    PROVE  /\ Got(p)[p] = [last |-> bat[p].seq, newest |-> bat[p].seq]
           /\ \A q \in Profilers : q # p => Got(p)[q] = received[q]
  <1>1. received[p].newest <= bat[p].seq /\ received \in [Profilers -> [last : Int, newest : Int]]
    BY BatchShape DEF OrderStateInv, StateInv, TypeOK, SendTypeOK, OrderInv, OrderOf
  <1>2. received[p].newest \in Int /\ bat[p].seq \in Int
    BY <1>1, BatchShape
  <1> QED BY <1>1, <1>2 DEF Got

LEMMA SendOrder ==
    ASSUME OrderStateInv, StateInv', NEW p \in Profilers, Sender(p)
    PROVE  OrderInv'
  <1> USE DEF OrderStateInv, StateInv
  <1>0. UNCHANGED <<collector, seq>> /\ \A q \in Profilers : q # p => bat'[q] = bat[q]
    BY SenderFrame DEF collectVars
  <1>1. \A q \in Profilers : Limit(q)' = Limit(q) /\ Limit(q) <= Limit(q)'
    BY <1>0, LimitTyped DEF Limit, Collecting
  <1>2. CASE SendTake(p)
    BY <1>2, TakeOrder
  <1>3. CASE SendExit(p) \/ Output(p) \/ Try(p) \/ Backoff(p)
    BY <1>1, <1>3, RoundOrder DEF SendExit, Output, Try, Backoff, fateVars
  <1>4. bat[p].profiler \in {0, p}
    BY DEF Zero, OrderInv, OrderOf
  <1>5. CASE GiveUp(p) \/ Abandon(p) \/ RequestRefused(p)
    <2>1. UNCHANGED <<out, received, evicted, uploaded>> /\ bat'[p] = Zero
      BY <1>5 DEF GiveUp, Abandon, RequestRefused, Back, TypeOK, SendTypeOK
    <2>2. failed' \cup abandoned' \subseteq failed \cup abandoned \cup {bat[p]}
      BY <1>5 DEF GiveUp, Abandon, RequestRefused
    <2>3. ASSUME NEW q \in Profilers PROVE QueueOf(q)' /\ OrderOf(q)'
      <3>1. \A b \in (uploaded \cup failed \cup abandoned)' :
               b.profiler = q => b \in uploaded \cup evicted \cup failed \cup abandoned \cup {bat[q]}
        BY <1>4, <2>1, <2>2, ProfilerNumbers
      <3> QED BY <1>0, <1>1, <2>1, <3>1, OrderFrame DEF OrderInv
    <2> QED BY <2>3 DEF OrderInv
  <1>6. CASE RequestOK(p) \/ RequestRetriable(p)
    <2>0. bat[p] \in Batches /\ bat[p] # Zero /\ bat[p].seq \in Nat
      BY <1>6, RealBatch, BatchShape DEF RequestOK, RequestRetriable
    <2>1. /\ UNCHANGED <<out, evicted, failed, abandoned>> /\ bat'[p] \in {bat[p], Zero}
          /\ received' \in {received, Got(p)} /\ uploaded' \subseteq uploaded \cup {bat[p]}
      BY <1>6 DEF RequestOK, RequestRetriable, Back, TypeOK, SendTypeOK
    <2>2. ASSUME NEW q \in Profilers, received'[q] = received[q] PROVE QueueOf(q)' /\ OrderOf(q)'
      <3>1. \A b \in (uploaded \cup failed \cup abandoned)' :
               b.profiler = q => b \in uploaded \cup evicted \cup failed \cup abandoned \cup {bat[q]}
        BY <1>4, <2>1, ProfilerNumbers
      <3> QED BY <1>0, <1>1, <2>1, <2>2, <3>1, OrderFrame DEF OrderInv
    <2>3. CASE received'[p] # received[p]
      <3>1. /\ received'[p].last = bat[p].seq /\ received'[p].newest = bat[p].seq
            /\ \A q \in Profilers : q # p => received'[q] = received[q]
        <4>1. received' = Got(p)
          BY <2>1, <2>3
        <4>2. /\ Got(p)[p] = [last |-> bat[p].seq, newest |-> bat[p].seq]
              /\ \A q \in Profilers : q # p => Got(p)[q] = received[q]
          BY <2>0, GotNewest
        <4> QED BY <4>1, <4>2
      <3>2. QueueOf(p) /\ OrderOf(p)
        BY DEF OrderInv
      <3>3. QueueOf(p)'
        BY <1>1, <2>0, <2>1, <3>1, <3>2 DEF QueueOf
      <3>4. \A b \in (uploaded \cup evicted \cup failed \cup abandoned)' : b.profiler = p => b.seq < Limit(p)
        BY <2>0, <2>1, <3>2 DEF OrderOf
      <3>5. OrderOf(p)'
        BY <1>1, <2>0, <2>1, <3>1, <3>2, <3>4 DEF OrderOf
      <3> QED BY <2>2, <3>1, <3>3, <3>5 DEF OrderInv
    <2>4. CASE received'[p] = received[p]
      <3>1. \A q \in Profilers : received'[q] = received[q]
        BY <2>0, <2>1, <2>4, GotNewest
      <3> QED BY <2>2, <3>1 DEF OrderInv
    <2> QED BY <2>3, <2>4
  <1> QED BY <1>2, <1>3, <1>5, <1>6 DEF Sender

LEMMA InitOrder == Init => OrderInv
  <1> SUFFICES ASSUME Init, NEW p \in Profilers PROVE QueueOf(p) /\ OrderOf(p)
    BY DEF OrderInv
  <1>1. Len(out[p]) = 0 /\ Limit(p) = 0
    BY DEF Init, Limit, Collecting
  <1> QED BY <1>1 DEF Init, QueueOf, OrderOf

LEMMA OrderStep == OrderStateInv /\ [Next]_vars => OrderStateInv'
  <1> SUFFICES ASSUME OrderStateInv, [Next]_vars PROVE OrderStateInv'
    OBVIOUS
  <1>0. StateInv'
    BY StateStep DEF OrderStateInv
  <1>1. CASE Call("start") \/ Call("stop") \/ Return \/ AppCPUProfile
    BY <1>0, <1>1, QuietOrder DEF OrderStateInv
  <1>2. ASSUME NEW p \in Profilers, Task(p) \/ Collector(p) PROVE OrderStateInv'
    BY <1>0, <1>2, QuietOrder, EnqueueOrder, EvictOrder DEF Collector, OrderStateInv
  <1>3. ASSUME NEW p \in Profilers, Sender(p) PROVE OrderStateInv'
    BY <1>0, <1>3, SendOrder DEF OrderStateInv
  <1>4. CASE UNCHANGED vars
    <2>1. \A q \in Profilers : Limit(q)' = Limit(q)
      BY <1>4 DEF Limit, Collecting, vars, collectVars
    <2> QED BY <1>0, <1>4, <2>1, RoundOrder DEF OrderStateInv, StateInv, vars, sendVars
  <1> QED BY <1>1, <1>2, <1>3, <1>4 DEF Next

-----------------------------------------------------------------------------
(* A batch is in one place. *)

OnceInv == OrderStateInv /\ BatchOnce

Batch(p, n) == [profiler |-> p, seq |-> n]
OnceOf(p, n) == \E x \in Places(p, n) : Places(p, n) = {x}

LEMMA BatchFields ==
    ASSUME NEW p, NEW n
    PROVE  Batch(p, n).profiler = p /\ Batch(p, n).seq = n
  BY DEF Batch

LEMMA PlacesAre ==
    ASSUME NEW p \in Profilers, NEW n \in Nat
    PROVE  Places(p, n) =
             {x \in {"collector", "queue", "sender", "uploaded", "evicted", "failed", "abandoned"} :
                 \/ x = "collector" /\ Collecting(p) /\ n = seq[p] - 1
                 \/ x = "queue" /\ Batch(p, n) \in ToSet(out[p])
                 \/ x = "sender" /\ Batch(p, n) = bat[p]
                 \/ x = "uploaded" /\ Batch(p, n) \in uploaded
                 \/ x = "evicted" /\ Batch(p, n) \in evicted
                 \/ x = "failed" /\ Batch(p, n) \in failed
                 \/ x = "abandoned" /\ Batch(p, n) \in abandoned}
  BY Zenon DEF Places, Batch

\* A batch of which no place changes stays where it is.
LEMMA PlacesFrame ==
    ASSUME NEW p \in Profilers, NEW n \in Nat,
           (Collecting(p)' /\ n = seq'[p] - 1) <=> (Collecting(p) /\ n = seq[p] - 1),
           Batch(p, n) \in ToSet(out'[p]) <=> Batch(p, n) \in ToSet(out[p]),
           Batch(p, n) = bat'[p] <=> Batch(p, n) = bat[p],
           Batch(p, n) \in uploaded' <=> Batch(p, n) \in uploaded,
           Batch(p, n) \in evicted' <=> Batch(p, n) \in evicted,
           Batch(p, n) \in failed' <=> Batch(p, n) \in failed,
           Batch(p, n) \in abandoned' <=> Batch(p, n) \in abandoned,
           OnceOf(p, n)
    PROVE  OnceOf(p, n)'
  <1>1. Places(p, n)' = Places(p, n)
    BY PlacesAre DEF Places, Batch
  <1> QED BY <1>1 DEF OnceOf

\* A batch that leaves the one place x for the place y.
LEMMA PlacesMove ==
    ASSUME NEW p \in Profilers, NEW n \in Nat, OnceOf(p, n), NEW x \in Places(p, n), NEW y,
           y \in Places(p, n)', x \notin Places(p, n)', Places(p, n)' \subseteq Places(p, n) \cup {y}
    PROVE  OnceOf(p, n)'
  BY DEF OnceOf

LEMMA OnceNumbers ==
    ASSUME TypeOK, BatchOnce, NEW p \in Profilers, NEW n \in 0 .. seq[p] - 1
    PROVE  n \in Nat /\ OnceOf(p, n)
  BY DEF TypeOK, CollectTypeOK, BatchOnce, OnceOf

LEMMA OnceKept ==
    ASSUME UNCHANGED seq, \A p \in Profilers : \A n \in 0 .. seq[p] - 1 : OnceOf(p, n)'
    PROVE  BatchOnce'
  BY Zenon DEF BatchOnce, OnceOf

LEMMA QueueSet ==
    ASSUME NEW S, NEW s \in Seq(S)
    PROVE  /\ ToSet(s) = {s[i] : i \in 1 .. Len(s)} /\ ToSet(s) \subseteq S
           /\ \A e \in S : ToSet(Append(s, e)) = ToSet(s) \cup {e}
           /\ s # <<>> => ToSet(s) = {Head(s)} \cup ToSet(Tail(s))
  <1>1. ASSUME NEW t \in Seq(S) PROVE ToSet(t) = {t[i] : i \in 1 .. Len(t)}
    BY DEF ToSet
  <1>2. ASSUME NEW e \in S PROVE ToSet(Append(s, e)) = ToSet(s) \cup {e}
    <2>0. Append(s, e) \in Seq(S)
      OBVIOUS
    <2>1. ToSet(Append(s, e)) = {Append(s, e)[i] : i \in 1 .. Len(Append(s, e))}
      BY <1>1, <2>0, Zenon
    <2>2. ToSet(s) = {s[i] : i \in 1 .. Len(s)}
      BY <1>1
    <2>3. /\ Len(s) \in Nat /\ Len(Append(s, e)) = Len(s) + 1
          /\ \A i \in 1 .. Len(s) : Append(s, e)[i] = s[i]
          /\ Append(s, e)[Len(s) + 1] = e
      BY AppendIs
    <2> HIDE <1>1
    <2>4. ToSet(Append(s, e)) \subseteq ToSet(s) \cup {e}
      BY <2>1, <2>2, <2>3
    <2>5. ASSUME NEW i \in 1 .. Len(s) PROVE s[i] \in ToSet(Append(s, e))
      <3>1. i \in 1 .. Len(Append(s, e)) /\ Append(s, e)[i] = s[i]
        BY <2>3
      <3> QED BY <2>1, <3>1
    <2>6. e \in ToSet(Append(s, e))
      <3>1. Len(s) + 1 \in 1 .. Len(Append(s, e))
        BY <2>3
      <3> QED BY <2>1, <2>3, <3>1
    <2> QED BY <2>2, <2>4, <2>5, <2>6
  <1>3. ASSUME s # <<>> PROVE ToSet(s) = {Head(s)} \cup ToSet(Tail(s))
    <2>1. /\ Len(s) \in Nat /\ Len(s) >= 1 /\ Head(s) = s[1] /\ Tail(s) \in Seq(S)
          /\ Len(Tail(s)) = Len(s) - 1
          /\ \A i \in 1 .. Len(Tail(s)) : i + 1 \in 1 .. Len(s) /\ Tail(s)[i] = s[i + 1]
      BY <1>3, HeadTail
    <2>2. ToSet(s) = {s[i] : i \in 1 .. Len(s)} /\ ToSet(Tail(s)) = {Tail(s)[i] : i \in 1 .. Len(Tail(s))}
      BY <1>1, <2>1
    <2>3. ASSUME NEW i \in 1 .. Len(s) PROVE s[i] \in {Head(s)} \cup ToSet(Tail(s))
      <3>1. CASE i = 1
        BY <2>1, <3>1
      <3>2. CASE i # 1
        <4>1. i - 1 \in 1 .. Len(Tail(s)) /\ (i - 1) + 1 = i
          BY <2>1, <3>2
        <4>2. Tail(s)[i - 1] = s[i]
          BY <2>1, <4>1
        <4> QED BY <2>2, <4>1, <4>2
      <3> QED BY <3>1, <3>2
    <2>4. Head(s) \in ToSet(s)
      <3>1. 1 \in 1 .. Len(s)
        BY <2>1
      <3> QED BY <2>1, <2>2, <3>1
    <2>5. ToSet(Tail(s)) \subseteq ToSet(s)
      BY <2>1, <2>2
    <2> QED BY <2>2, <2>3, <2>4, <2>5
  <1>4. ToSet(s) \subseteq S
    BY <1>1
  <1> QED BY <1>1, <1>2, <1>3, <1>4

\* The head of a sorted queue is in it once.
LEMMA HeadOnce ==
    ASSUME TypeOK, NEW p \in Profilers, QueueOf(p), out[p] # <<>>
    PROVE  /\ Head(out[p]) = Batch(p, Head(out[p]).seq) /\ Head(out[p]).seq \in Nat
           /\ ToSet(out[p]) = {Head(out[p])} \cup ToSet(Tail(out[p]))
           /\ Head(out[p]) \notin ToSet(Tail(out[p]))
  <1>1. out[p] \in Seq(Batches)
    BY DEF TypeOK, SendTypeOK
  <1>2. /\ Len(out[p]) \in Nat /\ Len(out[p]) >= 1 /\ Head(out[p]) = out[p][1] /\ Head(out[p]) \in Batches
        /\ Tail(out[p]) \in Seq(Batches) /\ Len(Tail(out[p])) = Len(out[p]) - 1
        /\ \A i \in 1 .. Len(Tail(out[p])) : i + 1 \in 1 .. Len(out[p]) /\ Tail(out[p])[i] = out[p][i + 1]
    BY <1>1, HeadTail, Zenon
  <1>3. 1 \in 1 .. Len(out[p])
    BY <1>2
  <1>4. Head(out[p]).profiler = p
    BY <1>2, <1>3 DEF QueueOf
  <1>5. ASSUME NEW i \in 1 .. Len(Tail(out[p])) PROVE Tail(out[p])[i] # Head(out[p])
    <2>1. i + 1 \in 1 .. Len(out[p]) /\ Tail(out[p])[i] = out[p][i + 1] /\ 1 < i + 1
      BY <1>2
    <2>2. out[p][1].seq < out[p][i + 1].seq
      BY <1>3, <2>1 DEF QueueOf
    <2>3. Head(out[p]).seq \in Nat
      BY <1>2, BatchShape
    <2> QED BY <1>2, <2>1, <2>2, <2>3
  <1>6. ToSet(Tail(out[p])) = {Tail(out[p])[i] : i \in 1 .. Len(Tail(out[p]))}
    BY <1>2, QueueSet
  <1>7. ToSet(out[p]) = {Head(out[p])} \cup ToSet(Tail(out[p]))
    BY <1>1, QueueSet
  <1>8. Head(out[p]) = Batch(p, Head(out[p]).seq) /\ Head(out[p]).seq \in Nat
    BY <1>2, <1>4, BatchShape DEF Batch
  <1> QED BY <1>5, <1>6, <1>7, <1>8

\* Steps that move no batch.
LEMMA StillOnce ==
    ASSUME OnceInv, UNCHANGED <<seq, out, bat, fateVars>>,
           \A q \in Profilers : Collecting(q)' <=> Collecting(q)
    PROVE  BatchOnce'
  <1> SUFFICES ASSUME NEW q \in Profilers, NEW n \in 0 .. seq[q] - 1 PROVE OnceOf(q, n)'
    BY OnceKept
  <1>1. n \in Nat /\ OnceOf(q, n)
    BY OnceNumbers DEF OnceInv, OrderStateInv, StateInv
  <1> QED BY <1>1, PlacesFrame DEF fateVars

\* A batch that is numbered is new, and with the collector.
LEMMA StartOnce ==
    ASSUME OnceInv, NEW p \in Profilers, ~Collecting(p), StartBatch(p), UNCHANGED <<out, bat, fateVars>>
    PROVE  BatchOnce'
  <1> USE DEF OnceInv, OrderStateInv, StateInv
  <1>1. /\ collector'[p] = "spawn" /\ seq'[p] = seq[p] + 1 /\ seq[p] \in Nat
        /\ \A q \in Profilers : q # p => collector'[q] = collector[q] /\ seq'[q] = seq[q]
    BY DEF StartBatch, TypeOK, CollectTypeOK
  <1>2. ASSUME NEW q \in Profilers, NEW n \in 0 .. seq[q] - 1 PROVE OnceOf(q, n)'
    <2>1. n \in Nat /\ OnceOf(q, n)
      BY OnceNumbers
    <2>2. (Collecting(q)' /\ n = seq'[q] - 1) <=> (Collecting(q) /\ n = seq[q] - 1)
      <3>1. CASE q = p
        BY <1>1, <3>1 DEF Collecting
      <3>2. CASE q # p
        BY <1>1, <3>2 DEF Collecting
      <3> QED BY <3>1, <3>2
    <2> QED BY <2>1, <2>2, PlacesFrame DEF fateVars
  <1>3. PICK m \in Nat : m = seq[p]
    BY <1>1
  <1>4. OnceOf(p, m)'
    <2>1. QueueOf(p) /\ OrderOf(p) /\ Limit(p) = m
      BY <1>3 DEF OrderInv, Limit
    <2>2. ASSUME NEW b \in uploaded \cup evicted \cup failed \cup abandoned PROVE b # Batch(p, m)
      BY <2>1, BatchFields DEF OrderOf
    <2>3. bat[p] # Batch(p, m)
      BY <2>1, BatchFields, ProfilerNumbers DEF OrderOf, Zero
    <2>4. Batch(p, m) \notin ToSet(out[p])
      <3>1. out[p] \in Seq(Batches)
        BY DEF TypeOK, SendTypeOK
      <3>2. ToSet(out[p]) = {out[p][i] : i \in 1 .. Len(out[p])}
        BY <3>1, QueueSet
      <3> QED BY <2>1, <3>2, BatchFields DEF QueueOf
    <2>5. Collecting(p)' /\ m = seq'[p] - 1
      BY <1>1, <1>3 DEF Collecting
    <2>6. Places(p, m)' = {"collector"}
      BY <2>2, <2>3, <2>4, <2>5 DEF Places, Batch, fateVars
    <2> QED BY <2>6 DEF OnceOf
  <1> SUFFICES ASSUME NEW q \in Profilers, NEW n \in 0 .. seq'[q] - 1 PROVE OnceOf(q, n)'
    BY Zenon DEF BatchOnce, OnceOf
  <1>5. n \in 0 .. seq[q] - 1 \/ (q = p /\ n = m)
    BY <1>1, <1>3
  <1> QED BY <1>2, <1>4, <1>5

LEMMA QuietOnce ==
    ASSUME OnceInv,
           \/ \E what \in {"start", "stop"} : Call(what)
           \/ Return \/ AppCPUProfile
           \/ \E p \in Profilers : \/ Task(p) \/ NextBatch(p) \/ BatchReady(p) \/ CollectExit(p)
                                   \/ \E t \in Types : Spawn(p, t)
    PROVE  BatchOnce'
  <1> USE DEF OnceInv, OrderStateInv, StateInv
  <1>1. ASSUME UNCHANGED <<collector, seq, out, bat, fateVars>> PROVE BatchOnce'
    BY <1>1, StillOnce DEF Collecting
  <1>2. ASSUME NEW p \in Profilers, NEW v \in {"spawn", "wait", "enqueue", "exited"},
               collector' = [collector EXCEPT ![p] = v], v = "exited" <=> ~Collecting(p),
               UNCHANGED <<seq, out, bat, fateVars>>
        PROVE  BatchOnce'
    <2>1. \A q \in Profilers : Collecting(q)' <=> Collecting(q)
      BY <1>2 DEF Collecting, TypeOK, CollectTypeOK
    <2> QED BY <1>2, <2>1, StillOnce
  <1>3. ASSUME NEW what \in {"start", "stop"}, Call(what) PROVE BatchOnce'
    BY <1>1, <1>3 DEF Call, collectVars, sendVars
  <1>4. ASSUME StopReturn \/ StartFail \/ AppCPUProfile PROVE BatchOnce'
    BY <1>1, <1>4 DEF StopReturn, StartFail, AppCPUProfile, collectVars, sendVars
  <1>5. ASSUME StartRun PROVE BatchOnce'
    <2>1. PICK p \in Profilers : p = created + 1
      BY <1>5, ProfilerNumbers DEF StartRun, TypeOK, CallTypeOK
    <2>2. StartBatch(p) /\ UNCHANGED <<out, bat, fateVars>>
      BY <1>5, <2>1 DEF StartRun
    <2>3. p > created
      BY <2>1 DEF TypeOK, CallTypeOK
    <2>4. ~Collecting(p)
      BY <2>3 DEF RunInv, LifeOf, Collecting
    <2> QED BY <2>2, <2>4, StartOnce
  <1>6. ASSUME NEW p \in Profilers, Task(p) PROVE BatchOnce'
    BY <1>1, <1>6 DEF Task, Collect, StartCPUProfile, StopCPUProfile, sendVars
  <1>7. ASSUME NEW p \in Profilers, NextBatch(p) PROVE BatchOnce'
    BY <1>7, StartOnce DEF NextBatch, Collecting, sendVars
  <1>8. ASSUME NEW p \in Profilers, BatchReady(p) \/ CollectExit(p) PROVE BatchOnce'
    BY <1>2, <1>8 DEF BatchReady, CollectExit, Collecting, sendVars
  <1>9. ASSUME NEW p \in Profilers, NEW t \in Types, Spawn(p, t) PROVE BatchOnce'
    BY <1>2, <1>9 DEF Spawn, Collecting, sendVars
  <1> QED BY <1>3, <1>4, <1>5, <1>6, <1>7, <1>8, <1>9 DEF Return

\* A batch goes from the collector into the queue.
LEMMA EnqueueOnce ==
    ASSUME OnceInv, NEW p \in Profilers, Enqueue(p)
    PROVE  BatchOnce'
  <1> USE DEF OnceInv, OrderStateInv, StateInv
  <1>0. collector[p] = "enqueue" /\ UNCHANGED <<seq, bat, fateVars>>
    BY DEF Enqueue, sendVars
  <1>1. CASE ~(Len(out[p]) < OutSize)
    <2>1. collector' = [collector EXCEPT ![p] = "evict"] /\ UNCHANGED out
      BY <1>1 DEF Enqueue
    <2>2. \A q \in Profilers : Collecting(q)' <=> Collecting(q)
      BY <1>0, <2>1 DEF Collecting, TypeOK, CollectTypeOK
    <2> QED BY <1>0, <2>1, <2>2, StillOnce
  <1>2. CASE Len(out[p]) < OutSize
    <2>0. Current(p) \in Batches /\ Current(p) = Batch(p, seq[p] - 1) /\ seq[p] - 1 \in Nat
      BY <1>0, CurrentTyped DEF Batch
    <2>1. out' = [out EXCEPT ![p] = Append(out[p], Current(p))]
          /\ collector' = [collector EXCEPT ![p] = "select"]
      BY <1>2 DEF Enqueue
    <2>2. /\ out'[p] = Append(out[p], Current(p)) /\ collector'[p] = "select"
          /\ \A q \in Profilers : q # p => out'[q] = out[q] /\ collector'[q] = collector[q]
          /\ out[p] \in Seq(Batches)
      BY <2>1 DEF TypeOK, CollectTypeOK, SendTypeOK
    <2>3. ToSet(out'[p]) = ToSet(out[p]) \cup {Batch(p, seq[p] - 1)}
      BY <2>0, <2>2, QueueSet
    <2> SUFFICES ASSUME NEW q \in Profilers, NEW n \in 0 .. seq[q] - 1 PROVE OnceOf(q, n)'
      BY <1>0, OnceKept
    <2>4. n \in Nat /\ OnceOf(q, n)
      BY OnceNumbers
    <2>5. CASE q # p
      BY <1>0, <2>2, <2>4, <2>5, PlacesFrame DEF Collecting, fateVars
    <2>6. CASE q = p /\ n # seq[p] - 1
      <3>1. Batch(p, n) # Batch(p, seq[p] - 1)
        BY <2>6, BatchFields
      <3>2. Batch(p, n) \in ToSet(out'[p]) <=> Batch(p, n) \in ToSet(out[p])
        BY <2>3, <3>1
      <3> QED BY <1>0, <2>2, <2>4, <2>6, <3>2, PlacesFrame DEF fateVars
    <2>7. CASE q = p /\ n = seq[p] - 1
      <3>1. "collector" \in Places(p, n)
        BY <1>0, <2>7 DEF Places, Collecting
      <3>2. "queue" \in Places(p, n)'
        BY <2>3, <2>7 DEF Places, Batch
      <3>3. "collector" \notin Places(p, n)'
        BY <2>2 DEF Places, Collecting
      <3>4. Places(p, n)' \subseteq Places(p, n) \cup {"queue"}
        BY <1>0, <2>2 DEF Places, Collecting, fateVars
      <3> QED BY <2>4, <2>7, <3>1, <3>2, <3>3, <3>4, PlacesMove
    <2> QED BY <2>5, <2>6, <2>7
  <1> QED BY <1>1, <1>2

\* The oldest batch leaves the queue, for the evicted ones or for the sender.
LEMMA EvictOnce ==
    ASSUME OnceInv, NEW p \in Profilers, Evict(p)
    PROVE  BatchOnce'
  <1> USE DEF OnceInv, OrderStateInv, StateInv
  <1>0. /\ collector[p] = "evict" /\ collector' = [collector EXCEPT ![p] = "enqueue"]
        /\ UNCHANGED <<seq, bat, received, uploaded, failed, abandoned>>
    BY DEF Evict, sendVars
  <1>1. \A q \in Profilers : Collecting(q)' <=> Collecting(q)
    BY <1>0 DEF Collecting, TypeOK, CollectTypeOK
  <1>2. CASE out[p] = <<>>
    BY <1>0, <1>1, <1>2, StillOnce DEF Evict, fateVars
  <1>3. CASE out[p] # <<>>
    <2>1. PICK h : h = Head(out[p])
      OBVIOUS
    <2>2. evicted' = evicted \cup {h} /\ out' = [out EXCEPT ![p] = Tail(out[p])]
      BY <1>3, <2>1 DEF Evict
    <2>3. /\ h = Batch(p, h.seq) /\ h.seq \in Nat /\ ToSet(out[p]) = {h} \cup ToSet(Tail(out[p]))
          /\ h \notin ToSet(Tail(out[p]))
      BY <1>3, <2>1, HeadOnce DEF OrderInv
    <2>4. out'[p] = Tail(out[p]) /\ \A q \in Profilers : q # p => out'[q] = out[q]
      BY <2>2 DEF TypeOK, SendTypeOK
    <2> SUFFICES ASSUME NEW q \in Profilers, NEW n \in 0 .. seq[q] - 1 PROVE OnceOf(q, n)'
      BY <1>0, OnceKept
    <2>5. n \in Nat /\ OnceOf(q, n)
      BY OnceNumbers
    <2>6. CASE Batch(q, n) # h
      <3>1. Batch(q, n) \in ToSet(out'[q]) <=> Batch(q, n) \in ToSet(out[q])
        BY <2>3, <2>4, <2>6
      <3> QED BY <1>0, <1>1, <2>2, <2>5, <2>6, <3>1, PlacesFrame
    <2>7. CASE Batch(q, n) = h
      <3>1. q = p
        BY <2>3, <2>7, BatchFields
      <3>2. "queue" \in Places(p, n) /\ "evicted" \in Places(p, n)'
        BY <2>2, <2>3, <2>7, <3>1 DEF Places, Batch
      <3>3. "queue" \notin Places(p, n)'
        BY <2>3, <2>4, <2>7, <3>1 DEF Places, Batch
      <3>4. Places(p, n)' \subseteq Places(p, n) \cup {"evicted"}
        BY <1>0, <1>1, <3>3 DEF Places
      <3> QED BY <2>5, <3>1, <3>2, <3>3, <3>4, PlacesMove
    <2> QED BY <2>6, <2>7
  <1> QED BY <1>2, <1>3

LEMMA TakeOnce ==
    ASSUME OnceInv, NEW p \in Profilers, SendTake(p)
    PROVE  BatchOnce'
  <1> USE DEF OnceInv, OrderStateInv, StateInv
  <1>0. UNCHANGED <<collector, seq, fateVars>> /\ bat[p] = Zero
    BY DEF SendTake, collectVars, SenderInv, SenderOf
  <1>1. \A q \in Profilers : Collecting(q)' <=> Collecting(q)
    BY <1>0 DEF Collecting
  <1>2. CASE out[p] = <<>>
    <2>1. UNCHANGED <<out, bat>>
      BY <1>0, <1>2 DEF SendTake, TypeOK, SendTypeOK
    <2> QED BY <1>0, <1>1, <2>1, StillOnce
  <1>3. CASE out[p] # <<>>
    <2>1. PICK h : h = Head(out[p])
      OBVIOUS
    <2>2. bat' = [bat EXCEPT ![p] = h] /\ out' = [out EXCEPT ![p] = Tail(out[p])]
      BY <1>3, <2>1 DEF SendTake
    <2>3. /\ h = Batch(p, h.seq) /\ h.seq \in Nat /\ ToSet(out[p]) = {h} \cup ToSet(Tail(out[p]))
          /\ h \notin ToSet(Tail(out[p]))
      BY <1>3, <2>1, HeadOnce DEF OrderInv
    <2>4. /\ out'[p] = Tail(out[p]) /\ bat'[p] = h
          /\ \A q \in Profilers : q # p => out'[q] = out[q] /\ bat'[q] = bat[q]
      BY <2>2 DEF TypeOK, SendTypeOK
    <2> SUFFICES ASSUME NEW q \in Profilers, NEW n \in 0 .. seq[q] - 1 PROVE OnceOf(q, n)'
      BY <1>0, OnceKept
    <2>5. n \in Nat /\ OnceOf(q, n)
      BY OnceNumbers
    <2>6. CASE Batch(q, n) # h
      <3>1. Batch(q, n) \in ToSet(out'[q]) <=> Batch(q, n) \in ToSet(out[q])
        BY <2>3, <2>4, <2>6
      <3>2. Batch(q, n) # Zero
        BY BatchFields, ProfilerNumbers DEF Zero
      <3>3. Batch(q, n) = bat'[q] <=> Batch(q, n) = bat[q]
        BY <1>0, <2>4, <2>6, <3>2
      <3> QED BY <1>0, <1>1, <2>5, <3>1, <3>3, PlacesFrame DEF fateVars
    <2>7. CASE Batch(q, n) = h
      <3>1. q = p
        BY <2>3, <2>7, BatchFields
      <3>2. "queue" \in Places(p, n) /\ "sender" \in Places(p, n)'
        BY <2>3, <2>4, <2>7, <3>1 DEF Places, Batch
      <3>3. "queue" \notin Places(p, n)'
        BY <2>3, <2>4, <2>7, <3>1 DEF Places, Batch
      <3>4. Places(p, n)' \subseteq Places(p, n) \cup {"sender"}
        BY <1>0, <1>1, <3>3 DEF Places, fateVars
      <3> QED BY <2>5, <3>1, <3>2, <3>3, <3>4, PlacesMove
    <2> QED BY <2>6, <2>7
  <1> QED BY <1>2, <1>3

\* A batch goes from the sender to its fate.
LEMMA SendOnce ==
    ASSUME OnceInv, NEW p \in Profilers, Sender(p)
    PROVE  BatchOnce'
  <1> USE DEF OnceInv, OrderStateInv, StateInv
  <1>0. UNCHANGED <<collector, seq>> /\ \A q \in Profilers : q # p => bat'[q] = bat[q]
    BY SenderFrame DEF collectVars
  <1>1. \A q \in Profilers : Collecting(q)' <=> Collecting(q)
    BY <1>0 DEF Collecting
  <1>2. CASE SendTake(p)
    BY <1>2, TakeOnce
  <1>3. CASE SendExit(p) \/ Output(p) \/ Try(p) \/ Backoff(p)
    BY <1>0, <1>1, <1>3, StillOnce DEF SendExit, Output, Try, Backoff, fateVars
  <1>4. CASE RequestRetriable(p)
    <2>1. UNCHANGED <<seq, out, bat, uploaded, evicted, failed, abandoned>>
      BY <1>0, <1>4 DEF RequestRetriable
    <2> SUFFICES ASSUME NEW q \in Profilers, NEW n \in 0 .. seq[q] - 1 PROVE OnceOf(q, n)'
      BY <2>1, OnceKept
    <2>2. n \in Nat /\ OnceOf(q, n)
      BY OnceNumbers
    <2> QED BY <1>1, <2>1, <2>2, PlacesFrame
  <1>5. CASE GiveUp(p) \/ Abandon(p) \/ RequestRefused(p) \/ RequestOK(p)
    <2>1. UNCHANGED <<out, evicted>> /\ bat'[p] = Zero
      BY <1>5 DEF GiveUp, Abandon, RequestRefused, RequestOK, Back, TypeOK, SendTypeOK
    <2>2. PICK y \in {"uploaded", "failed", "abandoned"} :
            /\ uploaded' = IF y = "uploaded" THEN uploaded \cup {bat[p]} ELSE uploaded
            /\ failed' = IF y = "failed" THEN failed \cup {bat[p]} ELSE failed
            /\ abandoned' = IF y = "abandoned" THEN abandoned \cup {bat[p]} ELSE abandoned
      BY <1>5 DEF GiveUp, Abandon, RequestRefused, RequestOK
    <2>3. bat[p].profiler \in {0, p}
      BY DEF Zero, OrderInv, OrderOf
    <2> SUFFICES ASSUME NEW q \in Profilers, NEW n \in 0 .. seq[q] - 1 PROVE OnceOf(q, n)'
      BY <1>0, OnceKept
    <2>4. n \in Nat /\ OnceOf(q, n) /\ Batch(q, n) # Zero
      BY OnceNumbers, BatchFields, ProfilerNumbers DEF Zero
    <2>5. CASE Batch(q, n) # bat[p]
      <3>1. Batch(q, n) = bat'[q] <=> Batch(q, n) = bat[q]
        BY <1>0, <2>1, <2>4, <2>5
      <3> QED BY <1>0, <1>1, <2>1, <2>2, <2>4, <2>5, <3>1, PlacesFrame
    <2>6. CASE Batch(q, n) = bat[p]
      <3>1. q = p
        BY <2>3, <2>6, BatchFields, ProfilerNumbers
      <3>2. "sender" \in Places(p, n)
        BY <2>6, <3>1 DEF Places, Batch
      <3>3. y \in Places(p, n)'
        BY <2>2, <2>6, <3>1 DEF Places, Batch
      <3>4. "sender" \notin Places(p, n)'
        BY <2>1, <2>4, <3>1 DEF Places, Batch
      <3>5. Places(p, n)' \subseteq Places(p, n) \cup {y}
        BY <1>0, <1>1, <2>1, <2>2, <3>4 DEF Places
      <3> QED BY <2>4, <3>1, <3>2, <3>3, <3>4, <3>5, PlacesMove
    <2> QED BY <2>5, <2>6
  <1> QED BY <1>2, <1>3, <1>4, <1>5 DEF Sender

LEMMA OnceStep == OnceInv /\ [Next]_vars => OnceInv'
  <1> SUFFICES ASSUME OnceInv, [Next]_vars PROVE OnceInv'
    OBVIOUS
  <1>0. OrderStateInv'
    BY OrderStep DEF OnceInv
  <1>1. CASE Call("start") \/ Call("stop") \/ Return \/ AppCPUProfile
    BY <1>0, <1>1, QuietOnce DEF OnceInv
  <1>2. ASSUME NEW p \in Profilers, Task(p) \/ Collector(p) PROVE OnceInv'
    BY <1>0, <1>2, QuietOnce, EnqueueOnce, EvictOnce DEF Collector, OnceInv
  <1>3. ASSUME NEW p \in Profilers, Sender(p) PROVE OnceInv'
    BY <1>0, <1>3, SendOnce DEF OnceInv
  <1>4. CASE UNCHANGED vars
    <2>1. \A q \in Profilers : Collecting(q)' <=> Collecting(q)
      BY <1>4 DEF Collecting, vars, collectVars
    <2> QED BY <1>0, <1>4, <2>1, StillOnce DEF OnceInv, vars, collectVars, sendVars
  <1> QED BY <1>1, <1>2, <1>3, <1>4 DEF Next

\* A batch is in exactly one place, what is evicted is older than what stays in the queue,
\* and the agent gets the batches of a profiler in the order of their numbers, for any
\* capacity of the queue and any number of retries (profiler.go:289-415, upload.go:29-93).
THEOREM BatchesStayOrdered == Spec => []BatchesOrdered
  <1>1. Init => OnceInv
    <2> SUFFICES ASSUME Init PROVE BatchOnce
      BY InitState, InitOrder DEF OnceInv, OrderStateInv
    <2> QED BY DEF Init, BatchOnce
  <1>2. OnceInv => BatchesOrdered
    <2> SUFFICES ASSUME OnceInv PROVE BatchesOrdered
      OBVIOUS
    <2> USE DEF OnceInv, OrderStateInv, StateInv
    <2>1. ReceivedInOrder
      BY DEF OrderInv, OrderOf, ReceivedInOrder
    <2>2. ASSUME NEW b \in evicted, NEW c \in ToSet(out[b.profiler]) PROVE b.seq < c.seq
      <3>1. PICK p \in Profilers : p = b.profiler
        BY BatchShape DEF TypeOK, SendTypeOK
      <3>2. out[p] \in Seq(Batches)
        BY DEF TypeOK, SendTypeOK
      <3>3. PICK i \in 1 .. Len(out[p]) : c = out[p][i]
        BY <2>2, <3>1, <3>2, QueueSet
      <3> QED BY <3>1, <3>3 DEF OrderInv, QueueOf
    <2> QED BY <2>1, <2>2 DEF BatchesOrdered, EvictsOldest
  <1> QED BY <1>1, <1>2, OnceStep, PTL DEF Spec

=============================================================================

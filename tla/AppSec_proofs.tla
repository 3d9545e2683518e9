---------------------------- MODULE AppSec_proofs ----------------------------
(***************************************************************************)
(* Theorems about AppSec, for any number of callers, requests, instances   *)
(* and messages and any limit of events.                                   *)
(***************************************************************************)
EXTENDS AppSec, FiniteSetTheorems, TLAPS

-----------------------------------------------------------------------------
(* Starting and stopping: one lemma for each step of a caller. *)

LifeInv == LifeTypeOK /\ CallerInv /\ InstanceInv /\ OverlapInv

LEMMA CallerMoves ==
    ASSUME LifeTypeOK, NEW c \in Callers, NEW w \in Wheres
    PROVE  [caller EXCEPT ![c].at = w] \in [Callers -> CallerStates]
  BY DEF LifeTypeOK, CallerStates

\* Instances are numbered from one.
LEMMA InstanceNumbers == 0..MaxStarts = Instances \cup {0} /\ 0 \notin Instances
  BY AppSecAssumption DEF Instances

LEMMA StartTracerLife ==
    ASSUME LifeInv, NEW c \in Callers, StartTracer(c)
    PROVE  LifeInv'
  <1> USE DEF LifeInv
  <1>0. PICK w \in {"configure", "lock"}, t \in {"idle", "configure"} :
          /\ w = "configure" => t = "idle"
          /\ caller[c].at = "idle"
          /\ caller' = [caller EXCEPT ![c] = [Idle EXCEPT !.at = w, !.then = t]]
          /\ overlap' = (overlap \/ Busy # {})
    BY DEF StartTracer, Enter
  <1>a. /\ starts \in Nat /\ starts' = starts + 1 /\ tracer' = starts' /\ tracer' # 0
        /\ UNCHANGED <<active, mu, root, started, failed, limiter, handle, waiting, poll, told>>
    BY DEF StartTracer, instVars, clientVars, LifeTypeOK
  <1>b. caller'[c] = [at |-> w, inst |-> 0, then |-> t, kinds |-> {}]
    BY <1>0 DEF LifeTypeOK, Idle
  <1>c. \A d \in Callers : d # c => caller'[d] = caller[d]
    BY <1>0 DEF LifeTypeOK
  <1>1. LifeTypeOK'
    <2>1. caller'[c] \in CallerStates
      BY <1>b, InstanceNumbers DEF CallerStates, Wheres, Kinds
    <2>2. caller' \in [Callers -> CallerStates]
      BY <1>0, <1>b, <2>1 DEF LifeTypeOK
    <2> QED BY <1>0, <1>a, <2>2 DEF LifeTypeOK
  <1>2. CallerInv'
    <2>1. caller'[c].at = w /\ caller'[c].inst = 0 /\ caller'[c].then = t
      BY <1>b
    <2>2. w \notin {"unregister", "close", "swap", "open", "register", "idle"}
      OBVIOUS
    <2> QED BY <1>0, <1>a, <1>c, <2>1, <2>2 DEF CallerInv, Used, Listening
  <1>3. InstanceInv'
    <2> SUFFICES ASSUME NEW i \in Instances
                 PROVE  /\ Clean(i)' \/ i \in started' \/ Making(i)' \/ Stopping(i)'
                        /\ i \in started' => handle'[i] = "open" /\ Held(i)'
                        /\ poll'[i] = "on" => i \in told' \/ Held(i)'
      BY DEF InstanceInv
    <2>1. Held(i) => Held(i)'
      BY <1>0, <1>a, <1>c, InstanceNumbers DEF CallerInv, Held
    <2>2. Making(i) => Making(i)'
      BY <1>0, <1>c DEF Making
    <2>3. Stopping(i) => Stopping(i)'
      BY <1>0, <1>a, <1>c DEF Stopping
    <2>4. Clean(i) => Clean(i)'
      BY <1>a DEF Clean, Listening
    <2> QED BY <1>a, <2>1, <2>2, <2>3, <2>4 DEF InstanceInv
  <1>4. OverlapInv'
    <2> SUFFICES ASSUME ~overlap' PROVE OverlapInv'
      BY DEF OverlapInv
    <2>1. Busy = {}
      BY <1>0 DEF LifeTypeOK
    <2>2. \A d \in Callers : d # c => caller'[d].at = "idle"
      BY <1>c, <2>1 DEF Busy
    <2> QED BY <1>a, <2>2 DEF OverlapInv, Busy
  <1> QED BY <1>1, <1>2, <1>3, <1>4

LEMMA StopTracerLife ==
    ASSUME LifeInv, NEW c \in Callers, StopTracer(c)
    PROVE  LifeInv'
  <1> USE AppSecAssumption DEF LifeInv, StopTracer, Enter, Idle, Busy, lifeVars, instVars, clientVars
  <1>1. LifeTypeOK'
    BY DEF LifeTypeOK, CallerStates, Wheres, Kinds, Instances, CallerInv
  <1>2. CallerInv'
    BY DEF LifeTypeOK, CallerStates, CallerInv, InstanceInv, Used, Listening, Instances,
       Clean, Held, Making, Stopping
  <1>3. InstanceInv'
    BY DEF LifeTypeOK, CallerStates, CallerInv, InstanceInv, Used, Listening, Clean,
       Held, Making, Stopping
  <1>4. OverlapInv'
    <2> SUFFICES ASSUME ~overlap' PROVE OverlapInv'
      BY DEF OverlapInv
    <2>1. ~overlap /\ Busy = {}
      BY DEF LifeTypeOK
    <2>2. \A d \in Callers : d # c => caller'[d] = caller[d] /\ caller[d].at = "idle"
      BY <2>1 DEF LifeTypeOK
    <2>3. caller'[c].at = "lock" /\ caller'[c].inst = 0 /\ caller'[c].then = "idle"
      BY DEF LifeTypeOK
    <2>4. \A d \in Callers : /\ caller'[d].inst = 0 /\ caller'[d].then = "idle"
                             /\ caller'[d].at \notin {"configure", "open", "register"}
                             /\ caller'[d].at # "idle" => d = c
      BY <2>2, <2>3 DEF CallerInv
    <2> QED BY <2>3, <2>4 DEF OverlapInv
  <1> QED BY <1>1, <1>2, <1>3, <1>4

LEMMA ConfigureOffLife ==
    ASSUME LifeInv, NEW c \in Callers, ConfigureOff(c)
    PROVE  LifeInv'
  <1> USE AppSecAssumption DEF LifeInv, ConfigureOff, Idle, lifeVars, instVars, clientVars
  <1>1. LifeTypeOK'
    BY DEF LifeTypeOK, CallerStates, Wheres, Kinds, Instances, CallerInv
  <1>2. CallerInv'
    BY DEF LifeTypeOK, CallerStates, CallerInv, InstanceInv, Used, Listening, Instances,
       Clean, Held, Making, Stopping
  <1>3. InstanceInv'
    BY DEF LifeTypeOK, CallerStates, CallerInv, InstanceInv, Used, Listening, Clean,
       Held, Making, Stopping
  <1>4. OverlapInv'
    BY DEF LifeTypeOK, CallerStates, CallerInv, OverlapInv, Busy
  <1> QED BY <1>1, <1>2, <1>3, <1>4

LEMMA ConfigureRemoteLife ==
    ASSUME LifeInv, NEW c \in Callers, ConfigureRemote(c)
    PROVE  LifeInv'
  <1> USE AppSecAssumption DEF LifeInv, ConfigureRemote, Clients, Fresh, lifeVars, instVars, clientVars
  <1>1. LifeTypeOK'
    <2>1. PICK i \in Instances : /\ caller' = [caller EXCEPT ![c].at = "lock", ![c].inst = i]
                               /\ \E client \in Clients : poll' = [poll EXCEPT ![i] = client]
      OBVIOUS
    <2>a. caller[c] \in CallerStates /\ i \in 0..MaxStarts
      BY InstanceNumbers DEF LifeTypeOK
    <2>2. [caller[c] EXCEPT !.at = "lock", !.inst = i] \in CallerStates
      BY <2>a DEF CallerStates, Wheres
    <2>3. caller' = [caller EXCEPT ![c] = [caller[c] EXCEPT !.at = "lock", !.inst = i]]
      BY <2>1 DEF LifeTypeOK
    <2>4. caller' \in [Callers -> CallerStates]
      BY <2>2, <2>3 DEF LifeTypeOK
    <2> QED BY <2>1, <2>4 DEF LifeTypeOK
  <1>2. CallerInv'
    BY DEF LifeTypeOK, CallerStates, CallerInv, InstanceInv, Used, Listening, Instances,
       Clean, Held, Making, Stopping
  <1>3. InstanceInv'
    <2>1. PICK i \in Instances : /\ Fresh(i)
                               /\ caller' = [caller EXCEPT ![c].at = "lock", ![c].inst = i]
                               /\ \E client \in Clients : poll' = [poll EXCEPT ![i] = client]
      OBVIOUS
    <2> SUFFICES ASSUME NEW j \in Instances
                 PROVE  /\ Clean(j)' \/ j \in started' \/ Making(j)' \/ Stopping(j)'
                        /\ j \in started' => handle'[j] = "open" /\ Held(j)'
                        /\ poll'[j] = "on" => j \in told' \/ Held(j)'
      BY DEF InstanceInv
    <2>2. (Held(j) \/ j = i) => Held(j)'
      BY <2>1, InstanceNumbers DEF LifeTypeOK, CallerStates, Held, CallerInv
    <2>3. Making(j) => Making(j)'
      BY <2>1 DEF LifeTypeOK, CallerStates, Making
    <2>4. Stopping(j) => Stopping(j)'
      BY <2>1 DEF LifeTypeOK, CallerStates, Stopping
    <2>5. Clean(j) => Clean(j)'
      BY DEF Clean, Listening
    <2> QED BY <2>1, <2>2, <2>3, <2>4, <2>5 DEF InstanceInv, LifeTypeOK
  <1>4. OverlapInv'
    BY DEF LifeTypeOK, CallerStates, CallerInv, OverlapInv, Busy
  <1> QED BY <1>1, <1>2, <1>3, <1>4

LEMMA ConfigureOnLife ==
    ASSUME LifeInv, NEW c \in Callers, ConfigureOn(c)
    PROVE  LifeInv'
  <1> USE AppSecAssumption DEF LifeInv, ConfigureOn, Fresh, lifeVars, instVars, clientVars
  <1>1. LifeTypeOK'
    BY SMTT(30) DEF LifeTypeOK, CallerStates, Wheres, Kinds, Instances, CallerInv
  <1>2. CallerInv'
    BY DEF LifeTypeOK, CallerStates, CallerInv, InstanceInv, Used, Listening, Instances,
       Clean, Held, Making, Stopping
  <1>3. InstanceInv'
    BY SMTT(30) DEF LifeTypeOK, CallerStates, CallerInv, InstanceInv, Used, Listening, Clean,
       Held, Making, Stopping
  <1>4. OverlapInv'
    BY DEF LifeTypeOK, CallerStates, CallerInv, OverlapInv, Busy
  <1> QED BY <1>1, <1>2, <1>3, <1>4

LEMMA OpenWAFLife ==
    ASSUME LifeInv, NEW c \in Callers, OpenWAF(c)
    PROVE  LifeInv'
  <1> USE AppSecAssumption DEF LifeInv, OpenWAF, lifeVars, instVars, clientVars
  <1>1. LifeTypeOK'
    <2>1. caller[c] \in CallerStates /\ caller[c].inst \in Instances
      BY InstanceNumbers DEF LifeTypeOK, CallerStates, CallerInv
    <2>2. PICK kinds \in SUBSET Kinds :
             caller' = [caller EXCEPT ![c].at = "register", ![c].kinds = kinds]
      BY DEF Kinds
    <2>3. [caller[c] EXCEPT !.at = "register", !.kinds = kinds] \in CallerStates
      BY <2>1 DEF CallerStates, Wheres
    <2>4. caller' = [caller EXCEPT ![c] = [caller[c] EXCEPT !.at = "register", !.kinds = kinds]]
      BY <2>2 DEF LifeTypeOK
    <2>5. caller' \in [Callers -> CallerStates]
      BY <2>3, <2>4 DEF LifeTypeOK
    <2> QED BY <2>1, <2>5 DEF LifeTypeOK
  <1>2. CallerInv'
    BY DEF LifeTypeOK, CallerStates, CallerInv, InstanceInv, Used, Listening, Instances,
       Clean, Held, Making, Stopping
  <1>3. InstanceInv'
    BY SMTT(30) DEF LifeTypeOK, CallerStates, CallerInv, InstanceInv, Used, Listening, Clean,
       Held, Making, Stopping
  <1>4. OverlapInv'
    BY DEF LifeTypeOK, CallerStates, CallerInv, OverlapInv, Busy
  <1> QED BY <1>1, <1>2, <1>3, <1>4

LEMMA OpenFailsLife ==
    ASSUME LifeInv, NEW c \in Callers, OpenFails(c)
    PROVE  LifeInv'
  <1> USE AppSecAssumption DEF LifeInv, OpenFails, Idle, lifeVars, instVars, clientVars
  <1>1. LifeTypeOK'
    <2>1. caller[c].inst \in 0..MaxStarts /\ caller[c].at \in Wheres
      BY DEF LifeTypeOK, CallerStates
    <2>2. caller[c].inst \in Instances
      BY <2>1, InstanceNumbers DEF CallerInv
    <2>3. caller' \in [Callers -> CallerStates]
      BY <2>1, InstanceNumbers DEF LifeTypeOK, CallerStates, Wheres, Kinds
    <2> QED BY <2>2, <2>3, InstanceNumbers DEF LifeTypeOK, Kinds
  <1>2. CallerInv'
    BY DEF LifeTypeOK, CallerStates, CallerInv, InstanceInv, Used, Listening, Instances,
       Clean, Held, Making, Stopping
  <1>3. InstanceInv'
    BY DEF LifeTypeOK, CallerStates, CallerInv, InstanceInv, Used, Listening, Clean,
       Held, Making, Stopping
  <1>4. OverlapInv'
    BY DEF LifeTypeOK, CallerStates, CallerInv, OverlapInv, Busy
  <1> QED BY <1>1, <1>2, <1>3, <1>4

LEMMA RegisterLife ==
    ASSUME LifeInv, NEW c \in Callers, Register(c)
    PROVE  LifeInv'
  <1> USE AppSecAssumption DEF LifeInv, Register, lifeVars, instVars, clientVars
  <1>1. LifeTypeOK'
    <2>1. caller[c].inst \in 0..MaxStarts /\ caller[c].at \in Wheres
      BY DEF LifeTypeOK, CallerStates
    <2>2. caller[c].inst \in Instances
      BY <2>1, InstanceNumbers DEF CallerInv
    <2>3. caller' \in [Callers -> CallerStates]
      BY <2>1, InstanceNumbers DEF LifeTypeOK, CallerStates, Wheres, Kinds
    <2> QED BY <2>2, <2>3, InstanceNumbers DEF LifeTypeOK, Kinds
  <1>2. CallerInv'
    BY DEF LifeTypeOK, CallerStates, CallerInv, InstanceInv, Used, Listening, Instances,
       Clean, Held, Making, Stopping
  <1>3. InstanceInv'
    BY DEF LifeTypeOK, CallerStates, CallerInv, InstanceInv, Used, Listening, Clean,
       Held, Making, Stopping
  <1>4. OverlapInv'
    BY DEF LifeTypeOK, CallerStates, CallerInv, OverlapInv, Busy
  <1> QED BY <1>1, <1>2, <1>3, <1>4

LEMMA StartedLife ==
    ASSUME LifeInv, NEW c \in Callers, Started(c)
    PROVE  LifeInv'
  <1> USE AppSecAssumption DEF LifeInv, Started, Go, lifeVars, instVars, clientVars
  <1>1. LifeTypeOK'
    <2>1. caller[c].inst \in 0..MaxStarts /\ caller[c].at \in Wheres
      BY DEF LifeTypeOK, CallerStates
    <2>2. caller[c].inst \in Instances
      BY <2>1, InstanceNumbers DEF CallerInv
    <2>3. caller' \in [Callers -> CallerStates]
      BY CallerMoves DEF LifeTypeOK, CallerStates, Wheres, Kinds
    <2>4. poll' \in [Instances -> {"off", "none", "on", "done"}]
      BY <2>2 DEF LifeTypeOK, Clients
    <2> QED BY <2>2, <2>3, <2>4, InstanceNumbers DEF LifeTypeOK, Kinds
  <1>2. CallerInv'
    BY DEF LifeTypeOK, CallerStates, CallerInv, InstanceInv, Used, Listening, Instances,
       Clean, Held, Making, Stopping
  <1>3. InstanceInv'
    BY DEF LifeTypeOK, CallerStates, CallerInv, InstanceInv, Used, Listening, Clean,
       Held, Making, Stopping
  <1>4. OverlapInv'
    BY DEF LifeTypeOK, CallerStates, CallerInv, OverlapInv, Busy
  <1> QED BY <1>1, <1>2, <1>3, <1>4

LEMMA SetActiveLife ==
    ASSUME LifeInv, NEW c \in Callers, SetActive(c)
    PROVE  LifeInv'
  <1> USE AppSecAssumption DEF LifeInv, SetActive, Go, lifeVars, instVars, clientVars
  <1>1. LifeTypeOK'
    <2>1. caller' \in [Callers -> CallerStates]
      BY CallerMoves DEF Wheres
    <2>2. told' \subseteq Instances /\ started' \subseteq Instances
      BY InstanceNumbers DEF LifeTypeOK
    <2> QED BY <2>1, <2>2 DEF LifeTypeOK
  <1>2. CallerInv'
    BY DEF LifeTypeOK, CallerStates, CallerInv, InstanceInv, Used, Listening, Instances,
       Clean, Held, Making, Stopping
  <1>3. InstanceInv'
    BY DEF LifeTypeOK, CallerStates, CallerInv, InstanceInv, Used, Listening, Clean,
       Held, Making, Stopping
  <1>4. OverlapInv'
    BY DEF LifeTypeOK, CallerStates, CallerInv, OverlapInv, Busy
  <1> QED BY <1>1, <1>2, <1>3, <1>4

LEMMA UnregisterLife ==
    ASSUME LifeInv, NEW c \in Callers, Unregister(c)
    PROVE  LifeInv'
  <1> USE AppSecAssumption DEF LifeInv, Unregister, lifeVars, instVars, clientVars
  <1>1. LifeTypeOK'
    BY DEF LifeTypeOK, CallerStates, Wheres, Kinds, Instances, CallerInv
  <1>2. CallerInv'
    BY DEF LifeTypeOK, CallerStates, CallerInv, InstanceInv, Used, Listening, Instances,
       Clean, Held, Making, Stopping
  <1>3. InstanceInv'
    BY DEF LifeTypeOK, CallerStates, CallerInv, InstanceInv, Used, Listening, Clean,
       Held, Making, Stopping
  <1>4. OverlapInv'
    BY DEF LifeTypeOK, CallerStates, CallerInv, OverlapInv, Busy
  <1> QED BY <1>1, <1>2, <1>3, <1>4

LEMMA CloseWaitsLife ==
    ASSUME LifeInv, NEW c \in Callers, CloseWaits(c)
    PROVE  LifeInv'
  <1> USE AppSecAssumption DEF LifeInv, CloseWaits, Go, lifeVars, instVars, clientVars
  <1>1. LifeTypeOK'
    <2>1. caller[c].inst \in 0..MaxStarts /\ caller[c].at \in Wheres
      BY DEF LifeTypeOK, CallerStates
    <2>2. active \in Instances
      BY InstanceNumbers DEF CallerInv, LifeTypeOK
    <2>3. caller' \in [Callers -> CallerStates]
      BY CallerMoves DEF LifeTypeOK, CallerStates, Wheres, Kinds
    <2> QED BY <2>2, <2>3, InstanceNumbers DEF LifeTypeOK, Kinds
  <1>2. CallerInv'
    BY DEF LifeTypeOK, CallerStates, CallerInv, InstanceInv, Used, Listening, Instances,
       Clean, Held, Making, Stopping
  <1>3. InstanceInv'
    BY DEF LifeTypeOK, CallerStates, CallerInv, InstanceInv, Used, Listening, Clean,
       Held, Making, Stopping
  <1>4. OverlapInv'
    BY DEF LifeTypeOK, CallerStates, CallerInv, OverlapInv, Busy
  <1> QED BY <1>1, <1>2, <1>3, <1>4

LEMMA CloseHandleLife ==
    ASSUME LifeInv, NEW c \in Callers, CloseHandle(c)
    PROVE  LifeInv'
  <1> USE AppSecAssumption DEF LifeInv, CloseHandle, Go, lifeVars, instVars, clientVars
  <1>1. LifeTypeOK'
    <2>1. caller[c].inst \in 0..MaxStarts /\ caller[c].at \in Wheres
      BY DEF LifeTypeOK, CallerStates
    <2>2. active \in Instances
      BY InstanceNumbers DEF CallerInv, LifeTypeOK
    <2>3. caller' \in [Callers -> CallerStates]
      BY CallerMoves DEF LifeTypeOK, CallerStates, Wheres, Kinds
    <2> QED BY <2>2, <2>3, InstanceNumbers DEF LifeTypeOK, Kinds
  <1>2. CallerInv'
    BY DEF LifeTypeOK, CallerStates, CallerInv, InstanceInv, Used, Listening, Instances,
       Clean, Held, Making, Stopping
  <1>3. InstanceInv'
    BY DEF LifeTypeOK, CallerStates, CallerInv, InstanceInv, Used, Listening, Clean,
       Held, Making, Stopping
  <1>4. OverlapInv'
    BY DEF LifeTypeOK, CallerStates, CallerInv, OverlapInv, Busy
  <1> QED BY <1>1, <1>2, <1>3, <1>4

LEMMA SwapLife ==
    ASSUME LifeInv, NEW c \in Callers, Swap(c)
    PROVE  LifeInv'
  <1> USE AppSecAssumption DEF LifeInv, Swap, Idle, lifeVars, instVars, clientVars
  <1>1. LifeTypeOK'
    BY DEF LifeTypeOK, CallerStates, Wheres, Kinds, Instances, CallerInv
  <1>2. CallerInv'
    BY DEF LifeTypeOK, CallerStates, CallerInv, InstanceInv, Used, Listening, Instances,
       Clean, Held, Making, Stopping
  <1>3. InstanceInv'
    BY DEF LifeTypeOK, CallerStates, CallerInv, InstanceInv, Used, Listening, Clean,
       Held, Making, Stopping
  <1>4. OverlapInv'
    BY DEF LifeTypeOK, CallerStates, CallerInv, OverlapInv, Busy
  <1> QED BY <1>1, <1>2, <1>3, <1>4

LEMMA PollStopLife ==
    ASSUME LifeInv, NEW i \in Instances, PollStop(i)
    PROVE  LifeInv'
  <1> USE DEF LifeInv, PollStop, lifeVars, instVars
  <1>1. LifeTypeOK'
    BY DEF LifeTypeOK
  <1>2. \A j \in Instances : /\ poll'[j] = "on" => poll[j] = "on"
                             /\ poll'[j] = "off" <=> poll[j] = "off"
    BY DEF LifeTypeOK
  <1>3. CallerInv'
    BY <1>2, InstanceNumbers DEF LifeTypeOK, CallerStates, CallerInv, Used, Listening
  <1>4. InstanceInv'
    BY <1>2 DEF InstanceInv, Clean, Held, Making, Stopping, Listening
  <1>5. OverlapInv'
    BY DEF OverlapInv, Busy
  <1> QED BY <1>1, <1>3, <1>4, <1>5

\* Requests leave instances and callers alone.
lifecycle == <<lifeVars, root, instVars, clientVars>>

LEMMA QuietLife ==
    ASSUME LifeInv, UNCHANGED lifecycle
    PROVE  LifeInv'
  BY DEF LifeInv, lifecycle, lifeVars, instVars, clientVars, LifeTypeOK, CallerInv, InstanceInv,
     OverlapInv, Busy, Used, Listening, Clean, Held, Making, Stopping

\* The steps that belong to an operation.
OpStep(op) ==
    \/ EnterHandler(op) \/ StartOperation(op) \/ FinishHandler(op) \/ Disable(op)
    \/ CallHTTPFinish(op) \/ CallGRPCFinish(op)
    \/ \E g \in Emitters(op) : NewContext(op, g) \/ NoContext(op, g) \/ RunWAF(op, g)
    \/ op \in GRPCOps /\ \E r \in Receivers : Receive(op, r) \/ CallReceive(op, r)

CallerStep(c) ==
    \/ StartTracer(c) \/ StopTracer(c) \/ ConfigureOff(c) \/ ConfigureRemote(c) \/ ConfigureOn(c)
    \/ OpenWAF(c) \/ OpenFails(c) \/ Register(c) \/ Started(c) \/ SetActive(c)
    \/ Unregister(c) \/ CloseWaits(c) \/ CloseHandle(c) \/ Swap(c)

LEMMA NextSplit ==
    ASSUME Next
    PROVE  \/ \E c \in Callers : CallerStep(c)
           \/ \E i \in Instances : PollStop(i)
           \/ \E op \in Ops : OpStep(op)
  <1>1. CASE Work
    BY <1>1 DEF Work, CallerStep, OpStep, Ops
  <1>2. CASE ~Work
    BY SMTT(30), <1>2 DEF Next, CallerStep, OpStep, Ops
  <1> QED BY <1>1, <1>2

LEMMA OpStepQuiet ==
    ASSUME NEW op \in Ops, OpStep(op)
    PROVE  UNCHANGED lifecycle
  BY DEF OpStep, lifecycle, EnterHandler, StartOperation, FinishHandler, Disable, CallHTTPFinish,
     CallGRPCFinish, NewContext, NoContext, RunWAF, Receive, CallReceive

LEMMA CallerStepLife ==
    ASSUME LifeInv, NEW c \in Callers, CallerStep(c)
    PROVE  LifeInv' /\ UNCHANGED <<wafVars, opVars>>
  <1>1. LifeInv'
    BY StartTracerLife, StopTracerLife, ConfigureOffLife, ConfigureRemoteLife, ConfigureOnLife,
       OpenWAFLife, OpenFailsLife, RegisterLife, StartedLife, SetActiveLife, UnregisterLife,
       CloseWaitsLife, CloseHandleLife, SwapLife DEF CallerStep
  <1>2. UNCHANGED <<wafVars, opVars>>
    BY DEF CallerStep, StartTracer, StopTracer, ConfigureOff, ConfigureRemote, ConfigureOn, OpenWAF,
       OpenFails, Register, Started, SetActive, Unregister, CloseWaits, CloseHandle, Swap
  <1> QED BY <1>1, <1>2

LEMMA LifeInvariance == Spec => []LifeInv
  <1>1. Init => LifeInv
    <2> SUFFICES ASSUME Init PROVE LifeInv
      OBVIOUS
    <2> USE DEF Init
    <2>1. LifeTypeOK
      BY AppSecAssumption, InstanceNumbers DEF LifeTypeOK, CallerStates, Idle, Wheres, Kinds
    <2>2. CallerInv
      BY AppSecAssumption DEF CallerInv, Idle
    <2>3. InstanceInv
      BY DEF InstanceInv, Clean, Listening
    <2>4. OverlapInv
      BY DEF OverlapInv, Busy, Idle
    <2> QED BY <2>1, <2>2, <2>3, <2>4 DEF LifeInv
  <1>2. LifeInv /\ [Next]_vars => LifeInv'
    <2> SUFFICES ASSUME LifeInv, [Next]_vars PROVE LifeInv'
      OBVIOUS
    <2>1. CASE UNCHANGED vars
      BY <2>1, QuietLife DEF vars, lifecycle
    <2>2. CASE Next
      BY <2>2, NextSplit, CallerStepLife, PollStopLife, OpStepQuiet, QuietLife
    <2> QED BY <2>1, <2>2
  <1> QED BY <1>1, <1>2, PTL DEF Spec

\* However calls of Start and Stop from several goroutines overlap, nothing an instance
\* holds is left without an owner that stops it, except the limiter of a failed start; and
\* calls that do not overlap leave nothing active behind a stopped tracer.
THEOREM InstancesAreOwned == Spec => []NoOrphans
  <1>1. LifeInv => NoOrphans
    <2> SUFFICES ASSUME LifeInv PROVE NoOrphans
      OBVIOUS
    <2> USE DEF LifeInv
    <2>1. ASSUME NEW i \in Instances, i # active, \A c \in Callers : caller[c].inst # i
          PROVE  Clean(i) /\ (poll[i] = "on" => i \in told)
      <3>1. ~Held(i) /\ ~Making(i) /\ ~Stopping(i)
        BY <2>1 DEF Held, Making, Stopping
      <3> QED BY <3>1 DEF InstanceInv
    <2>2. ~overlap /\ Busy = {} /\ tracer = 0 => active = 0
      BY DEF OverlapInv
    <2> QED BY <2>1, <2>2 DEF NoOrphans, Clean, Listening
  <1> QED BY <1>1, LifeInvariance, PTL

-----------------------------------------------------------------------------
(* Contexts of the WAF. *)

UseInv == OpTypeOK /\ NoUseAfterRelease

LEMMA EmitterNames ==
    ASSUME NEW op \in Ops
    PROVE  /\ "finish" \in Emitters(op)
           /\ op \in GRPCOps => Receivers \subseteq Emitters(op)
           /\ op \in HTTPOps => op \notin GRPCOps
  BY AppSecAssumption DEF Emitters

\* Updates of what an emitter of an operation does keep the types.
LEMMA EmitterTyped ==
    ASSUME OpTypeOK, NEW op \in Ops, NEW g \in Emitters(op)
    PROVE  /\ \A T \in SUBSET Instances : LET f == [todo EXCEPT ![op][g] = T] IN
                DOMAIN f = Ops /\ \A o \in Ops : f[o] \in [Emitters(o) -> SUBSET Instances]
           /\ \A x \in {<<0, "none">>} \cup (Instances \X {"lock", "run"}) :
                LET f == [cur EXCEPT ![op][g] = x] IN
                DOMAIN f = Ops /\ \A o \in Ops :
                    f[o] \in [Emitters(o) -> {<<0, "none">>} \cup (Instances \X {"lock", "run"})]
  <1>1. ASSUME NEW T \in SUBSET Instances, NEW o \in Ops
        PROVE  [todo EXCEPT ![op][g] = T][o] \in [Emitters(o) -> SUBSET Instances]
    BY <1>1 DEF OpTypeOK
  <1>2. ASSUME NEW x \in {<<0, "none">>} \cup (Instances \X {"lock", "run"}), NEW o \in Ops
        PROVE  [cur EXCEPT ![op][g] = x][o]
                  \in [Emitters(o) -> {<<0, "none">>} \cup (Instances \X {"lock", "run"})]
    BY <1>2 DEF OpTypeOK
  <1> QED BY <1>1, <1>2 DEF OpTypeOK

\* What an emitter calls: a listener of an instance.
LEMMA CurrentInstance ==
    ASSUME OpTypeOK, NEW op \in Ops, NEW g \in Emitters(op)
    PROVE  /\ cur[op][g][2] \in {"none", "lock", "run"}
           /\ cur[op][g][2] # "none" => cur[op][g][1] \in Instances
           /\ todo[op][g] \subseteq Instances
  BY DEF OpTypeOK

LEMMA OpStepTyped ==
    ASSUME LifeTypeOK, OpTypeOK, NEW op \in Ops, OpStep(op)
    PROVE  OpTypeOK'
  <1>0. UNCHANGED lifecycle
    BY OpStepQuiet
  <1>1. CASE EnterHandler(op)
    BY <1>1 DEF EnterHandler, Move, wafVars, OpTypeOK
  <1>2. CASE StartOperation(op)
    <2>1. {l[2] : l \in {k \in root : k[1] = IF op \in HTTPOps THEN "http" ELSE "grpc"}} \subseteq Instances
      BY DEF LifeTypeOK
    <2> QED BY <1>2, <2>1 DEF StartOperation, Move, wafVars, OpTypeOK
  <1>3. CASE FinishHandler(op)
    <2>1. reg[op] \subseteq Instances /\ "finish" \in Emitters(op)
      BY EmitterNames DEF OpTypeOK
    <2>2. DOMAIN todo' = Ops /\ \A o \in Ops : todo'[o] \in [Emitters(o) -> SUBSET Instances]
      BY <1>3, <2>1, EmitterTyped DEF FinishHandler
    <2> QED BY <1>3, <2>2 DEF FinishHandler, Move, wafVars, OpTypeOK
  <1>4. CASE Disable(op)
    BY <1>4 DEF Disable, Move, wafVars, OpTypeOK
  <1>5. CASE CallHTTPFinish(op)
    <2>1. "finish" \in Emitters(op)
      BY EmitterNames
    <2>2. PICK i \in todo[op]["finish"] :
             /\ todo' = [todo EXCEPT ![op]["finish"] = todo[op]["finish"] \ {i}]
             /\ cur' = [cur EXCEPT ![op]["finish"] = <<i, "lock">>]
      BY <1>5 DEF CallHTTPFinish, OpTypeOK
    <2>3. i \in Instances /\ todo[op]["finish"] \ {i} \in SUBSET Instances
      BY <2>1, <2>2, CurrentInstance
    <2>4. DOMAIN todo' = Ops /\ \A o \in Ops : todo'[o] \in [Emitters(o) -> SUBSET Instances]
      BY <2>1, <2>2, <2>3, EmitterTyped
    <2>5. DOMAIN cur' = Ops /\ \A o \in Ops :
            cur'[o] \in [Emitters(o) -> {<<0, "none">>} \cup (Instances \X {"lock", "run"})]
      BY <2>1, <2>2, <2>3, EmitterTyped
    <2> QED BY <1>5, <2>4, <2>5 DEF CallHTTPFinish, wafVars, OpTypeOK
  <1>6. CASE CallGRPCFinish(op)
    <2>1. "finish" \in Emitters(op)
      BY EmitterNames
    <2>2. PICK i \in todo[op]["finish"], allow \in BOOLEAN :
             /\ todo' = [todo EXCEPT ![op]["finish"] = todo[op]["finish"] \ {i}]
             /\ reported' = [reported EXCEPT ![op] = @ + IF allow THEN events[op][i] ELSE 0]
      BY <1>6 DEF CallGRPCFinish, OpTypeOK
    <2>3. i \in Instances /\ todo[op]["finish"] \ {i} \in SUBSET Instances
      BY <2>1, <2>2, CurrentInstance
    <2>4. DOMAIN todo' = Ops /\ \A o \in Ops : todo'[o] \in [Emitters(o) -> SUBSET Instances]
      BY <2>1, <2>2, <2>3, EmitterTyped
    <2>5. reported' \in [Ops -> Nat]
      BY <1>6, <2>2, <2>3 DEF CallGRPCFinish, OpTypeOK
    <2> QED BY <1>6, <2>4, <2>5 DEF CallGRPCFinish, wafVars, OpTypeOK
  <1>7. ASSUME NEW g \in Emitters(op), NewContext(op, g) \/ NoContext(op, g) \/ RunWAF(op, g)
        PROVE  OpTypeOK'
    <2>1. cur[op][g][1] \in Instances
      BY <1>7, CurrentInstance DEF NewContext, NoContext, RunWAF
    <2>2. PICK x \in {<<0, "none">>} \cup (Instances \X {"lock", "run"}) :
             cur' = [cur EXCEPT ![op][g] = x]
      BY <1>7, <2>1 DEF NewContext, NoContext, RunWAF
    <2>3. DOMAIN cur' = Ops /\ \A o \in Ops :
            cur'[o] \in [Emitters(o) -> {<<0, "none">>} \cup (Instances \X {"lock", "run"})]
      BY <2>2, EmitterTyped
    <2>4. leaked' \subseteq Instances /\ \A u \in using' : u[3] \in Instances
      BY <1>7, <2>1 DEF NewContext, NoContext, RunWAF, OpTypeOK
    <2>5. events' \in [GRPCOps -> [Instances -> Nat]] /\ reported' \in [Ops -> Nat]
      <3>1. CASE UNCHANGED <<events, reported>>
        BY <3>1 DEF OpTypeOK
      <3>2. CASE op \in GRPCOps /\ events' = [events EXCEPT ![op][cur[op][g][1]] = @ + 1] /\ UNCHANGED reported
        BY <2>1, <3>2 DEF OpTypeOK
      <3>3. CASE reported' = [reported EXCEPT ![op] = @ + 1] /\ UNCHANGED events
        BY <3>3 DEF OpTypeOK
      <3> QED BY <1>7, <3>1, <3>2, <3>3 DEF NewContext, NoContext, RunWAF
    <2> QED BY <1>7, <2>3, <2>4, <2>5 DEF NewContext, NoContext, RunWAF, OpTypeOK
  <1>8. ASSUME op \in GRPCOps, NEW r \in Receivers, Receive(op, r)
        PROVE  OpTypeOK'
    <2>1. reg[op] \in SUBSET Instances /\ r \in Emitters(op)
      BY <1>8, EmitterNames DEF OpTypeOK
    <2>2. DOMAIN todo' = Ops /\ \A o \in Ops : todo'[o] \in [Emitters(o) -> SUBSET Instances]
      BY <1>8, <2>1, EmitterTyped DEF Receive
    <2> QED BY <1>8, <2>2 DEF Receive, wafVars, OpTypeOK
  <1>9. ASSUME op \in GRPCOps, NEW r \in Receivers, CallReceive(op, r)
        PROVE  OpTypeOK'
    <2>1. r \in Emitters(op)
      BY <1>9, EmitterNames
    <2>2. PICK i \in todo[op][r] :
             /\ todo' = [todo EXCEPT ![op][r] = todo[op][r] \ {i}]
             /\ cur' = cur \/ cur' = [cur EXCEPT ![op][r] = <<i, "lock">>]
      BY <1>9, <2>1 DEF CallReceive, OpTypeOK
    <2>3. i \in Instances /\ todo[op][r] \ {i} \in SUBSET Instances
      BY <2>1, <2>2, CurrentInstance
    <2>4. DOMAIN todo' = Ops /\ \A o \in Ops : todo'[o] \in [Emitters(o) -> SUBSET Instances]
      BY <2>1, <2>2, <2>3, EmitterTyped
    <2>5. DOMAIN cur' = Ops /\ \A o \in Ops :
            cur'[o] \in [Emitters(o) -> {<<0, "none">>} \cup (Instances \X {"lock", "run"})]
      <3>1. CASE cur' = cur
        BY <3>1 DEF OpTypeOK
      <3>2. CASE cur' = [cur EXCEPT ![op][r] = <<i, "lock">>]
        BY <2>1, <2>3, <3>2, EmitterTyped
      <3> QED BY <2>2, <3>1, <3>2
    <2> QED BY <1>9, <2>4, <2>5 DEF CallReceive, wafVars, OpTypeOK
  <1> QED BY <1>1, <1>2, <1>3, <1>4, <1>5, <1>6, <1>7, <1>8, <1>9 DEF OpStep

LEMMA OpStepUse ==
    ASSUME NoUseAfterRelease, NEW op \in Ops, OpStep(op)
    PROVE  NoUseAfterRelease'
  <1>0. handle' = handle
    BY SMTT(30), OpStepQuiet DEF lifecycle, instVars
  <1>1. ASSUME NEW u \in using' PROVE u \in using \/ handle[u[3]] = "open"
    BY <1>1 DEF OpStep, EnterHandler, StartOperation, FinishHandler, Disable, CallHTTPFinish,
       CallGRPCFinish, NewContext, NoContext, RunWAF, Receive, CallReceive, wafVars
  <1> QED BY <1>0, <1>1 DEF NoUseAfterRelease

\* Only Close, and a start that fails, turn a handle into a closed one.
LEMMA CallerStepUse ==
    ASSUME LifeInv, UseInv, NEW c \in Callers, CallerStep(c)
    PROVE  UseInv'
  <1>0. UNCHANGED <<wafVars, opVars>>
    BY CallerStepLife
  <1>1. OpTypeOK'
    BY <1>0 DEF wafVars, opVars, OpTypeOK, UseInv
  <1>2. ASSUME NEW u \in using PROVE handle'[u[3]] = "open"
    <2>0. u[3] \in Instances /\ handle[u[3]] = "open"
      BY <1>2 DEF UseInv, OpTypeOK, NoUseAfterRelease
    <2>1. CASE OpenWAF(c)
      BY <2>0, <2>1 DEF OpenWAF, LifeInv, LifeTypeOK
    <2>2. CASE OpenFails(c)
      <3>1. handle[caller[c].inst] = "none"
        BY <2>2 DEF OpenFails, LifeInv, CallerInv
      <3> QED BY <2>0, <2>2, <3>1 DEF OpenFails, LifeInv, LifeTypeOK
    <2>3. CASE CloseHandle(c)
      <3>1. u[3] # active
        BY <1>2, <2>3 DEF CloseHandle
      <3> QED BY <2>0, <2>3, <3>1 DEF CloseHandle, LifeInv, LifeTypeOK
    <2>4. CASE ~OpenWAF(c) /\ ~OpenFails(c) /\ ~CloseHandle(c)
      <3>1. handle' = handle
        BY <2>4 DEF CallerStep, StartTracer, StopTracer, ConfigureOff, ConfigureRemote, ConfigureOn,
           Register, Started, SetActive, Unregister, CloseWaits, Swap, instVars
      <3> QED BY <2>0, <3>1
    <2> QED BY <2>1, <2>2, <2>3, <2>4
  <1>3. NoUseAfterRelease'
    BY <1>0, <1>2 DEF NoUseAfterRelease, wafVars
  <1> QED BY <1>1, <1>3 DEF UseInv

LEMMA UseInvariance == Spec => []UseInv
  <1>1. Init => UseInv
    <2> SUFFICES ASSUME Init PROVE UseInv
      OBVIOUS
    <2>1. OpTypeOK
      BY DEF Init, OpTypeOK
    <2> QED BY <2>1 DEF Init, UseInv, NoUseAfterRelease
  <1>2. LifeInv /\ UseInv /\ [Next]_vars => UseInv'
    <2> SUFFICES ASSUME LifeInv, UseInv, [Next]_vars PROVE UseInv'
      OBVIOUS
    <2>1. CASE UNCHANGED vars
      BY <2>1 DEF vars, wafVars, opVars, instVars, UseInv, OpTypeOK, NoUseAfterRelease
    <2>2. ASSUME NEW i \in Instances, PollStop(i) PROVE UseInv'
      BY <2>2 DEF PollStop, wafVars, opVars, instVars, UseInv, OpTypeOK, NoUseAfterRelease
    <2>3. ASSUME NEW op \in Ops, OpStep(op) PROVE UseInv'
      BY <2>3, OpStepTyped, OpStepUse DEF UseInv, LifeInv
    <2>4. ASSUME NEW c \in Callers, CallerStep(c) PROVE UseInv'
      BY <2>4, CallerStepUse
    <2> QED BY <2>1, <2>2, <2>3, <2>4, NextSplit
  <1> QED BY <1>1, <1>2, LifeInvariance, PTL DEF Spec

\* No request uses a context of a WAF handle whose C memory was freed, whenever Stop or
\* another Start come in and however many requests run.
THEOREM ContextsAreSafe == Spec => []NoUseAfterRelease
  <1>1. UseInv => NoUseAfterRelease
    BY DEF UseInv
  <1> QED BY <1>1, UseInvariance, PTL

\* AppSec is type correct.
THEOREM AppSecTyped == Spec => []TypeOK
  <1>1. LifeInv /\ UseInv => TypeOK
    BY DEF LifeInv, UseInv, TypeOK
  <1> QED BY <1>1, LifeInvariance, UseInvariance, PTL

-----------------------------------------------------------------------------
(* The limit of the events of a gRPC call. *)

LEMMA Scaled ==
    ASSUME NEW a \in Nat, NEW m \in Nat, NEW n \in Nat, m =< n
    PROVE  a * m =< a * n /\ a * (m + 1) = a * m + a
  OBVIOUS

LEMMA CountedFinite ==
    ASSUME NEW S \in SUBSET Instances
    PROVE  IsFiniteSet(S) /\ Cardinality(S) \in Nat
  <1>1. IsFiniteSet(Instances)
    BY AppSecAssumption, FS_Interval DEF Instances
  <1> QED BY <1>1, FS_Subset, FS_CardinalityType

\* Whoever is counted stays counted: what may be reported only grows.
LEMMA MoreCounted ==
    ASSUME NEW op \in GRPCOps, Counted(op) \subseteq Counted(op)'
    PROVE  MaxEvents * Cardinality(Counted(op)) =< MaxEvents * Cardinality(Counted(op)')
  <1>1. Counted(op) \in SUBSET Instances /\ Counted(op)' \in SUBSET Instances
    BY DEF Counted
  <1>2. /\ Cardinality(Counted(op)) \in Nat /\ Cardinality(Counted(op)') \in Nat
        /\ Cardinality(Counted(op)) =< Cardinality(Counted(op)')
    BY <1>1, CountedFinite, FS_Subset
  <1> QED BY <1>2, Scaled, AppSecAssumption

\* Steps that leave an operation's listeners, counts and reports alone.
LEMMA OtherEvents ==
    ASSUME NEW op \in GRPCOps, EventsOf(op), events'[op] = events[op], cur'[op] = cur[op],
           reported'[op] = reported[op], todo'[op]["finish"] = todo[op]["finish"],
           at'[op] \in {"new", "starting", "running"} => at[op] \in {"new", "starting", "running"}
    PROVE  EventsOf(op)'
  <1>1. Counted(op)' = Counted(op)
    BY DEF Counted
  <1> QED BY <1>1 DEF EventsOf

LEMMA OpStepEvents ==
    ASSUME \A r, s \in Receivers : r = s, LifeTypeOK, OpTypeOK, EventInv,
           NEW op \in Ops, OpStep(op), NEW o \in GRPCOps
    PROVE  EventsOf(o)'
  <1> USE DEF EventInv
  <1>0. o \in Ops /\ "finish" \in Emitters(o) /\ Receivers \subseteq Emitters(o) /\ EventsOf(o) /\ o \notin HTTPOps
        /\ "finish" \notin Receivers
    BY AppSecAssumption, EmitterNames DEF Ops
  <1>1. CASE o # op
    <2>1. /\ events'[o] = events[o] /\ cur'[o] = cur[o] /\ reported'[o] = reported[o]
          /\ todo'[o] = todo[o] /\ at'[o] = at[o]
      BY <1>0, <1>1 DEF OpTypeOK, OpStep, EnterHandler, StartOperation, FinishHandler, Disable, Move,
         CallHTTPFinish, CallGRPCFinish, NewContext, NoContext, RunWAF, Receive, CallReceive
    <2> QED BY SMTT(30), <1>0, <2>1, OtherEvents
  <1>2. CASE o = op
    <2>1. CASE EnterHandler(op) \/ StartOperation(op) \/ Disable(op)
      BY <1>0, <1>2, <2>1, OtherEvents DEF OpTypeOK, EnterHandler, StartOperation, Disable, Move
    <2>2. CASE FinishHandler(op)
      <3>1. reported[o] = 0 /\ at'[o] = "finishing" /\ UNCHANGED <<cur, events, reported>>
        BY <1>0, <1>2, <2>2 DEF FinishHandler, Move, EventsOf, OpTypeOK
      <3>2. Counted(o)' \in SUBSET Instances
        BY DEF Counted
      <3>3. reported'[o] =< MaxEvents * Cardinality(Counted(o)')
        BY <3>1, <3>2, CountedFinite, Scaled, AppSecAssumption
      <3> QED BY <1>0, <3>1, <3>3 DEF EventsOf
    <2>3. CASE CallGRPCFinish(op)
      <3>1. PICK i \in todo[o]["finish"], allow \in BOOLEAN :
               /\ todo' = [todo EXCEPT ![o]["finish"] = @ \ {i}]
               /\ reported' = [reported EXCEPT ![o] = @ + IF allow THEN events[o][i] ELSE 0]
               /\ UNCHANGED <<at, cur, events>>
        BY <1>2, <2>3 DEF CallGRPCFinish
      <3>2. i \in Instances /\ i \notin Counted(o) /\ at[o] \notin {"new", "starting", "running"}
        BY <1>0, <3>1, CurrentInstance DEF Counted, EventsOf
      <3>3. todo'[o]["finish"] = todo[o]["finish"] \ {i}
        BY <1>0, <3>1 DEF OpTypeOK
      <3>4. Counted(o) \in SUBSET Instances /\ Cardinality(Counted(o)) \in Nat /\ IsFiniteSet(Counted(o))
        BY CountedFinite DEF Counted
      <3>5. reported'[o] =< MaxEvents * Cardinality(Counted(o)')
        <4>0. events[o][i] \in Nat /\ events[o][i] =< MaxEvents /\ reported[o] \in Nat /\ MaxEvents \in Nat
              /\ reported[o] =< MaxEvents * Cardinality(Counted(o))
          BY <1>0, <3>2, AppSecAssumption DEF OpTypeOK, EventsOf
        <4>1. CASE events[o][i] = 0
          <5>1. Counted(o)' = Counted(o)
            BY <3>1, <3>3, <4>1 DEF Counted
          <5>2. reported'[o] = reported[o]
            BY <1>0, <3>1, <4>0, <4>1 DEF OpTypeOK
          <5> QED BY <4>0, <5>1, <5>2
        <4>2. CASE events[o][i] > 0
          <5>1. Counted(o)' = Counted(o) \cup {i}
            BY <3>1, <3>2, <3>3, <4>2 DEF Counted
          <5>2. Cardinality(Counted(o)') = Cardinality(Counted(o)) + 1
            BY <3>2, <3>4, <5>1, FS_AddElement
          <5>3. reported'[o] =< reported[o] + events[o][i]
            BY <1>0, <3>1, <4>0 DEF OpTypeOK
          <5>4. MaxEvents * (Cardinality(Counted(o)) + 1) = MaxEvents * Cardinality(Counted(o)) + MaxEvents
            BY <3>4, <4>0, Scaled
          <5>5. reported'[o] \in Nat /\ MaxEvents * Cardinality(Counted(o)) \in Nat
            BY <1>0, <3>1, <3>4, <4>0 DEF OpTypeOK
          <5> QED BY <4>0, <5>2, <5>3, <5>4, <5>5
        <4> QED BY <4>0, <4>1, <4>2
      <3> QED BY <1>0, <3>1, <3>2, <3>5 DEF EventsOf
    <2>4. ASSUME NEW g \in Emitters(op), NewContext(op, g)
          PROVE  EventsOf(o)'
      <3>1. /\ UNCHANGED <<at, todo, events, reported>> /\ \A h \in Emitters(o) : h # g => cur'[o][h] = cur[o][h]
            /\ cur'[o][g] \in {<<0, "none">>, <<cur[o][g][1], "run">>} /\ cur[o][g][2] # "none"
        BY <1>0, <1>2, <2>4 DEF NewContext, OpTypeOK
      <3>2. Counted(o)' = Counted(o)
        BY <3>1 DEF Counted
      <3>3. \A h \in Emitters(o) : cur'[o][h][2] # "none" =>
               h # "finish" /\ events[o][cur'[o][h][1]] < MaxEvents
        BY <1>0, <1>2, <2>4, <3>1 DEF EventsOf
      <3> QED BY <1>0, <3>1, <3>2, <3>3 DEF EventsOf
    <2>5. ASSUME NEW g \in Emitters(op), NoContext(op, g) \/ RunWAF(op, g)
          PROVE  EventsOf(o)'
      <3>0. /\ UNCHANGED <<at, todo>> /\ reported'[o] = reported[o]
            /\ \A h \in Emitters(o) : h # g => cur'[o][h] = cur[o][h]
            /\ cur'[o][g][2] = "none" /\ cur[o][g][2] # "none" /\ g # "finish"
        BY <1>0, <1>2, <2>5 DEF NoContext, RunWAF, OpTypeOK, EventsOf
      <3>1. g \in Receivers /\ \A h \in Emitters(o) : h # g => cur'[o][h][2] = "none"
        <4>1. Emitters(o) = {"finish"} \cup Receivers
          BY DEF Emitters
        <4>2. g \in Receivers /\ \A h \in Emitters(o) : h # g => h = "finish"
          BY <1>2, <3>0, <4>1
        <4> QED BY <1>0, <3>0, <4>2 DEF EventsOf
      <3>2. cur[o][g][1] \in Instances /\ events[o][cur[o][g][1]] < MaxEvents
        BY <1>0, <1>2, <2>5, <3>0, CurrentInstance DEF EventsOf
      <3>3. /\ \A i \in Instances : events'[o][i] \in Nat /\ events'[o][i] >= events[o][i]
            /\ \A i \in Instances : events'[o][i] =< MaxEvents
        <4>1. events' = events \/ events' = [events EXCEPT ![o][cur[o][g][1]] = @ + 1]
          BY <1>2, <2>5 DEF NoContext, RunWAF
        <4>2. CASE events' = events
          BY <1>0, <4>2 DEF OpTypeOK, EventsOf
        <4>3. CASE events' = [events EXCEPT ![o][cur[o][g][1]] = @ + 1]
          BY <1>0, <3>2, <4>3, AppSecAssumption DEF OpTypeOK, EventsOf
        <4> QED BY <4>1, <4>2, <4>3
      <3>4. Counted(o) \subseteq Counted(o)'
        BY <3>0, <3>3 DEF Counted, OpTypeOK
      <3>5. /\ Counted(o) \in SUBSET Instances /\ Counted(o)' \in SUBSET Instances
        BY DEF Counted
      <3>6. reported'[o] =< MaxEvents * Cardinality(Counted(o)')
        <4>1. /\ MaxEvents * Cardinality(Counted(o)) \in Nat
              /\ MaxEvents * Cardinality(Counted(o)') \in Nat
              /\ reported[o] \in Nat
          <5>1. Cardinality(Counted(o)) \in Nat /\ Cardinality(Counted(o)') \in Nat
            BY <3>5, CountedFinite
          <5>2. MaxEvents \in Nat /\ reported[o] \in Nat
            BY <1>0, AppSecAssumption DEF OpTypeOK
          <5> QED BY <5>1, <5>2
        <4> QED BY <1>0, <3>0, <3>4, <4>1, MoreCounted DEF EventsOf
      <3> QED BY <1>0, <1>2, <3>0, <3>1, <3>3, <3>6 DEF EventsOf
    <2>6. ASSUME NEW r \in Receivers, Receive(op, r)
          PROVE  EventsOf(o)'
      <3>1. todo'[o]["finish"] = todo[o]["finish"] /\ UNCHANGED <<at, cur, events, reported>>
        BY <1>0, <1>2, <2>6 DEF Receive, OpTypeOK
      <3> QED BY <1>0, <3>1, OtherEvents
    <2>7. ASSUME NEW r \in Receivers, CallReceive(op, r)
          PROVE  EventsOf(o)'
      <3>1. PICK i \in todo[o][r] :
               /\ todo' = [todo EXCEPT ![o][r] = @ \ {i}]
               /\ cur' = IF events[o][i] = MaxEvents THEN cur ELSE [cur EXCEPT ![o][r] = <<i, "lock">>]
               /\ UNCHANGED <<at, events, reported>>
        BY <1>2, <2>7 DEF CallReceive
      <3>2. todo'[o]["finish"] = todo[o]["finish"] /\ i \in Instances /\ r # "finish"
        BY <1>0, <3>1, CurrentInstance DEF OpTypeOK
      <3>3. Counted(o)' = Counted(o)
        BY <3>1, <3>2 DEF Counted
      <3>4. \A h \in Emitters(o) : h # r => cur'[o][h] = cur[o][h]
        BY <1>0, <3>1 DEF OpTypeOK
      <3>5. cur'[o][r] = cur[o][r] \/ (cur'[o][r] = <<i, "lock">> /\ events[o][i] # MaxEvents)
        BY <1>0, <3>1 DEF OpTypeOK
      <3>6. events[o][i] # MaxEvents => events[o][i] < MaxEvents
        <4>1. events[o][i] \in Nat /\ events[o][i] =< MaxEvents /\ MaxEvents \in Nat
          BY <1>0, <3>2, AppSecAssumption DEF OpTypeOK, EventsOf
        <4> QED BY <4>1
      <3>7. \A h \in Emitters(o) : cur'[o][h][2] # "none" =>
               h # "finish" /\ events[o][cur'[o][h][1]] < MaxEvents
        BY <1>0, <3>2, <3>4, <3>5, <3>6 DEF EventsOf
      <3> QED BY <1>0, <3>1, <3>2, <3>3, <3>7 DEF EventsOf
    <2>8. ~CallHTTPFinish(op)
      BY <1>0, <1>2 DEF CallHTTPFinish
    <2> QED BY <2>1, <2>2, <2>3, <2>4, <2>5, <2>6, <2>7, <2>8 DEF OpStep
  <1> QED BY <1>1, <1>2

\* With the one receiving goroutine that gRPC allows, an instance never counts more
\* events for a call than the limit, nor reports an event twice, whoever starts and stops
\* meanwhile.
THEOREM EventsStayBounded ==
    ASSUME \A r, s \in Receivers : r = s
    PROVE  Spec => []EventsBounded
  <1>1. Init => EventInv
    <2> SUFFICES ASSUME Init, NEW op \in GRPCOps PROVE EventsOf(op)
      BY DEF EventInv
    <2>0. op \in Ops /\ "finish" \in Emitters(op)
      BY EmitterNames DEF Ops
    <2>1. Counted(op) = {}
      BY DEF Init, Counted
    <2>2. Cardinality(Counted(op)) = 0
      BY <2>1, FS_EmptySet
    <2>3. MaxEvents * 0 = 0
      BY AppSecAssumption
    <2> QED BY <2>0, <2>2, <2>3, AppSecAssumption DEF Init, EventsOf
  <1>2. LifeInv /\ UseInv /\ EventInv /\ [Next]_vars => EventInv'
    <2> SUFFICES ASSUME LifeInv, UseInv, EventInv, [Next]_vars PROVE EventInv'
      OBVIOUS
    <2>1. CASE UNCHANGED opVars
      BY <2>1, OtherEvents DEF opVars, EventInv
    <2>2. ASSUME NEW op \in Ops, OpStep(op) PROVE EventInv'
      BY <2>2, OpStepEvents DEF EventInv, LifeInv, UseInv
    <2>3. CASE UNCHANGED vars \/ \E i \in Instances : PollStop(i)
      BY <2>1, <2>3 DEF vars, PollStop
    <2>4. ASSUME NEW c \in Callers, CallerStep(c) PROVE EventInv'
      BY <2>1, <2>4, CallerStepLife
    <2> QED BY <2>2, <2>3, <2>4, NextSplit
  <1>3. LifeInv /\ UseInv /\ EventInv => EventsBounded
    <2> SUFFICES ASSUME LifeInv, UseInv, EventInv, NEW op \in GRPCOps
                 PROVE  /\ \A i \in Instances : events[op][i] =< MaxEvents
                        /\ reported[op] =< MaxEvents * Cardinality({i \in Instances : events[op][i] > 0})
      BY DEF EventsBounded
    <2> DEFINE All == {i \in Instances : events[op][i] > 0}
    <2>1. Counted(op) \subseteq All /\ Counted(op) \in SUBSET Instances /\ All \in SUBSET Instances
      BY DEF Counted
    <2>2. /\ Cardinality(Counted(op)) \in Nat /\ Cardinality(All) \in Nat
          /\ Cardinality(Counted(op)) =< Cardinality(All)
      BY <2>1, CountedFinite, FS_Subset
    <2>3. MaxEvents * Cardinality(Counted(op)) =< MaxEvents * Cardinality(All)
      BY <2>2, Scaled, AppSecAssumption
    <2>4. /\ MaxEvents * Cardinality(Counted(op)) \in Nat /\ MaxEvents * Cardinality(All) \in Nat
          /\ reported[op] \in Nat
      BY <2>2, AppSecAssumption DEF UseInv, OpTypeOK, Ops
    <2> QED BY <2>3, <2>4 DEF EventInv, EventsOf
  <1> QED BY <1>1, <1>2, <1>3, LifeInvariance, UseInvariance, PTL DEF Spec

=============================================================================

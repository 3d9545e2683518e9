------------------------ MODULE TracerPipeline_proofs ------------------------
(***************************************************************************)
(* Theorems about TracerPipeline, for any set of traces, any number of     *)
(* Flush calls and any limits.                                             *)
(***************************************************************************)
EXTENDS TracerPipeline, FiniteSetTheorems, TLAPS

-----------------------------------------------------------------------------
(* Type correctness. *)

\* The queue stays within its capacity when a trace is added below it.
LEMMA QueueBound ==
    ASSUME NEW Q \in SUBSET Traces, NEW t \in Traces
    PROVE  /\ Cardinality(Q) \in Nat
           /\ Cardinality(Q) < QueueSize => Cardinality(Q \cup {t}) <= QueueSize
           /\ Cardinality(Q) <= QueueSize => Cardinality(Q \ {t}) <= QueueSize
  <1>1. IsFiniteSet(Q) /\ Cardinality(Q) \in Nat
    BY TracesAssumption, FS_Subset, FS_CardinalityType
  <1>2. Cardinality(Q \cup {t}) <= Cardinality(Q) + 1 /\ Cardinality(Q \cup {t}) \in Nat
    <2>1. Cardinality(Q \cup {t}) = IF t \in Q THEN Cardinality(Q) ELSE Cardinality(Q) + 1
      BY <1>1, FS_AddElement
    <2> QED BY <1>1, <2>1
  <1>3. Cardinality(Q \ {t}) <= Cardinality(Q) /\ Cardinality(Q \ {t}) \in Nat
    <2>1. Q \ {t} \in SUBSET Q
      OBVIOUS
    <2> QED BY <1>1, <2>1, FS_Subset, FS_CardinalityType
  <1>4. QueueSize \in Nat
    BY LimitsAssumption
  <1> QED BY <1>1, <1>2, <1>3, <1>4

TypeInv == TypeOK /\ WriterInv

LEMMA PusherTyped ==
    ASSUME TypeInv, NEW t \in Traces, Pusher(t)
    PROVE  TypeInv'
  <1> USE DEF TypeInv, TypeOK, WriterInv, writerVars, agentVars, dropVars, flushVars, stopVars, workerVars
  <1>1. CASE PushRead(t)
    BY <1>1 DEF PushRead, Refuse
  <1>2. CASE PushCheck(t)
    BY <1>2 DEF PushCheck, Refuse
  <1>3. CASE PushSend(t)
    <2>1. queue' \subseteq Traces /\ Cardinality(queue') <= QueueSize
      BY ZenonT(40), <1>3, QueueBound DEF PushSend, Refuse
    <2> QED BY <1>3, <2>1 DEF PushSend, Refuse
  <1> QED BY <1>1, <1>2, <1>3 DEF Pusher

\* A flush that starts a request keeps the writer's invariant.
LEMMA StartSendTyped ==
    ASSUME TypeInv, StartSend
    PROVE  /\ senders' \subseteq Senders /\ payload' = {}
           /\ \A p \in senders' : p.traces # {} /\ (p.state = "started" => p.header = {})
  BY DEF StartSend, TypeInv, TypeOK, WriterInv, Senders

LEMMA WorkerTyped ==
    ASSUME TypeInv, Worker \/ \E f \in Flushers : FlushCall(f) \/ FlushTake(f)
    PROVE  TypeInv'
  <1> USE DEF TypeInv, TypeOK, WriterInv, pushVars, writerVars, agentVars, dropVars, flushVars, stopVars, workerVars
  <1>1. ASSUME NEW t \in Traces, Receive(t) PROVE TypeInv'
    <2>1. queue' \subseteq Traces /\ Cardinality(queue') <= QueueSize
      BY <1>1, QueueBound DEF Receive
    <2>2. CASE SampleOut(t)
      BY <1>1, <2>1, <2>2 DEF Receive, SampleOut
    <2>3. CASE AddToPayload(t)
      BY <1>1, <2>1, <2>3 DEF Receive, AddToPayload
    <2>4. CASE AddUnencoded(t)
      BY <1>1, <2>1, <2>4 DEF Receive, AddUnencoded
    <2> QED BY <1>1, <2>2, <2>3, <2>4 DEF Receive
  <1>2. CASE Tick
    BY <1>2 DEF Tick
  <1>3. CASE WorkerFlush
    <2>1. flusher' \in [Flushers -> {"idle", "blocked", "waiting", "returned"}]
      BY <1>3 DEF WorkerFlush
    <2> QED BY <1>3, <2>1, StartSendTyped DEF WorkerFlush
  <1>4. CASE WorkerStop \/ WorkerExit
    BY <1>4 DEF WorkerStop, WorkerExit
  <1>5. ASSUME NEW f \in Flushers, FlushCall(f) PROVE TypeInv'
    BY <1>5 DEF FlushCall
  <1>6. ASSUME NEW f \in Flushers, FlushTake(f) PROVE TypeInv'
    BY <1>6, FlusherAssumption DEF FlushTake
  <1> QED BY <1>1, <1>2, <1>3, <1>4, <1>5, <1>6 DEF Worker

LEMMA SenderTyped ==
    ASSUME TypeInv, NEW p \in senders, Sender(p)
    PROVE  TypeInv'
  <1> USE DEF TypeInv, TypeOK, WriterInv, Senders, pushVars, writerVars, agentVars, dropVars, flushVars, stopVars, workerVars
  <1>1. CASE SendRequest(p)
    <2> DEFINE h == IF global THEN droppedP0 ELSE {}
               q == [p EXCEPT !.state = "requested", !.header = h]
    <2>1. q \in Senders /\ q.traces = p.traces /\ q.state = "requested"
      OBVIOUS
    <2>2. senders' = (senders \ {p}) \cup {q}
      BY <1>1 DEF SendRequest
    <2>3. /\ senders' \subseteq Senders
          /\ \A r \in senders' : r.traces # {} /\ (r.state = "started" => r.header = {})
      <3> HIDE DEF q
      <3> QED BY <2>1, <2>2
    <2> QED BY <1>1, <2>3 DEF SendRequest
  <1>2. CASE SendOK(p)
    BY <1>2 DEF SendOK
  <1>3. CASE SendFail(p)
    BY <1>3 DEF SendFail
  <1> QED BY <1>1, <1>2, <1>3 DEF Sender

LEMMA StopTyped ==
    ASSUME TypeInv, StopSwap \/ Stopper
    PROVE  TypeInv'
  <1> USE DEF TypeInv, TypeOK, WriterInv, pushVars, writerVars, agentVars, dropVars, flushVars, stopVars, workerVars
  <1>1. CASE StopSwap
    BY <1>1 DEF StopSwap
  <1>2. CASE StopClose \/ StopJoin \/ StopReturn
    BY <1>2 DEF StopClose, StopJoin, StopReturn
  <1>3. CASE StopFlush
    <2>1. CASE payload = {}
      BY <1>3, <2>1 DEF StopFlush
    <2>2. CASE StartSend
      BY <1>3, <2>2, StartSendTyped DEF StopFlush
    <2> QED BY <1>3, <2>1, <2>2 DEF StopFlush
  <1> QED BY <1>1, <1>2, <1>3 DEF Stopper

\* The typing invariant is inductive.
LEMMA TypeInvariance == Spec => []TypeInv
  <1>1. Init => TypeInv
    <2>1. Cardinality({}) = 0 /\ QueueSize \in Nat
      BY FS_EmptySet, LimitsAssumption
    <2> SUFFICES ASSUME Init PROVE TypeInv
      OBVIOUS
    <2>2. WriterInv
      BY DEF Init, WriterInv
    <2>3. /\ push \in [Traces -> {"new", "read", "checked", "done"}]
          /\ flusher \in [Flushers -> {"idle", "blocked", "waiting", "returned"}]
          /\ asked \in [Flushers -> SUBSET Traces]
      BY DEF Init
    <2>4. queue \subseteq Traces /\ Cardinality(queue) <= QueueSize
      BY <2>1 DEF Init
    <2> QED BY <2>2, <2>3, <2>4 DEF Init, TypeInv, TypeOK
  <1>2. TypeInv /\ [Next]_vars => TypeInv'
    <2> SUFFICES ASSUME TypeInv, [Next]_vars PROVE TypeInv'
      OBVIOUS
    <2>1. CASE UNCHANGED vars
      BY <2>1 DEF vars, pushVars, writerVars, agentVars, dropVars, flushVars, stopVars,
         workerVars, TypeInv, TypeOK, WriterInv
    <2> QED BY <2>1, PusherTyped, WorkerTyped, SenderTyped, StopTyped DEF Next
  <1> QED BY <1>1, <1>2, PTL DEF Spec

\* The pipeline is type correct; the channel never exceeds its capacity.
THEOREM TypeCorrect == Spec => []TypeOK
  <1>1. TypeInv => TypeOK
    BY DEF TypeInv
  <1> QED BY <1>1, TypeInvariance, PTL

-----------------------------------------------------------------------------
(* Every trace is in exactly one place. *)

\* Starting a request moves the payload into flight.
LEMMA StartSendMoves ==
    ASSUME TypeInv, Conservation, StartSend
    PROVE  /\ InFlight' = InFlight \cup payload
           /\ \A p, q \in senders' : p # q => p.traces \cap q.traces = {}
  <1> DEFINE r == [traces |-> payload, header |-> {}, state |-> "started"]
  <1>1. senders' = senders \cup {r} /\ r.traces = payload
    BY DEF StartSend
  <1>2. \A p \in senders : p.traces \subseteq InFlight
    BY DEF InFlight
  <1> HIDE DEF r
  <1>3. InFlight' = InFlight \cup payload
    BY <1>1 DEF InFlight
  <1>4. \A p \in senders : p.traces \cap payload = {}
    BY <1>2 DEF Conservation
  <1> QED BY <1>1, <1>3, <1>4 DEF Conservation

\* A request that ends takes exactly its own traces out of flight.
LEMMA EndSendMoves ==
    ASSUME Conservation, NEW p \in senders, senders' = senders \ {p}
    PROVE  InFlight' = InFlight \ p.traces /\ p.traces \subseteq InFlight
  BY DEF InFlight, Conservation

LEMMA PusherConserves ==
    ASSUME TypeInv, Conservation, NEW t \in Traces, Pusher(t)
    PROVE  Conservation'
  <1> USE DEF TypeInv, TypeOK, writerVars, agentVars, dropVars, flushVars, stopVars, workerVars
  <1>1. InFlight' = InFlight /\ senders' = senders
    BY DEF Pusher, PushRead, PushCheck, PushSend, InFlight
  <1>2. push[t] # "done" /\ t \notin queue \cup payload \cup InFlight \cup delivered \cup lost \cup Dropped
    BY DEF Pusher, PushRead, PushCheck, PushSend, Conservation
  <1>3. UNCHANGED <<payload, delivered, lost, sampledOut, unencoded>>
    BY DEF Pusher, PushRead, PushCheck, PushSend
  <1>4. CASE Refuse(t)
    <2>1. {u \in Traces : push'[u] = "done"} = {u \in Traces : push[u] = "done"} \cup {t}
      BY <1>4 DEF Refuse
    <2>2. Dropped' = Dropped \cup {t} /\ queue' = queue
      BY <1>3, <1>4 DEF Refuse, Dropped
    <2> QED BY <1>1, <1>2, <1>3, <2>1, <2>2 DEF Conservation
  <1>5. CASE /\ queue' = queue \cup {t}
             /\ push' = [push EXCEPT ![t] = "done"]
             /\ UNCHANGED refused
    <2>1. {u \in Traces : push'[u] = "done"} = {u \in Traces : push[u] = "done"} \cup {t}
      BY <1>5
    <2>2. Dropped' = Dropped
      BY <1>3, <1>5 DEF Dropped
    <2> QED BY <1>1, <1>2, <1>3, <1>5, <2>1, <2>2 DEF Conservation
  <1>6. CASE /\ \E x \in {"read", "checked"} : push' = [push EXCEPT ![t] = x]
             /\ UNCHANGED <<queue, refused>>
    <2>1. {u \in Traces : push'[u] = "done"} = {u \in Traces : push[u] = "done"}
      BY <1>2, <1>6
    <2>2. Dropped' = Dropped
      BY <1>3, <1>6 DEF Dropped
    <2> QED BY <1>1, <1>3, <1>6, <2>1, <2>2 DEF Conservation
  <1> QED BY <1>4, <1>5, <1>6 DEF Pusher, PushRead, PushCheck, PushSend

LEMMA WorkerConserves ==
    ASSUME TypeInv, Conservation,
           Worker \/ \E f \in Flushers : FlushCall(f) \/ FlushTake(f)
    PROVE  Conservation'
  <1> USE DEF TypeInv, TypeOK, pushVars, writerVars, agentVars, dropVars, flushVars, stopVars, workerVars
  <1>1. ASSUME NEW t \in Traces, Receive(t) PROVE Conservation'
    <2>1. /\ queue' = queue \ {t} /\ t \in queue
          /\ UNCHANGED <<push, refused, senders, delivered, lost>>
          /\ InFlight' = InFlight
      BY <1>1 DEF Receive, InFlight
    <2>2. CASE SampleOut(t) \/ AddUnencoded(t)
      <3>1. Dropped' = Dropped \cup {t} /\ payload' = payload
        BY <2>1, <2>2 DEF SampleOut, AddUnencoded, Dropped
      <3> QED BY <2>1, <3>1 DEF Conservation
    <2>3. CASE AddToPayload(t)
      <3>1. Dropped' = Dropped /\ payload' = payload \cup {t}
        BY <2>1, <2>3 DEF AddToPayload, Dropped
      <3> QED BY <2>1, <3>1 DEF Conservation
    <2> QED BY <1>1, <2>2, <2>3 DEF Receive
  <1>2. CASE Tick \/ WorkerStop \/ WorkerExit \/ \E f \in Flushers : FlushCall(f) \/ FlushTake(f)
    <2>1. UNCHANGED <<push, queue, refused, payload, senders, delivered, lost, sampledOut, unencoded>>
      BY <1>2 DEF Tick, WorkerStop, WorkerExit, FlushCall, FlushTake
    <2> QED BY <2>1 DEF Conservation, InFlight, Dropped
  <1>3. CASE WorkerFlush
    <2>1. /\ StartSend /\ payload' = {}
          /\ UNCHANGED <<push, queue, refused, delivered, lost, sampledOut, unencoded>>
      BY <1>3 DEF WorkerFlush, StartSend
    <2>2. Dropped' = Dropped
      BY <2>1 DEF Dropped
    <2> QED BY <2>1, <2>2, StartSendMoves DEF Conservation
  <1> QED BY <1>1, <1>2, <1>3 DEF Worker

LEMMA SenderConserves ==
    ASSUME TypeInv, Conservation, NEW p \in senders, Sender(p)
    PROVE  Conservation'
  <1> USE DEF pushVars, writerVars, agentVars, dropVars, flushVars, stopVars, workerVars
  <1>1. CASE SendRequest(p)
    <2> DEFINE h == IF global THEN droppedP0 ELSE {}
               q == [p EXCEPT !.state = "requested", !.header = h]
    <2>1. q.traces = p.traces
      BY DEF TypeInv, TypeOK, Senders
    <2>2. senders' = (senders \ {p}) \cup {q}
      BY <1>1 DEF SendRequest
    <2>3. InFlight' = InFlight /\ \A r, s \in senders' : r # s => r.traces \cap s.traces = {}
      <3> HIDE DEF q
      <3> QED BY <2>1, <2>2 DEF InFlight, Conservation
    <2>4. UNCHANGED <<push, queue, refused, payload, delivered, lost, sampledOut, unencoded>>
      BY <1>1 DEF SendRequest
    <2> QED BY <2>3, <2>4 DEF Conservation, Dropped
  <1>2. CASE SendOK(p)
    <2>1. /\ senders' = senders \ {p} /\ delivered' = delivered \cup p.traces
          /\ UNCHANGED <<push, queue, refused, payload, lost, sampledOut, unencoded>>
      BY <1>2 DEF SendOK
    <2>2. Dropped' = Dropped
      BY <2>1 DEF Dropped
    <2> QED BY <2>1, <2>2, EndSendMoves DEF Conservation
  <1>3. CASE SendFail(p)
    <2>1. /\ senders' = senders \ {p} /\ lost' = lost \cup p.traces
          /\ UNCHANGED <<push, queue, refused, payload, delivered, sampledOut, unencoded>>
      BY <1>3 DEF SendFail
    <2>2. Dropped' = Dropped
      BY <2>1 DEF Dropped
    <2> QED BY <2>1, <2>2, EndSendMoves DEF Conservation
  <1> QED BY <1>1, <1>2, <1>3 DEF Sender

LEMMA StopConserves ==
    ASSUME TypeInv, Conservation, StopSwap \/ Stopper
    PROVE  Conservation'
  <1> USE DEF pushVars, writerVars, agentVars, dropVars, flushVars, stopVars, workerVars
  <1>1. UNCHANGED <<push, queue, refused, delivered, lost, sampledOut, unencoded>>
    BY DEF StopSwap, Stopper, StopClose, StopJoin, StopFlush, StopReturn
  <1>2. Dropped' = Dropped
    BY <1>1 DEF Dropped
  <1>3. CASE UNCHANGED <<payload, senders>>
    BY <1>1, <1>2, <1>3 DEF Conservation, InFlight
  <1>4. CASE StartSend
    BY <1>1, <1>2, <1>4, StartSendMoves DEF Conservation, StartSend
  <1> QED BY <1>3, <1>4 DEF StopSwap, Stopper, StopClose, StopJoin, StopFlush, StopReturn

\* No trace is lost between two places, kept in two, or sent by two requests.
THEOREM TracesConserved == Spec => []Conservation
  <1>1. Init => Conservation
    BY DEF Init, Conservation, InFlight, Dropped
  <1>2. TypeInv /\ Conservation /\ [Next]_vars => Conservation'
    <2> SUFFICES ASSUME TypeInv, Conservation, [Next]_vars PROVE Conservation'
      OBVIOUS
    <2>1. CASE UNCHANGED vars
      BY <2>1 DEF vars, pushVars, writerVars, agentVars, dropVars, Conservation, InFlight, Dropped
    <2> QED BY <2>1, PusherConserves, WorkerConserves, SenderConserves, StopConserves DEF Next
  <1> QED BY <1>1, <1>2, TypeInvariance, PTL DEF Spec

-----------------------------------------------------------------------------
(* Stop and Flush. *)

LEMMA StopInvStep ==
    ASSUME TypeInv, Conservation, StopInv, Next
    PROVE  StopInv'
  <1> USE DEF StopInv, pushVars, writerVars, agentVars, dropVars, flushVars, stopVars, workerVars
  <1>1. ASSUME NEW t \in Traces, Pusher(t) PROVE StopInv'
    <2>1. /\ UNCHANGED <<stopper, worker, payload, senders, early, stopped>>
          /\ queue' \subseteq queue \cup {t} /\ push[t] # "done"
          /\ \A u \in Traces : push[u] = "done" => push'[u] = "done"
      BY <1>1 DEF Pusher, PushRead, PushCheck, PushSend, Refuse, TypeInv, TypeOK
    <2> QED BY <2>1 DEF TypeInv, TypeOK
  <1>2. CASE Worker
    <2>1. ASSUME NEW t \in Traces, Receive(t) PROVE StopInv'
      <3>1. worker # "exited" /\ queue' = queue \ {t}
            /\ UNCHANGED <<stopper, worker, senders, early, stopped, push>>
        BY <2>1 DEF Receive
      <3> QED BY <3>1 DEF TypeInv, WriterInv
    <2>2. CASE Tick
      BY <2>2 DEF Tick
    <2>3. CASE WorkerFlush
      BY <2>3 DEF WorkerFlush, StartSend, TypeInv, WriterInv
    <2>4. CASE WorkerStop \/ WorkerExit
      BY <2>4 DEF WorkerStop, WorkerExit
    <2> QED BY <1>2, <2>1, <2>2, <2>3, <2>4 DEF Worker
  <1>3. ASSUME NEW p \in senders, Sender(p) PROVE StopInv'
    <2>1. /\ UNCHANGED <<stopper, worker, payload, queue, early, stopped, push>>
          /\ senders # {}
      BY <1>3 DEF Sender, SendRequest, SendOK, SendFail
    <2> QED BY <2>1
  <1>4. ASSUME NEW f \in Flushers, FlushCall(f) \/ FlushTake(f) PROVE StopInv'
    BY <1>4 DEF FlushCall, FlushTake
  <1>5. CASE StopSwap
    BY <1>5 DEF StopSwap
  <1>6. CASE StopClose \/ StopJoin \/ StopReturn
    BY <1>6 DEF StopClose, StopJoin, StopReturn
  <1>7. CASE StopFlush
    BY <1>7 DEF StopFlush, StartSend
  <1> QED BY <1>1, <1>2, <1>3, <1>4, <1>5, <1>6, <1>7 DEF Next, Stopper

LEMMA StopInvariance == Spec => []StopInv
  <1>1. Init => StopInv
    BY DEF Init, StopInv
  <1>2. TypeInv /\ Conservation /\ StopInv /\ [Next]_vars => StopInv'
    <2>1. ASSUME StopInv, UNCHANGED vars PROVE StopInv'
      BY <2>1 DEF vars, pushVars, writerVars, stopVars, workerVars, StopInv
    <2> QED BY <2>1, StopInvStep
  <1> QED BY <1>1, <1>2, TypeInvariance, TracesConserved, PTL DEF Spec

\* When Stop returns nothing works on, and what was accepted before it was called
\* has been sent or accounted for: for any load, queue size and number of
\* connections.
THEOREM StopIsClean == Spec => []StopDelivers
  <1>1. TypeInv /\ StopInv =>
            (stopper = "returned" => worker = "exited" /\ payload = {} /\ senders = {})
    BY DEF TypeInv, WriterInv, StopInv
  <1>2. TypeInv /\ Conservation /\ StopInv => StopDelivers
    <2> SUFFICES ASSUME TypeInv, Conservation, StopInv, stopper = "returned"
                 PROVE  early \subseteq delivered \cup lost \cup Dropped
      BY <1>1 DEF StopDelivers
    <2>1. payload = {} /\ InFlight = {} /\ early \cap queue = {}
      BY DEF TypeInv, WriterInv, StopInv, InFlight
    <2>2. early \subseteq {t \in Traces : push[t] = "done"}
      BY DEF StopInv, TypeInv, TypeOK
    <2> QED BY <2>1, <2>2 DEF Conservation
  <1> QED BY <1>2, TypeInvariance, TracesConserved, StopInvariance, PTL

LEMMA FlushInvStep ==
    ASSUME TypeInv, Conservation, FlushInv, Next
    PROVE  FlushInv'
  <1> USE DEF FlushInv, TypeInv, TypeOK, pushVars, writerVars, agentVars, dropVars, flushVars, stopVars, workerVars
  <1>1. ASSUME NEW t \in Traces, Pusher(t) PROVE FlushInv'
    <2>1. /\ UNCHANGED <<payload, flusher, asked>>
          /\ queue' \subseteq queue \cup {t} /\ push[t] # "done"
          /\ \A u \in Traces : push[u] = "done" => push'[u] = "done"
      BY <1>1 DEF Pusher, PushRead, PushCheck, PushSend, Refuse
    <2> QED BY <2>1
  <1>2. ASSUME NEW t \in Traces, Receive(t) PROVE FlushInv'
    <2>1. /\ t \in queue /\ queue' = queue \ {t} /\ UNCHANGED <<flusher, asked, push>>
          /\ payload' \subseteq payload \cup {t}
      BY <1>2 DEF Receive, SampleOut, AddToPayload, AddUnencoded
    <2> QED BY <2>1
  <1>3. CASE Tick \/ WorkerStop \/ WorkerExit
    BY <1>3 DEF Tick, WorkerStop, WorkerExit
  <1>4. CASE WorkerFlush
    <2>1. payload' = {} /\ UNCHANGED <<queue, asked, push>>
      BY <1>4 DEF WorkerFlush, StartSend
    <2> QED BY <2>1
  <1>5. ASSUME NEW p \in senders, Sender(p) PROVE FlushInv'
    BY <1>5 DEF Sender, SendRequest, SendOK, SendFail
  <1>6. ASSUME NEW f \in Flushers, FlushCall(f) PROVE FlushInv'
    <2>1. /\ asked' = [asked EXCEPT ![f] = payload]
          /\ flusher' = [flusher EXCEPT ![f] = "blocked"]
          /\ UNCHANGED <<queue, payload, push>>
      BY <1>6 DEF FlushCall
    <2>2. \A t \in payload : push[t] = "done" /\ t \notin queue
      BY DEF Conservation
    <2> QED BY <2>1, <2>2
  <1>7. ASSUME NEW f \in Flushers, FlushTake(f) PROVE FlushInv'
    <2>1. /\ UNCHANGED <<queue, payload, push, asked>>
          /\ \E x \in {"returned", "waiting"} :
                 flusher' = [flusher EXCEPT ![f] = x] /\ (x = "returned" => payload = {})
      BY <1>7 DEF FlushTake
    <2> QED BY <2>1
  <1>8. CASE StopSwap \/ StopClose \/ StopJoin \/ StopReturn
    BY <1>8 DEF StopSwap, StopClose, StopJoin, StopReturn
  <1>9. CASE StopFlush
    <2>1. payload' \subseteq payload /\ UNCHANGED <<queue, push, flusher, asked>>
      BY <1>9 DEF StopFlush, StartSend
    <2> QED BY <2>1
  <1> QED BY <1>1, <1>2, <1>3, <1>4, <1>5, <1>6, <1>7, <1>8, <1>9 DEF Next, Worker, Stopper

\* A Flush that returned has handed over what was buffered when it was called.
THEOREM FlushIsEffective == Spec => []FlushHandsOver
  <1>1. Init => FlushInv
    BY DEF Init, FlushInv
  <1>2. TypeInv /\ Conservation /\ FlushInv /\ [Next]_vars => FlushInv'
    <2>1. ASSUME FlushInv, UNCHANGED vars PROVE FlushInv'
      BY <2>1 DEF vars, pushVars, writerVars, flushVars, FlushInv
    <2> QED BY <2>1, FlushInvStep
  <1>3. FlushInv => FlushHandsOver
    BY DEF FlushInv, FlushHandsOver
  <1> QED BY <1>1, <1>2, <1>3, TypeInvariance, TracesConserved, PTL DEF Spec

-----------------------------------------------------------------------------
(* The counter of dropped P0 traces. *)

\* A request that is about to be built carries no count yet.
LEMMA StartSendCounts ==
    ASSUME P0Accounted, StartSend
    PROVE  /\ InHeaders' = InHeaders
           /\ \A p, q \in senders' : p # q => p.header \cap q.header = {}
  <1> DEFINE r == [traces |-> payload, header |-> {}, state |-> "started"]
  <1>1. senders' = senders \cup {r} /\ r.header = {}
    BY DEF StartSend
  <1> HIDE DEF r
  <1> QED BY <1>1 DEF InHeaders, P0Accounted

\* A request that ends takes exactly its own header away.
LEMMA EndSendCounts ==
    ASSUME P0Accounted, NEW p \in senders, senders' = senders \ {p}
    PROVE  InHeaders' = InHeaders \ p.header /\ p.header \subseteq InHeaders
  BY DEF InHeaders, P0Accounted

LEMMA WorkerCounts ==
    ASSUME TypeInv, Conservation, P0Accounted, Worker
    PROVE  P0Accounted'
  <1> USE DEF pushVars, writerVars, agentVars, dropVars, flushVars, stopVars, workerVars
  <1>1. ASSUME NEW t \in Traces, Receive(t) PROVE P0Accounted'
    <2>1. /\ t \in queue /\ UNCHANGED <<senders, reportedP0, lost>>
          /\ InHeaders' = InHeaders
      BY <1>1 DEF Receive, InHeaders
    <2>2. t \notin sampledOut
      BY <2>1 DEF Conservation, Dropped
    <2>3. CASE SampleOut(t)
      BY <2>1, <2>2, <2>3 DEF SampleOut, P0Accounted
    <2>4. CASE AddToPayload(t) \/ AddUnencoded(t)
      BY <2>1, <2>4 DEF AddToPayload, AddUnencoded, P0Accounted
    <2> QED BY <1>1, <2>3, <2>4 DEF Receive
  <1>2. CASE Tick \/ WorkerStop \/ WorkerExit
    <2>1. UNCHANGED <<senders, droppedP0, reportedP0, sampledOut, lost>>
      BY <1>2 DEF Tick, WorkerStop, WorkerExit
    <2> QED BY <2>1 DEF P0Accounted, InHeaders
  <1>3. CASE WorkerFlush
    <2>1. StartSend /\ UNCHANGED <<droppedP0, reportedP0, sampledOut, lost>>
      BY <1>3 DEF WorkerFlush
    <2> QED BY <2>1, StartSendCounts DEF P0Accounted
  <1> QED BY <1>1, <1>2, <1>3 DEF Worker

LEMMA SenderCounts ==
    ASSUME TypeInv, P0Accounted, NEW p \in senders, Sender(p)
    PROVE  P0Accounted'
  <1> USE DEF pushVars, writerVars, agentVars, dropVars, flushVars, stopVars, workerVars
  <1>0. p.traces # {} /\ (p.state = "started" => p.header = {})
    BY DEF TypeInv, WriterInv
  <1>1. CASE SendRequest(p)
    <2> DEFINE h == IF global THEN droppedP0 ELSE {}
               q == [p EXCEPT !.state = "requested", !.header = h]
    <2>1. q.header = h
      BY DEF TypeInv, TypeOK, Senders
    <2>2. senders' = (senders \ {p}) \cup {q} /\ p.header = {}
      BY <1>0, <1>1 DEF SendRequest
    <2>3. /\ droppedP0' = IF global THEN {} ELSE droppedP0
          /\ UNCHANGED <<reportedP0, sampledOut, lost>>
      BY <1>1 DEF SendRequest
    <2> HIDE DEF q
    <2>4. InHeaders' = InHeaders \cup h
      BY <2>1, <2>2 DEF InHeaders
    <2>5. \A r \in senders : r.header \cap h = {}
      BY DEF P0Accounted, InHeaders
    <2>6. \A r, s \in senders' : r # s => r.header \cap s.header = {}
      BY <2>1, <2>2, <2>5 DEF P0Accounted
    <2> QED BY <2>3, <2>4, <2>6 DEF P0Accounted
  <1>2. CASE SendOK(p)
    <2>1. /\ senders' = senders \ {p} /\ reportedP0' = reportedP0 \cup p.header
          /\ UNCHANGED <<droppedP0, sampledOut, lost>>
      BY <1>2 DEF SendOK
    <2> QED BY <2>1, EndSendCounts DEF P0Accounted
  <1>3. CASE SendFail(p)
    <2>1. /\ senders' = senders \ {p} /\ lost' # {}
          /\ UNCHANGED <<droppedP0, reportedP0, sampledOut>>
      BY <1>0, <1>3 DEF SendFail
    <2> QED BY <2>1, EndSendCounts DEF P0Accounted
  <1> QED BY <1>1, <1>2, <1>3 DEF Sender

\* Pushing a trace, calling Flush and stopping do not touch the counts.
LEMMA OthersCount ==
    ASSUME P0Accounted,
           \/ \E t \in Traces : Pusher(t)
           \/ \E f \in Flushers : FlushCall(f) \/ FlushTake(f)
           \/ StopSwap \/ Stopper
    PROVE  P0Accounted'
  <1> USE DEF pushVars, writerVars, agentVars, dropVars, flushVars, stopVars, workerVars
  <1>1. UNCHANGED <<droppedP0, reportedP0, sampledOut, lost>>
    BY DEF Pusher, PushRead, PushCheck, PushSend, FlushCall, FlushTake, StopSwap, Stopper,
       StopClose, StopJoin, StopFlush, StopReturn
  <1>2. CASE UNCHANGED senders
    BY <1>1, <1>2 DEF P0Accounted, InHeaders
  <1>3. CASE StartSend
    BY <1>1, <1>3, StartSendCounts DEF P0Accounted
  <1> QED BY <1>2, <1>3 DEF Pusher, PushRead, PushCheck, PushSend, FlushCall, FlushTake,
             StopSwap, Stopper, StopClose, StopJoin, StopFlush, StopReturn

\* The agent is told of each dropped P0 trace at most once, and with no failed request of
\* all of them, up to the counter and the requests under way: whichever sends overlap and
\* whenever Stop takes the tracer away from transport.send.
THEOREM DropsAreAccounted == Spec => []P0Accounted
  <1>1. Init => P0Accounted
    BY DEF Init, P0Accounted, InHeaders
  <1>2. TypeInv /\ Conservation /\ P0Accounted /\ [Next]_vars => P0Accounted'
    <2> SUFFICES ASSUME TypeInv, Conservation, P0Accounted, [Next]_vars PROVE P0Accounted'
      OBVIOUS
    <2>1. CASE UNCHANGED vars
      BY <2>1 DEF vars, writerVars, agentVars, dropVars, P0Accounted, InHeaders
    <2> QED BY <2>1, WorkerCounts, SenderCounts, OthersCount DEF Next
  <1> QED BY <1>1, <1>2, TypeInvariance, TracesConserved, PTL DEF Spec

-----------------------------------------------------------------------------
(* The pipeline implements TraceDelivery. *)

st == [t \in Traces |-> Status(t)]

\* In a conserving state the status of a trace tells the place it is in.
LEMMA StatusOf ==
    ASSUME Conservation, NEW t \in Traces
    PROVE  /\ t \in queue => Status(t) = "queued"
           /\ t \in payload => Status(t) = "buffered"
           /\ t \in InFlight => Status(t) = "sending"
           /\ t \in delivered => Status(t) = "delivered"
           /\ t \in lost => Status(t) = "lost"
           /\ t \in Dropped => Status(t) = "dropped"
           /\ push[t] # "done" => Status(t) = "open"
           /\ Status(t) = "buffered" => t \in payload
  BY DEF Status, Conservation

\* The same one step later.
LEMMA StatusOfNext ==
    ASSUME Conservation', NEW t \in Traces
    PROVE  /\ t \in queue' => Status(t)' = "queued"
           /\ t \in payload' => Status(t)' = "buffered"
           /\ t \in InFlight' => Status(t)' = "sending"
           /\ t \in delivered' => Status(t)' = "delivered"
           /\ t \in lost' => Status(t)' = "lost"
           /\ t \in Dropped' => Status(t)' = "dropped"
           /\ push'[t] # "done" => Status(t)' = "open"
  BY DEF Status, Conservation

\* A trace whose membership in every place is unchanged keeps its status.
LEMMA StatusSame ==
    ASSUME NEW t \in Traces,
           t \in queue' <=> t \in queue, t \in payload' <=> t \in payload,
           t \in InFlight' <=> t \in InFlight, t \in delivered' <=> t \in delivered,
           t \in lost' <=> t \in lost, t \in Dropped' <=> t \in Dropped
    PROVE  Status(t)' = Status(t)
  BY DEF Status

\* From the statuses of single traces to the abstract step.
LEMMA MoveStep ==
    ASSUME NEW S \in SUBSET Traces, S # {}, NEW a, NEW b,
           \A t \in S : Status(t) = a /\ Status(t)' = b,
           \A t \in Traces \ S : Status(t)' = Status(t)
    PROVE  Delivery!Move(S, a, b)
  BY DEF Delivery!Move

LEMMA PusherImplements ==
    ASSUME TypeInv, Conservation, Conservation', NEW t \in Traces, Pusher(t)
    PROVE  Delivery!Next \/ st' = st
  <1> USE DEF TypeInv, TypeOK, writerVars, agentVars, dropVars, flushVars, stopVars, workerVars
  <1>1. InFlight' = InFlight /\ UNCHANGED <<payload, delivered, lost, sampledOut, unencoded>>
    BY DEF Pusher, PushRead, PushCheck, PushSend, InFlight
  <1>2. push[t] # "done"
    BY DEF Pusher, PushRead, PushCheck, PushSend
  <1>3. CASE Refuse(t)
    <2>1. queue' = queue /\ Dropped' = Dropped \cup {t}
      BY <1>1, <1>3 DEF Refuse, Dropped
    <2>2. \A u \in Traces \ {t} : Status(u)' = Status(u)
      BY <1>1, <2>1, StatusSame
    <2>3. Status(t) = "open" /\ Status(t)' = "dropped"
      BY <1>2, <2>1, StatusOf, StatusOfNext
    <2>4. Delivery!Move({t}, "open", "dropped")
      BY <2>2, <2>3, MoveStep
    <2> QED BY <2>4 DEF Delivery!Next, Delivery!Refuse
  <1>4. CASE queue' = queue \cup {t} /\ UNCHANGED refused
    <2>1. Dropped' = Dropped
      BY <1>1, <1>4 DEF Dropped
    <2>2. \A u \in Traces \ {t} : Status(u)' = Status(u)
      BY <1>1, <1>4, <2>1, StatusSame
    <2>3. Status(t) = "open" /\ Status(t)' = "queued"
      BY <1>2, <1>4, StatusOf, StatusOfNext
    <2>4. Delivery!Move({t}, "open", "queued")
      BY <2>2, <2>3, MoveStep
    <2> QED BY <2>4 DEF Delivery!Next, Delivery!Accept
  <1>5. CASE UNCHANGED <<queue, refused>>
    <2>1. Dropped' = Dropped
      BY <1>1, <1>5 DEF Dropped
    <2>2. \A u \in Traces : Status(u)' = Status(u)
      BY <1>1, <1>5, <2>1, StatusSame
    <2> QED BY <2>2 DEF st
  <1> QED BY <1>3, <1>4, <1>5 DEF Pusher, PushRead, PushCheck, PushSend

\* A flush, by the worker or by Stop, is the abstract Send.
LEMMA StartSendImplements ==
    ASSUME TypeInv, Conservation, Conservation', StartSend,
           UNCHANGED <<queue, refused, delivered, lost, sampledOut, unencoded>>
    PROVE  Delivery!Next
  <1>1. InFlight' = InFlight \cup payload /\ payload' = {} /\ payload # {} /\ Dropped' = Dropped
    BY StartSendMoves DEF StartSend, Dropped
  <1>2. payload = {t \in Traces : st[t] = "buffered"} /\ payload \in SUBSET Traces
    BY StatusOf DEF st, TypeInv, TypeOK
  <1>3. \A u \in Traces \ payload : Status(u)' = Status(u)
    BY <1>1, StatusSame
  <1>4. \A u \in payload : Status(u) = "buffered" /\ Status(u)' = "sending"
    BY <1>1, <1>2, StatusOf, StatusOfNext
  <1>5. Delivery!Move(payload, "buffered", "sending")
    BY <1>1, <1>2, <1>3, <1>4, MoveStep
  <1> QED BY <1>2, <1>5 DEF Delivery!Next, Delivery!Send, st

LEMMA WorkerImplements ==
    ASSUME TypeInv, Conservation, Conservation',
           Worker \/ \E f \in Flushers : FlushCall(f) \/ FlushTake(f)
    PROVE  Delivery!Next \/ st' = st
  <1> USE DEF TypeInv, TypeOK, pushVars, writerVars, agentVars, dropVars, flushVars, stopVars, workerVars
  <1>1. ASSUME NEW t \in Traces, Receive(t) PROVE Delivery!Next
    <2>1. /\ queue' = queue \ {t} /\ t \in queue
          /\ UNCHANGED <<refused, delivered, lost>> /\ InFlight' = InFlight
      BY <1>1 DEF Receive, InFlight
    <2>2. CASE SampleOut(t) \/ AddUnencoded(t)
      <3>1. Dropped' = Dropped \cup {t} /\ payload' = payload
        BY <2>1, <2>2 DEF SampleOut, AddUnencoded, Dropped
      <3>2. \A u \in Traces \ {t} : Status(u)' = Status(u)
        BY <2>1, <3>1, StatusSame
      <3>3. Status(t) = "queued" /\ Status(t)' = "dropped"
        BY <2>1, <3>1, StatusOf, StatusOfNext
      <3>4. Delivery!Move({t}, "queued", "dropped")
        BY <3>2, <3>3, MoveStep
      <3> QED BY <3>4 DEF Delivery!Next, Delivery!Drop
    <2>3. CASE AddToPayload(t)
      <3>1. Dropped' = Dropped /\ payload' = payload \cup {t}
        BY <2>1, <2>3 DEF AddToPayload, Dropped
      <3>2. \A u \in Traces \ {t} : Status(u)' = Status(u)
        BY <2>1, <3>1, StatusSame
      <3>3. Status(t) = "queued" /\ Status(t)' = "buffered"
        BY <2>1, <3>1, StatusOf, StatusOfNext
      <3>4. Delivery!Move({t}, "queued", "buffered")
        BY <3>2, <3>3, MoveStep
      <3> QED BY <3>4 DEF Delivery!Next, Delivery!Buffer
    <2> QED BY <1>1, <2>2, <2>3 DEF Receive
  <1>2. CASE Tick \/ WorkerStop \/ WorkerExit \/ \E f \in Flushers : FlushCall(f) \/ FlushTake(f)
    <2>1. UNCHANGED <<queue, refused, payload, senders, delivered, lost, sampledOut, unencoded>>
      BY <1>2 DEF Tick, WorkerStop, WorkerExit, FlushCall, FlushTake
    <2> QED BY <2>1 DEF st, Status, InFlight, Dropped
  <1>3. CASE WorkerFlush
    BY <1>3, StartSendImplements DEF WorkerFlush
  <1> QED BY <1>1, <1>2, <1>3 DEF Worker

LEMMA SenderImplements ==
    ASSUME TypeInv, Conservation, Conservation', NEW p \in senders, Sender(p)
    PROVE  Delivery!Next \/ st' = st
  <1> USE DEF pushVars, writerVars, agentVars, dropVars, flushVars, stopVars, workerVars
  <1>0. p.traces \in SUBSET Traces /\ p.traces # {}
    BY DEF TypeInv, TypeOK, WriterInv, Senders
  <1>1. CASE SendRequest(p)
    <2> DEFINE h == IF global THEN droppedP0 ELSE {}
               q == [p EXCEPT !.state = "requested", !.header = h]
    <2>1. q.traces = p.traces
      BY DEF TypeInv, TypeOK, Senders
    <2>2. senders' = (senders \ {p}) \cup {q}
      BY <1>1 DEF SendRequest
    <2>3. InFlight' = InFlight
      <3> HIDE DEF q
      <3> QED BY <2>1, <2>2 DEF InFlight
    <2>4. UNCHANGED <<queue, refused, payload, delivered, lost, sampledOut, unencoded>>
      BY <1>1 DEF SendRequest
    <2> QED BY <2>3, <2>4 DEF st, Status, Dropped
  <1>2. CASE SendOK(p)
    <2>1. /\ senders' = senders \ {p} /\ delivered' = delivered \cup p.traces
          /\ UNCHANGED <<queue, refused, payload, lost, sampledOut, unencoded>>
      BY <1>2 DEF SendOK
    <2>2. InFlight' = InFlight \ p.traces /\ p.traces \subseteq InFlight /\ Dropped' = Dropped
      BY <2>1, EndSendMoves DEF Dropped
    <2>3. \A u \in Traces \ p.traces : Status(u)' = Status(u)
      BY <2>1, <2>2, StatusSame
    <2>4. \A u \in p.traces : Status(u) = "sending" /\ Status(u)' = "delivered"
      BY <1>0, <2>1, <2>2, StatusOf, StatusOfNext
    <2>5. Delivery!Move(p.traces, "sending", "delivered")
      BY <1>0, <2>3, <2>4, MoveStep
    <2> QED BY <1>0, <2>5 DEF Delivery!Next, Delivery!Deliver
  <1>3. CASE SendFail(p)
    <2>1. /\ senders' = senders \ {p} /\ lost' = lost \cup p.traces
          /\ UNCHANGED <<queue, refused, payload, delivered, sampledOut, unencoded>>
      BY <1>3 DEF SendFail
    <2>2. InFlight' = InFlight \ p.traces /\ p.traces \subseteq InFlight /\ Dropped' = Dropped
      BY <2>1, EndSendMoves DEF Dropped
    <2>3. \A u \in Traces \ p.traces : Status(u)' = Status(u)
      BY <2>1, <2>2, StatusSame
    <2>4. \A u \in p.traces : Status(u) = "sending" /\ Status(u)' = "lost"
      BY <1>0, <2>1, <2>2, StatusOf, StatusOfNext
    <2>5. Delivery!Move(p.traces, "sending", "lost")
      BY <1>0, <2>3, <2>4, MoveStep
    <2> QED BY <1>0, <2>5 DEF Delivery!Next, Delivery!Lose
  <1> QED BY <1>1, <1>2, <1>3 DEF Sender

LEMMA StopImplements ==
    ASSUME TypeInv, Conservation, Conservation', StopSwap \/ Stopper
    PROVE  Delivery!Next \/ st' = st
  <1> USE DEF pushVars, writerVars, agentVars, dropVars, flushVars, stopVars, workerVars
  <1>1. UNCHANGED <<queue, refused, delivered, lost, sampledOut, unencoded>>
    BY DEF StopSwap, Stopper, StopClose, StopJoin, StopFlush, StopReturn
  <1>2. CASE UNCHANGED <<payload, senders>>
    BY <1>1, <1>2 DEF st, Status, InFlight, Dropped
  <1>3. CASE StartSend
    BY <1>1, <1>3, StartSendImplements
  <1> QED BY <1>2, <1>3 DEF StopSwap, Stopper, StopClose, StopJoin, StopFlush, StopReturn

\* The pipeline implements the abstract delivery of traces: each moves forward
\* only, ends in one final state, and is sent at most once.
THEOREM PipelineImplementsDelivery == Spec => ImplementsDelivery
  <1>1. Init => Delivery!Init
    <2> SUFFICES ASSUME Init PROVE \A t \in Traces : Status(t) = "open"
      BY DEF Delivery!Init
    <2> QED BY DEF Init, Status, InFlight, Dropped
  <1>2. TypeInv /\ Conservation /\ Conservation' /\ [Next]_vars => [Delivery!Next]_st
    <2> SUFFICES ASSUME TypeInv, Conservation, Conservation', [Next]_vars
                 PROVE  Delivery!Next \/ st' = st
      OBVIOUS
    <2>1. CASE UNCHANGED vars
      BY <2>1 DEF vars, pushVars, writerVars, agentVars, dropVars, st, Status, InFlight, Dropped
    <2> QED BY <2>1, PusherImplements, WorkerImplements, SenderImplements, StopImplements DEF Next
  <1> QED BY <1>1, <1>2, TypeInvariance, TracesConserved, PTL
          DEF Spec, ImplementsDelivery, Delivery!Spec, st

=============================================================================

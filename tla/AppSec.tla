------------------------------- MODULE AppSec -------------------------------
(***************************************************************************)
(* AppSec: its instances come and go with the tracer (internal/appsec),    *)
(* its listeners hear of operations (internal/appsec/dyngo) and run the    *)
(* WAF, whose handle is a C object that is counted by the readers of a     *)
(* RWMutex (internal/appsec/waf).                                          *)
(*                                                                         *)
(* Callers call tracer.Start and tracer.Stop from several goroutines.      *)
(* Ops are requests: HTTP handlers and gRPC handlers, the latter with      *)
(* messages that are received while the handler runs.  An operation has a  *)
(* register of listeners, and an event calls the listeners of its type     *)
(* with the register's lock held for reading.  The rate limiter is         *)
(* TokenTicker; here Allow answers anything.                               *)
(***************************************************************************)
EXTENDS Integers, FiniteSets

CONSTANTS
    Callers,        \* goroutines that call tracer.Start and tracer.Stop
    HTTPOps,        \* requests to HTTP handlers
    GRPCOps,        \* requests to gRPC handlers
    Receivers,      \* goroutines of a gRPC call that receive messages
    None,           \* nobody
    MaxEvents,      \* maxWAFEventsPerRequest
    MaxMessages,    \* bound: messages of a gRPC call
    MaxRequests,    \* bound: requests that are made
    MaxStarts       \* bound: calls of tracer.Start

ASSUME AppSecAssumption ==
    /\ HTTPOps \cap GRPCOps = {}
    /\ "finish" \notin Receivers
    /\ None \notin Callers
    /\ MaxEvents \in Nat \ {0} /\ {MaxMessages, MaxRequests, MaxStarts} \subseteq Nat

Ops       == HTTPOps \cup GRPCOps
Instances == 1..MaxStarts

\* The goroutines that emit events on an operation: the one that ends the handler, and
\* those that receive messages.
Emitters(op) == {"finish"} \cup (IF op \in GRPCOps THEN Receivers ELSE {})

VARIABLES
    tracer,         \* the global tracer: 0 is the no-op, else a number
    active,         \* activeAppSec: 0 or an instance
    mu,             \* the caller that holds the lock of the package
    caller,         \* where each caller is
    starts,         \* number of calls of Start
    overlap,        \* history: two callers were at work at once
    root,           \* <<kind, instance>>: the listeners on the root operation
    started,        \* instances with started set
    failed,         \* history: instances whose start returned an error
    limiter,        \* instances whose limiter ticks
    handle,         \* the WAF handle of an instance: none, open or closed
    waiting,        \* instances whose Close waits for the handle's lock
    using,          \* <<op, emitter, instance>>: who holds it for reading
    leaked,         \* instances with a reader that will never let go
    poll,           \* the loop of an instance's remote configuration client, "none": it has none
    told,           \* instances whose client's stop channel is closed
    at,             \* where each operation is
    reg,            \* the instances that listen on each operation
    todo,           \* those an emitter has still to call
    cur,            \* <<instance, step>> it is calling
    received,       \* messages received
    events,         \* nbEvents of the listener of an instance
    reported        \* security events added to an operation

lifeVars   == <<tracer, active, mu, caller, starts, overlap>>
instVars   == <<started, failed, limiter, handle, waiting>>
clientVars == <<poll, told>>
wafVars    == <<using, leaked>>
opVars     == <<at, reg, todo, cur, received, events, reported>>
vars == <<lifeVars, root, instVars, clientVars, wafVars, opVars>>

Idle == [at |-> "idle", inst |-> 0, then |-> "idle", kinds |-> {}]
Busy == {c \in Callers : caller[c].at # "idle"}

Init ==
    /\ tracer = 0 /\ active = 0 /\ mu = None /\ starts = 0 /\ overlap = FALSE
    /\ caller = [c \in Callers |-> Idle]
    /\ root = {} /\ started = {} /\ failed = {} /\ limiter = {} /\ waiting = {}
    /\ leaked = {} /\ told = {} /\ using = {}
    /\ handle = [i \in Instances |-> "none"]
    /\ poll = [i \in Instances |-> "off"]
    /\ at = [op \in Ops |-> "new"]
    /\ reg = [op \in Ops |-> {}]
    /\ todo = [op \in Ops |-> [g \in Emitters(op) |-> {}]]
    /\ cur = [op \in Ops |-> [g \in Emitters(op) |-> <<0, "none">>]]
    /\ received = [op \in GRPCOps |-> 0]
    /\ events = [op \in GRPCOps |-> [i \in Instances |-> 0]]
    /\ reported = [op \in Ops |-> 0]

-----------------------------------------------------------------------------
\* Starting and stopping.

Go(c, where) == caller' = [caller EXCEPT ![c].at = where]

\* A call enters: `inst` is what setActiveAppSec will make active.
Enter(c, where, then) ==
    /\ caller[c].at = "idle"
    /\ caller' = [caller EXCEPT ![c] = [Idle EXCEPT !.at = where, !.then = then]]
    /\ overlap' = (overlap \/ Busy # {})

\* tracer.Start up to appsec.Start: the new tracer replaces the old one, whose Stop ends
\* with appsec.Stop.  The atomic swap decides who stops which tracer.
StartTracer(c) ==
    /\ starts < MaxStarts
    /\ starts' = starts + 1
    /\ tracer' = starts'
    /\ IF tracer = 0 THEN Enter(c, "configure", "idle") ELSE Enter(c, "lock", "configure")
    /\ UNCHANGED <<active, mu, root, instVars, clientVars, wafVars, opVars>>

\* tracer.Stop.
StopTracer(c) ==
    /\ tracer # 0
    /\ tracer' = 0
    /\ Enter(c, "lock", "idle")
    /\ UNCHANGED <<active, mu, starts, root, instVars, clientVars, wafVars, opVars>>

\* appsec.Start gives up: DD_APPSEC_ENABLED is false or no boolean, or the rules cannot be read.
ConfigureOff(c) ==
    /\ caller[c].at = "configure"
    /\ caller' = [caller EXCEPT ![c] = Idle]
    /\ UNCHANGED <<tracer, active, mu, starts, overlap, root, instVars, clientVars, wafVars, opVars>>

\* The next instance; each is numbered when it is made.
Fresh(i) == /\ handle[i] = "none" /\ poll[i] = "off" /\ i \notin limiter
            /\ \A j \in 1..(i - 1) : handle[j] # "none" \/ poll[j] # "off" \/ j \in limiter

\* newAppSec may fail to make the remote configuration client.
Clients == {"on", "none"}

\* appsec.Start without DD_APPSEC_ENABLED: only the remote configuration client starts.
ConfigureRemote(c) ==
    /\ caller[c].at = "configure"
    /\ \E i \in Instances :
         /\ Fresh(i)
         /\ caller' = [caller EXCEPT ![c].at = "lock", ![c].inst = i]
         /\ \E client \in Clients : poll' = [poll EXCEPT ![i] = client]
    /\ UNCHANGED <<tracer, active, mu, starts, overlap, root, instVars, told, wafVars, opVars>>

\* appsec.start begins: the limiter.
ConfigureOn(c) ==
    /\ caller[c].at = "configure"
    /\ \E i \in Instances :
         /\ Fresh(i)
         /\ caller' = [caller EXCEPT ![c].at = "open", ![c].inst = i]
         /\ limiter' = limiter \cup {i}
    /\ UNCHANGED <<tracer, active, mu, starts, overlap, root, started, failed, handle, waiting,
                   clientVars, wafVars, opVars>>

\* registerWAF makes the handle and sorts the addresses of its rules by the kind of
\* operation that supplies them.
OpenWAF(c) ==
    /\ caller[c].at = "open"
    /\ handle' = [handle EXCEPT ![caller[c].inst] = "open"]
    /\ \E kinds \in SUBSET {"http", "grpc"} \ {{}} :
         caller' = [caller EXCEPT ![c].at = "register", ![c].kinds = kinds]
    /\ UNCHANGED <<tracer, active, mu, starts, overlap, root, started, failed, limiter, waiting,
                   clientVars, wafVars, opVars>>

\* There is no handle, or no address is supported and the handle is closed again: start
\* returns the error, and nobody stops the limiter.
OpenFails(c) ==
    /\ caller[c].at = "open"
    /\ handle' = [handle EXCEPT ![caller[c].inst] = "closed"]
    /\ failed' = failed \cup {caller[c].inst}
    /\ caller' = [caller EXCEPT ![c] = Idle]
    /\ UNCHANGED <<tracer, active, mu, starts, overlap, root, started, limiter, waiting,
                   clientVars, wafVars, opVars>>

\* dyngo.Register of the HTTP listener, then of the gRPC listener.
Register(c) ==
    /\ caller[c].at = "register" /\ caller[c].kinds # {}
    /\ LET k == IF "http" \in caller[c].kinds THEN "http" ELSE "grpc" IN
         /\ root' = root \cup {<<k, caller[c].inst>>}
         /\ caller' = [caller EXCEPT ![c].kinds = @ \ {k}]
    /\ UNCHANGED <<tracer, active, mu, starts, overlap, instVars, clientVars, wafVars, opVars>>

\* appsec.start returns, and the remote configuration client starts if there is one.
Started(c) ==
    /\ caller[c].at = "register" /\ caller[c].kinds = {}
    /\ started' = started \cup {caller[c].inst}
    /\ \E client \in Clients : poll' = [poll EXCEPT ![caller[c].inst] = client]
    /\ Go(c, "lock")
    /\ UNCHANGED <<tracer, active, mu, starts, overlap, root, failed, limiter, handle, waiting, told,
                   wafVars, opVars>>

\* setActiveAppSec takes the lock and stops the instance that is active, the client first.
SetActive(c) ==
    /\ caller[c].at = "lock" /\ mu = None
    /\ mu' = c
    /\ told' = told \cup ({active} \ {0})
    /\ started' = started \ {active}
    /\ Go(c, IF active \in started THEN "unregister" ELSE "swap")
    /\ UNCHANGED <<tracer, active, starts, overlap, root, failed, limiter, handle, waiting, poll,
                   wafVars, opVars>>

\* The function that registerWAF returned removes the listeners, one after the other.
Unregister(c) ==
    LET mine == {l \in root : l[2] = active} IN
    /\ caller[c].at = "unregister" /\ mine # {}
    /\ root' = root \ (IF <<"http", active>> \in mine THEN {<<"http", active>>} ELSE mine)
    /\ UNCHANGED <<lifeVars, instVars, clientVars, wafVars, opVars>>

\* Its deferred call closes the handle: a writer that waits keeps new readers out.
CloseWaits(c) ==
    /\ caller[c].at = "unregister" /\ {l \in root : l[2] = active} = {}
    /\ waiting' = waiting \cup {active}
    /\ Go(c, "close")
    /\ UNCHANGED <<tracer, active, mu, starts, overlap, root, started, failed, limiter, handle,
                   clientVars, wafVars, opVars>>

\* Bug: Close does not wait for the contexts.
MutCloseHandle(c) ==
    /\ caller[c].at = "close"
    /\ handle' = [handle EXCEPT ![active] = "closed"]
    /\ waiting' = waiting \ {active}
    /\ limiter' = limiter \ {active}
    /\ Go(c, "swap")
    /\ UNCHANGED <<tracer, active, mu, starts, overlap, root, started, failed, clientVars, wafVars, opVars>>

\* Handle.Close has the lock when no context and no leak holds it for reading.  Then the
\* limiter is stopped.
CloseHandle(c) ==
    /\ caller[c].at = "close"
    /\ ~\E u \in using : u[3] = active
    /\ active \notin leaked
    /\ handle' = [handle EXCEPT ![active] = "closed"]
    /\ waiting' = waiting \ {active}
    /\ limiter' = limiter \ {active}
    /\ Go(c, "swap")
    /\ UNCHANGED <<tracer, active, mu, starts, overlap, root, started, failed, clientVars, wafVars, opVars>>

\* Bug: Stop leaves the instance it stopped as the active one.
MutSwap(c) ==
    /\ caller[c].at = "swap"
    /\ active' = IF caller[c].inst = 0 THEN active ELSE caller[c].inst
    /\ mu' = None
    /\ caller' = [caller EXCEPT ![c] = [Idle EXCEPT !.at = caller[c].then]]
    /\ UNCHANGED <<tracer, starts, overlap, root, instVars, clientVars, wafVars, opVars>>

\* The end of setActiveAppSec.  Start goes on with appsec.Start.
Swap(c) ==
    /\ caller[c].at = "swap"
    /\ active' = caller[c].inst
    /\ mu' = None
    /\ caller' = [caller EXCEPT ![c] = [Idle EXCEPT !.at = caller[c].then]]
    /\ UNCHANGED <<tracer, starts, overlap, root, instVars, clientVars, wafVars, opVars>>

\* The loop of the client ends between two polls once its stop channel is closed.
PollStop(i) ==
    /\ poll[i] = "on" /\ i \in told
    /\ poll' = [poll EXCEPT ![i] = "done"]
    /\ UNCHANGED <<lifeVars, root, instVars, told, wafVars, opVars>>

-----------------------------------------------------------------------------
\* Requests.

Free(op, g) == todo[op][g] = {} /\ cur[op][g][2] = "none"

Move(op, from, to) == at[op] = from /\ at' = [at EXCEPT ![op] = to]

\* The wrapper of a handler asks appsec.Enabled(), which takes the lock for reading.
EnterHandler(op) ==
    /\ mu = None
    /\ Cardinality({o \in Ops : at[o] # "new"}) < MaxRequests
    /\ Move(op, "new", IF active \in started THEN "starting" ELSE "done")
    /\ UNCHANGED <<lifeVars, root, instVars, clientVars, wafVars, reg, todo, cur, received, events, reported>>

\* The start event reaches the listeners on the root operation.  The HTTP listener listens
\* to the end of the operation, the gRPC listener also to the messages.
StartOperation(op) ==
    /\ Move(op, "starting", "running")
    /\ reg' = [reg EXCEPT ![op] =
                 {l[2] : l \in {k \in root : k[1] = IF op \in HTTPOps THEN "http" ELSE "grpc"}}]
    /\ UNCHANGED <<lifeVars, root, instVars, clientVars, wafVars, todo, cur, received, events, reported>>

\* A message has been received: the end of the receive operation bubbles up to the handler's
\* operation.  Once that is disabled nobody listens.
Receive(op, r) ==
    /\ at[op] \in {"running", "finishing"}
    /\ Free(op, r) /\ received[op] < MaxMessages
    /\ received' = [received EXCEPT ![op] = @ + 1]
    /\ todo' = [todo EXCEPT ![op][r] = reg[op]]
    /\ UNCHANGED <<lifeVars, root, instVars, clientVars, wafVars, at, reg, cur, events, reported>>

\* The handler has returned, or panicked: the deferred Finish.
FinishHandler(op) ==
    /\ Move(op, "running", "finishing")
    /\ todo' = [todo EXCEPT ![op]["finish"] = reg[op]]
    /\ UNCHANGED <<lifeVars, root, instVars, clientVars, wafVars, reg, cur, received, events, reported>>

\* Bug: no limit on the events.
MutCallReceive(op, r) ==
    /\ cur[op][r][2] = "none"
    /\ \E i \in todo[op][r] :
         /\ todo' = [todo EXCEPT ![op][r] = @ \ {i}]
         /\ cur' = [cur EXCEPT ![op][r] = <<i, "lock">>]
    /\ UNCHANGED <<lifeVars, root, instVars, clientVars, wafVars, at, reg, received, events, reported>>

\* OnReceiveOperationFinish: it ignores the message at the limit.
CallReceive(op, r) ==
    /\ cur[op][r][2] = "none"
    /\ \E i \in todo[op][r] :
         /\ todo' = [todo EXCEPT ![op][r] = @ \ {i}]
         /\ cur' = IF events[op][i] = MaxEvents THEN cur ELSE [cur EXCEPT ![op][r] = <<i, "lock">>]
    /\ UNCHANGED <<lifeVars, root, instVars, clientVars, wafVars, at, reg, received, events, reported>>

\* OnHandlerOperationFinish of the HTTP listener.
CallHTTPFinish(op) ==
    /\ op \in HTTPOps /\ cur[op]["finish"][2] = "none"
    /\ \E i \in todo[op]["finish"] :
         /\ todo' = [todo EXCEPT ![op]["finish"] = @ \ {i}]
         /\ cur' = [cur EXCEPT ![op]["finish"] = <<i, "lock">>]
    /\ UNCHANGED <<lifeVars, root, instVars, clientVars, wafVars, at, reg, received, events, reported>>

\* OnHandlerOperationFinish of the gRPC listener adds what it has, if the limiter allows it.
CallGRPCFinish(op) ==
    /\ op \in GRPCOps
    /\ \E i \in todo[op]["finish"], allow \in BOOLEAN :
         /\ todo' = [todo EXCEPT ![op]["finish"] = @ \ {i}]
         /\ reported' = [reported EXCEPT ![op] = @ + IF allow THEN events[op][i] ELSE 0]
    /\ UNCHANGED <<lifeVars, root, instVars, clientVars, wafVars, at, reg, cur, received, events>>

\* NewContext with the handle locked for reading; a closed handle is given up.
NewContext(op, g) ==
    LET i == cur[op][g][1] IN
    /\ cur[op][g][2] = "lock" /\ i \notin waiting
    /\ IF handle[i] = "open"
       THEN /\ using' = using \cup {<<op, g, i>>}
            /\ cur' = [cur EXCEPT ![op][g] = <<i, "run">>]
       ELSE UNCHANGED using /\ cur' = [cur EXCEPT ![op][g] = <<0, "none">>]
    /\ UNCHANGED <<lifeVars, root, instVars, clientVars, leaked, at, reg, todo, received, events, reported>>

\* The library gives no context: NewContext returns nil and keeps the lock.
NoContext(op, g) ==
    LET i == cur[op][g][1] IN
    /\ cur[op][g][2] = "lock" /\ i \notin waiting /\ handle[i] = "open"
    /\ leaked' = leaked \cup {i}
    /\ cur' = [cur EXCEPT ![op][g] = <<0, "none">>]
    /\ UNCHANGED <<lifeVars, root, instVars, clientVars, using, at, reg, todo, received, events, reported>>

\* Bug: the context is not closed when nothing matched.
MutRunWAF(op, g) ==
    LET i == cur[op][g][1] IN
    /\ cur[op][g][2] = "run"
    /\ cur' = [cur EXCEPT ![op][g] = <<0, "none">>]
    /\ UNCHANGED <<lifeVars, root, instVars, clientVars, wafVars, at, reg, todo, received, events, reported>>

\* The WAF runs: no match, an error or a timeout without one, or a match, which a gRPC
\* listener counts and an HTTP listener adds if the limiter allows it.  Context.Close.
RunWAF(op, g) ==
    LET i == cur[op][g][1] IN
    /\ cur[op][g][2] = "run"
    /\ using' = using \ {<<op, g, i>>}
    /\ cur' = [cur EXCEPT ![op][g] = <<0, "none">>]
    /\ \/ UNCHANGED <<events, reported>>
       \/ /\ op \in GRPCOps
          /\ events' = [events EXCEPT ![op][i] = @ + 1]
          /\ UNCHANGED reported
       \/ /\ op \in HTTPOps
          /\ reported' = [reported EXCEPT ![op] = @ + 1]
          /\ UNCHANGED events
    /\ UNCHANGED <<lifeVars, root, instVars, clientVars, leaked, at, reg, todo, received>>

\* The end of FinishOperation: the operation is disabled, and clear waits for the lock of
\* the register, which every event holds while its listeners run.
Disable(op) ==
    /\ \A g \in Emitters(op) : Free(op, g)
    /\ Move(op, "finishing", "done")
    /\ reg' = [reg EXCEPT ![op] = {}]
    /\ UNCHANGED <<lifeVars, root, instVars, clientVars, wafVars, todo, cur, received, events, reported>>

-----------------------------------------------------------------------------
\* What goes on by itself once a call of Start or Stop, a message or the end of a handler
\* has begun it.
Work ==
    \/ \E c \in Callers : \/ ConfigureOff(c) \/ ConfigureRemote(c) \/ ConfigureOn(c) \/ OpenWAF(c)
                          \/ OpenFails(c) \/ Register(c) \/ Started(c) \/ SetActive(c)
                          \/ Unregister(c) \/ CloseWaits(c) \/ CloseHandle(c) \/ Swap(c)
    \/ \E i \in Instances : PollStop(i)
    \/ \E op \in Ops : \/ StartOperation(op) \/ CallHTTPFinish(op) \/ CallGRPCFinish(op) \/ Disable(op)
                       \/ \E g \in Emitters(op) : NewContext(op, g) \/ NoContext(op, g) \/ RunWAF(op, g)
    \/ \E op \in GRPCOps, r \in Receivers : CallReceive(op, r)

Next ==
    \/ Work
    \/ \E c \in Callers : StartTracer(c) \/ StopTracer(c)
    \/ \E op \in Ops : EnterHandler(op) \/ FinishHandler(op)
    \/ \E op \in GRPCOps, r \in Receivers : Receive(op, r)

Spec == Init /\ [][Next]_vars

-----------------------------------------------------------------------------
(* A context of the WAF is only used while the handle it was made from is  *)
(* open: Stop, which may come in the middle of any request, frees the C    *)
(* memory only after the last context is closed, and no listener that is   *)
(* still registered on a running operation gets a context afterwards.      *)
NoUseAfterRelease == \A u \in using : handle[u[3]] = "open"

(* What an instance holds belongs to someone: an open handle, listeners on *)
(* the root operation, a ticking limiter or an untold polling loop is that *)
(* of the active instance, or of one a caller is still making or stopping. *)
(* The limiter of a start that failed is the exception.  And when calls of *)
(* Start and Stop never overlapped, a stopped tracer leaves nothing active.*)
NoOrphans ==
    LET held(i) == i = active \/ \E c \in Callers : caller[c].inst = i IN
    /\ \A i \in Instances :
         \/ held(i)
         \/ /\ handle[i] # "open" /\ i \notin started
            /\ \A l \in root : l[2] # i
            /\ i \in limiter => i \in failed
            /\ poll[i] = "on" => i \in told
    /\ ~overlap /\ Busy = {} /\ tracer = 0 => active = 0

(* A gRPC call collects and reports at most the limit of events for each   *)
(* instance that listens to it.  This takes one receiving goroutine, which *)
(* is all that gRPC allows: the listener tests for equality with the limit *)
(* and counts later, so that two could jump over it.                       *)
EventsBounded ==
    \A op \in GRPCOps :
        /\ \A i \in Instances : events[op][i] =< MaxEvents
        /\ reported[op] =< MaxEvents * Cardinality({i \in Instances : events[op][i] > 0})

(* Nobody waits for ever: when no goroutine can take another step of its  *)
(* own, every Start and Stop has returned, every client that was told to   *)
(* stop has ended, and every request that finished is let go.  Each step   *)
(* is one of finitely many, so under the scheduler they all come to an     *)
(* end.  The exception is a context that could not be made: NewContext     *)
(* then keeps the lock of the handle, Stop waits for it with the package's *)
(* lock, and with it every request that asks whether AppSec is enabled.    *)
NobodyStuck ==
    ~ENABLED Work =>
        \/ leaked # {}
        \/ /\ Busy = {} /\ mu = None
           /\ \A i \in told : poll[i] # "on"
           /\ \A op \in Ops : at[op] \notin {"starting", "finishing"}

-----------------------------------------------------------------------------
(***************************************************************************)
(* The inductive invariants behind the properties above (AppSec_proofs).   *)
(***************************************************************************)

Wheres == {"idle", "configure", "open", "register", "lock", "unregister", "close", "swap"}
Kinds  == {"http", "grpc"}

CallerStates ==
    [at : Wheres, inst : 0..MaxStarts, then : {"idle", "configure"}, kinds : SUBSET Kinds]

LifeTypeOK ==
    /\ tracer \in Nat /\ active \in 0..MaxStarts /\ mu \in Callers \cup {None}
    /\ starts \in Nat /\ overlap \in BOOLEAN
    /\ caller \in [Callers -> CallerStates]
    /\ root \subseteq Kinds \X Instances
    /\ started \subseteq Instances /\ failed \subseteq Instances /\ limiter \subseteq Instances
    /\ waiting \subseteq Instances /\ told \subseteq Instances
    /\ handle \in [Instances -> {"none", "open", "closed"}]
    /\ poll \in [Instances -> {"off", "none", "on", "done"}]

OpTypeOK ==
    /\ leaked \subseteq Instances /\ \A u \in using : u[3] \in Instances
    /\ at \in [Ops -> {"new", "starting", "running", "finishing", "done"}]
    /\ reg \in [Ops -> SUBSET Instances]
    /\ DOMAIN todo = Ops /\ \A op \in Ops : todo[op] \in [Emitters(op) -> SUBSET Instances]
    /\ DOMAIN cur = Ops /\ \A op \in Ops :
         cur[op] \in [Emitters(op) -> {<<0, "none">>} \cup (Instances \X {"lock", "run"})]
    /\ received \in [GRPCOps -> Nat]
    /\ events \in [GRPCOps -> [Instances -> Nat]]
    /\ reported \in [Ops -> Nat]

TypeOK == LifeTypeOK /\ OpTypeOK

Listening(i) == \E l \in root : l[2] = i
Used(i)      == handle[i] # "none" \/ poll[i] # "off" \/ i \in limiter
Held(i)      == i = active \/ \E c \in Callers : caller[c].inst = i
Making(i)    == \E c \in Callers : caller[c].at \in {"open", "register"} /\ caller[c].inst = i
Stopping(i)  == i = active /\ \E c \in Callers : caller[c].at \in {"unregister", "close"}
Clean(i)     == handle[i] # "open" /\ i \notin started /\ ~Listening(i) /\ (i \in limiter => i \in failed)

\* Where a caller is says what it has got: the lock, an instance of its own that is
\* neither active nor another caller's, and how far that one, or the active one that it
\* stops, has come.
CallerInv ==
    /\ active # 0 => Used(active)
    /\ \A c \in Callers :
         LET where == caller[c].at
             i     == caller[c].inst
         IN  /\ mu = c <=> where \in {"unregister", "close", "swap"}
             /\ mu = c => active \notin started /\ (active # 0 => active \in told)
             /\ where \in {"unregister", "close"} => active # 0
             /\ where = "close" => ~Listening(active)
             /\ where \in {"idle", "configure"} => i = 0 /\ caller[c].then = "idle"
             /\ where \in {"open", "register"} => i # 0
             /\ i # 0 => i # active /\ Used(i) /\ \A d \in Callers : caller[d].inst = i => d = c
             /\ where = "open" => handle[i] = "none" /\ poll[i] = "off" /\ i \notin started /\ ~Listening(i)
             /\ where = "register" => handle[i] = "open"

InstanceInv ==
    \A i \in Instances :
        /\ Clean(i) \/ i \in started \/ Making(i) \/ Stopping(i)
        /\ i \in started => handle[i] = "open" /\ Held(i)
        /\ poll[i] = "on" => i \in told \/ Held(i)

OverlapInv ==
    ~overlap =>
        /\ \A c, d \in Busy : c = d
        /\ tracer = 0 =>
             /\ Busy = {} => active = 0
             /\ \A c \in Callers : /\ caller[c].inst = 0 /\ caller[c].then = "idle"
                                   /\ caller[c].at \notin {"configure", "open", "register"}

\* A listener that counts an event is below the limit, and an instance has reported to an
\* operation at most once, when its turn in the finish event had come.
Counted(op) == {i \in Instances \ todo[op]["finish"] : events[op][i] > 0}

EventsOf(op) ==
    /\ \A i \in Instances : events[op][i] =< MaxEvents
    /\ \A g \in Emitters(op) :
         cur[op][g][2] # "none" => g # "finish" /\ events[op][cur[op][g][1]] < MaxEvents
    /\ at[op] \in {"new", "starting", "running"} => reported[op] = 0 /\ todo[op]["finish"] = {}
    /\ reported[op] =< MaxEvents * Cardinality(Counted(op))

EventInv == \A op \in GRPCOps : EventsOf(op)
=============================================================================

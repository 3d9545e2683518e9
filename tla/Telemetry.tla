------------------------------ MODULE Telemetry ------------------------------
(***************************************************************************)
(* The telemetry client (internal/telemetry/client.go): Start and Stop,    *)
(* which may alternate, the metrics, the two timers whose functions run in *)
(* goroutines of their own and may come late, and the goroutines that post *)
(* the messages of a flush.                                                *)
(*                                                                         *)
(* c.mu guards everything, so an operation is one step; the heartbeat      *)
(* holds c.mu while its request is on its way and is two.  c.requests is   *)
(* filled and flushed inside one critical section, and is no variable.     *)
(***************************************************************************)
EXTENDS Integers, Sequences, FiniteSets, SequencesExt

CONSTANTS
    Keys,           \* metricKey of the metrics in use
    Values,         \* values given to Gauge and Count
    Nil,            \* an absent metric, no request
    MaxStarts,      \* bound: calls of Start that have an effect
    MaxUpdates,     \* bound: calls of Gauge and Count that have an effect
    MaxBeats        \* bound: heartbeats

ASSUME ValueAssumption == IsFiniteSet(Keys) /\ Values \subseteq Nat
ASSUME BoundAssumption == MaxStarts \in Nat /\ MaxUpdates \in Nat /\ MaxBeats \in Nat

VARIABLES
    started,        \* c.started
    seqID,          \* c.seqID
    metrics,        \* c.metrics: kind and value, or Nil
    newMetrics,     \* c.newMetrics
    flushT, heartbeatT,     \* whether the timers are armed
    flushes, beats,         \* calls of the timer functions that wait for c.mu
    beating,        \* the heartbeat being posted under c.mu, or Nil
    posting,        \* what the goroutines of flush have yet to post
    posted,         \* messages whose request was made; a failure is only logged
    run,            \* history: how often Start had an effect
    updates,        \* history: updates of metrics
    beaten          \* history: heartbeats

timerVars == <<flushT, heartbeatT, flushes, beats>>
postVars  == <<beating, posting, posted>>
countVars == <<run, updates, beaten>>
vars == <<started, seqID, metrics, newMetrics, timerVars, postVars, countVars>>

Kinds == {"gauge", "count"}
NoMetrics == [k \in Keys |-> Nil]

\* A metric as the client keeps and reports it.  No value outgrows all updates.
Metric == [kind : Kinds, value : Nat]

Types == {"app-started", "app-closing", "app-heartbeat", "generate-metrics"}

\* run is a history field: in which run of the client the message was made.
Request == [type : Types, seq : Nat, run : Nat, metrics : [Keys -> Metric \cup {Nil}]]

ASSUME NilAssumption == Nil \notin Request

Queued == UNION {ToSet(p) : p \in posting}
Made == posted \cup Queued \cup (IF beating = Nil THEN {} ELSE {beating})

TypeOK ==
    /\ started \in BOOLEAN /\ newMetrics \in BOOLEAN
    /\ seqID \in Nat
    /\ metrics \in [Keys -> Metric \cup {Nil}]
    /\ flushT \in BOOLEAN /\ heartbeatT \in BOOLEAN
    /\ flushes \in 0 .. MaxStarts /\ beats \in 0 .. MaxStarts
    /\ beating \in Request \cup {Nil} /\ posted \subseteq Request
    /\ posting \subseteq Seq(Request) \ {<<>>}
    /\ run \in 0 .. MaxStarts /\ updates \in 0 .. MaxUpdates /\ beaten \in 0 .. MaxBeats

Init ==
    /\ started = FALSE /\ seqID = 0 /\ metrics = NoMetrics /\ newMetrics = FALSE
    /\ flushT = FALSE /\ heartbeatT = FALSE /\ flushes = 0 /\ beats = 0
    /\ beating = Nil /\ posting = {} /\ posted = {}
    /\ run = 0 /\ updates = 0 /\ beaten = 0

\* Nobody holds c.mu across steps but the heartbeat.
Unlocked == beating = Nil

-----------------------------------------------------------------------------
newRequest(type, seq, mets) == [type |-> type, seq |-> seq, run |-> run', metrics |-> mets]

\* flush with the scheduled requests, when seq is the last number given and the
\* metrics are mets: new metrics get a request of their own, put first.
flush(pending, seq, mets) ==
    LET subs == (IF newMetrics THEN <<newRequest("generate-metrics", seq + 1, mets)>> ELSE <<>>)
                    \o pending
    IN  /\ seqID' = IF newMetrics THEN seq + 1 ELSE seq
        /\ posting' = IF subs = <<>> THEN posting ELSE posting \cup {subs}
        /\ newMetrics' = FALSE

Start ==
    /\ Unlocked /\ ~started /\ run < MaxStarts
    /\ started' = TRUE /\ run' = run + 1
    /\ metrics' = NoMetrics
    /\ flush(<<newRequest("app-started", seqID + 1, NoMetrics)>>, seqID + 1, NoMetrics)
    /\ flushT' = TRUE /\ heartbeatT' = TRUE
    /\ UNCHANGED <<flushes, beats, beating, posted, updates, beaten>>

\* Mutant: Stop does not flush.
MutStop ==
    /\ Unlocked /\ started
    /\ started' = FALSE
    /\ flushT' = FALSE /\ heartbeatT' = FALSE
    /\ run' = run
    /\ seqID' = seqID + 1
    /\ posting' = posting \cup {<<newRequest("app-closing", seqID + 1, NoMetrics)>>}
    /\ UNCHANGED <<newMetrics, metrics, flushes, beats, beating, posted, updates, beaten>>

\* A timer function that has begun is not stopped.
Stop ==
    /\ Unlocked /\ started
    /\ started' = FALSE
    /\ flushT' = FALSE /\ heartbeatT' = FALSE
    /\ run' = run
    /\ flush(<<newRequest("app-closing", seqID + 1, NoMetrics)>>, seqID + 1, metrics)
    /\ UNCHANGED <<metrics, flushes, beats, beating, posted, updates, beaten>>

\* The kind of a metric is that of its first update.
Update(k, kind, value) ==
    /\ Unlocked /\ started /\ updates < MaxUpdates
    /\ metrics' = [metrics EXCEPT ![k] =
           [kind |-> IF @ = Nil THEN kind ELSE @.kind, value |-> value]]
    /\ newMetrics' = TRUE /\ updates' = updates + 1
    /\ UNCHANGED <<started, seqID, timerVars, postVars, run, beaten>>

Gauge(k, v) == Update(k, "gauge", v)

Count(k, v) == Update(k, "count", v + IF metrics[k] = Nil THEN 0 ELSE metrics[k].value)

-----------------------------------------------------------------------------
(* The timers. *)

\* A timer's time is over: its function starts in a goroutine.
FlushFire ==
    /\ flushT
    /\ flushT' = FALSE /\ flushes' = flushes + 1
    /\ UNCHANGED <<started, seqID, metrics, newMetrics, heartbeatT, beats, postVars, countVars>>

HeartbeatFire ==
    /\ heartbeatT /\ beaten < MaxBeats
    /\ heartbeatT' = FALSE /\ beats' = beats + 1
    /\ UNCHANGED <<started, seqID, metrics, newMetrics, flushT, flushes, postVars, countVars>>

\* Mutant: the timer is set only after a flush that had something to send.
MutbackgroundFlush ==
    /\ flushes > 0 /\ Unlocked
    /\ flushes' = flushes - 1
    /\ run' = run
    /\ IF started
       THEN flush(<<>>, seqID, metrics) /\ flushT' = newMetrics
       ELSE UNCHANGED <<seqID, newMetrics, posting, flushT>>
    /\ UNCHANGED <<started, metrics, heartbeatT, beats, beating, posted, updates, beaten>>

backgroundFlush ==
    /\ flushes > 0 /\ Unlocked
    /\ flushes' = flushes - 1
    /\ run' = run
    /\ IF started
       THEN flush(<<>>, seqID, metrics) /\ flushT' = TRUE
       ELSE UNCHANGED <<seqID, newMetrics, posting, flushT>>
    /\ UNCHANGED <<started, metrics, heartbeatT, beats, beating, posted, updates, beaten>>

\* Mutant: the heartbeat does not ask whether the client was stopped meanwhile.
MutbackgroundHeartbeat ==
    /\ beats > 0 /\ Unlocked /\ beaten < MaxBeats
    /\ beats' = beats - 1
    /\ run' = run
    /\ seqID' = seqID + 1 /\ beaten' = beaten + 1
    /\ beating' = newRequest("app-heartbeat", seqID + 1, NoMetrics)
    /\ UNCHANGED <<started, metrics, newMetrics, flushT, heartbeatT, flushes, posting, posted,
                   updates>>

\* The heartbeat is posted while c.mu is held ...
backgroundHeartbeat ==
    /\ beats > 0 /\ Unlocked
    /\ beats' = beats - 1
    /\ run' = run
    /\ IF started
       THEN /\ beaten < MaxBeats
            /\ seqID' = seqID + 1 /\ beaten' = beaten + 1
            /\ beating' = newRequest("app-heartbeat", seqID + 1, NoMetrics)
       ELSE UNCHANGED <<seqID, beaten, beating>>
    /\ UNCHANGED <<started, metrics, newMetrics, flushT, heartbeatT, flushes, posting, posted,
                   updates>>

\* A request has an answer, good or bad, or its timeout.
submit(r) == posted' = posted \cup {r}

\* ... and the timer is set when the answer is there.
HeartbeatDone ==
    /\ beating # Nil
    /\ submit(beating)
    /\ beating' = Nil /\ heartbeatT' = TRUE
    /\ UNCHANGED <<started, seqID, metrics, newMetrics, flushT, flushes, beats, posting, countVars>>

\* A goroutine of flush posts its messages in turn, whatever becomes of them.
Post(p) ==
    /\ p \in posting
    /\ submit(Head(p))
    /\ posting' = (posting \ {p}) \cup (IF Len(p) = 1 THEN {} ELSE {Tail(p)})
    /\ UNCHANGED <<started, seqID, metrics, newMetrics, timerVars, beating, countVars>>

-----------------------------------------------------------------------------
Timers == FlushFire \/ HeartbeatFire
Posts == HeartbeatDone \/ \E p \in posting : Post(p)

Next == \/ Start \/ Stop
        \/ \E k \in Keys, v \in Values : Gauge(k, v) \/ Count(k, v)
        \/ Timers \/ backgroundFlush \/ backgroundHeartbeat \/ Posts

Spec == Init /\ [][Next]_vars

\* Time passes, goroutines run, requests end (http.Client.Timeout); a goroutine
\* that waits for a mutex gets it in the end (Go's mutexes do not starve).
Fairness == /\ WF_vars(FlushFire) /\ WF_vars(HeartbeatFire)
            /\ SF_vars(backgroundFlush) /\ SF_vars(backgroundHeartbeat)
            /\ WF_vars(HeartbeatDone) /\ WF_vars(\E p \in posting : Post(p))

FairSpec == Spec /\ Fairness

-----------------------------------------------------------------------------
(***************************************************************************)
(* Properties.                                                             *)
(***************************************************************************)

PostedOnce ==
    /\ beating \notin posted
    /\ \A p \in posting : /\ ToSet(p) \cap (posted \cup {beating}) = {} /\ IsInjective(p)
                          /\ \A q \in posting \ {p} : ToSet(p) \cap ToSet(q) = {}

\* Every number was given to one message, which is in one place: no flush loses a
\* request, posts it twice or gives two the same number, whichever goroutines
\* flush and post at the same time (client.go:310-350, 375).
MadeOnce ==
    /\ {m.seq : m \in Made} = 1 .. seqID
    /\ Cardinality(Made) = seqID
    /\ PostedOnce

Bracketed(M) ==
    \A m, n \in M :
        /\ (m.type = "app-started" /\ m.run <= n.run /\ m # n) => m.seq < n.seq
        /\ (m.run < n.run) => m.seq < n.seq
        /\ (m.type = "app-closing" /\ n.type = "app-heartbeat" /\ m.run = n.run) => n.seq < m.seq

\* In the order of their numbers, which is how the back end orders them
\* (client.go:121), the messages of a run begin with app-started, after all those
\* of earlier runs, and no heartbeat comes after app-closing: timer functions that
\* come too late, even in the next run, do no harm (client.go:449, 462).  Every
\* number belongs to one message, which is in one place.
RunsBracketed == TypeOK /\ MadeOnce /\ Bracketed(Made)

Latest(M, mets) ==
    \E m \in M : /\ m.type = "generate-metrics" /\ m.metrics = mets
                 /\ \A n \in M : n.type = "generate-metrics" => n.seq <= m.seq

\* What is not flagged as new has been reported: the latest metrics message holds
\* the current values; of a stopped client nothing is left to report
\* (client.go:218-220, 312).
MetricsReported ==
    /\ ~started => ~newMetrics
    /\ (~newMetrics /\ metrics # NoMetrics) => Latest(Made, metrics)

\* New metrics are sent in the end (client.go:76, 307).
MetricsFlushed == newMetrics ~> ~newMetrics

-----------------------------------------------------------------------------
(***************************************************************************)
(* The inductive invariants behind the properties above                    *)
(* (Telemetry_proofs).                                                     *)
(***************************************************************************)

One(b) == IF b THEN 1 ELSE 0

\* A run begins one call of each timer function, which begins the next one; a stopped
\* client has no timer and no heartbeat on its way.
TimerInv ==
    /\ flushes + One(flushT) <= run
    /\ beats + One(heartbeatT) + One(beating # Nil) <= run
    /\ ~started => ~flushT /\ ~heartbeatT /\ Unlocked

\* M holds s messages, numbered from 1 to s, of runs up to r.
Log(M, s, r) ==
    /\ M \subseteq Request /\ IsFiniteSet(M) /\ Cardinality(M) = s
    /\ {m.seq : m \in M} = 1 .. s
    /\ \A m, n \in M : m.seq = n.seq => m = n
    /\ \A m \in M : m.run <= r
    /\ Bracketed(M)

\* The messages made so far; a run that has an app-closing is over.
LogInv ==
    /\ Log(Made, seqID, run)
    /\ \A m \in Made : (m.type = "app-closing" /\ m.run = run) => ~started

=============================================================================

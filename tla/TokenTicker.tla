----------------------------- MODULE TokenTicker -----------------------------
(***************************************************************************)
(* The rate limiter of AppSec (internal/appsec/limiter.go): a token bucket *)
(* that a goroutine refills at every tick of a time.Ticker, and that any   *)
(* number of goroutines take tokens from.  There is no lock.  Every atomic *)
(* load and every compare-and-swap of t.tokens is a step of its own.       *)
(*                                                                         *)
(* The limiter is started and stopped at most once: appsec.start makes a   *)
(* new one each time, and appsec.stop is guarded by a.started.             *)
(***************************************************************************)
EXTENDS Integers

CONSTANTS
    Callers,        \* goroutines that call Allow
    MaxTokens,      \* t.maxTokens, also the number of tokens at the start
    NsPerToken,     \* one second divided by maxTokens, in units of the clock
    TickPeriod,     \* period of the ticker, 500us in the code
    None,           \* an empty channel
    MaxTime         \* bound: how far the clock goes

\* The limiter divides by its rate (limiter.go:48), so the rate is positive.  It is
\* the caller who must see to that, and config.go:131 lets zero pass.
\* NsPerToken is positive up to one token per nanosecond.
ASSUME RateAssumption ==
    /\ MaxTokens \in Nat \ {0}
    /\ NsPerToken \in Nat \ {0}
    /\ TickPeriod \in Nat \ {0}
    /\ MaxTime \in Nat
    /\ None \notin Nat

VARIABLES
    tokens,         \* t.tokens
    now,            \* the clock
    ticking,        \* t.ticker is made and not stopped
    tick,           \* the channel of the ticker: one time stamp or None
    stopped,        \* t.stopChan is closed
    updater,        \* where updateBucket is
    elapsedNs,      \* its elapsedNs
    prevStamp,      \* its prevStamp
    loaded,         \* the tokens it loaded
    caller,         \* where each call of Allow is
    seen,           \* the tokens each call loaded
    allowed,        \* history: calls that returned true
    added,          \* history: tokens put into the bucket
    startTime,      \* history: when the limiter was started
    capped          \* history: time or tokens were thrown away

callVars   == <<caller, seen>>
updateVars == <<updater, elapsedNs, prevStamp, loaded, capped>>
tickVars   == <<now, ticking, tick, stopped>>
vars == <<tokens, tickVars, updateVars, callVars, allowed, added, startTime>>

\* The most time that counts: what fills an empty bucket.
FullNs == MaxTokens * NsPerToken

TypeOK ==
    /\ tokens \in 0..MaxTokens
    /\ now \in Nat /\ startTime \in Nat
    /\ ticking \in BOOLEAN /\ stopped \in BOOLEAN /\ capped \in BOOLEAN
    /\ tick \in Nat \cup {None}
    /\ updater \in {"off", "select", "load", "cas", "done"}
    /\ elapsedNs \in 0..FullNs
    /\ prevStamp \in Nat
    /\ loaded \in 0..MaxTokens
    /\ caller \in [Callers -> {"idle", "load", "decide"}]
    /\ seen \in [Callers -> 0..MaxTokens]
    /\ allowed \in Nat /\ added \in Nat

-----------------------------------------------------------------------------

\* NewTokenTicker, as appsec.start calls it: the bucket begins full.
Init ==
    /\ tokens = MaxTokens
    /\ now = 0 /\ startTime = 0
    /\ ticking = FALSE /\ tick = None /\ stopped = FALSE
    /\ updater = "off"
    /\ elapsedNs = 0 /\ prevStamp = 0 /\ loaded = 0
    /\ capped = FALSE
    /\ caller = [c \in Callers |-> "idle"]
    /\ seen = [c \in Callers |-> 0]
    /\ allowed = 0 /\ added = 0

\* time.Ticker: a tick that finds its channel full is dropped.
Advance ==
    /\ now < MaxTime
    /\ now' = now + TickPeriod
    /\ tick' = IF ticking /\ tick = None THEN now' ELSE tick
    /\ UNCHANGED <<tokens, ticking, stopped, updateVars, callVars, allowed, added, startTime>>

Start ==
    /\ updater = "off" /\ ~stopped
    /\ ticking' = TRUE
    /\ updater' = "select"
    /\ prevStamp' = now /\ startTime' = now
    /\ UNCHANGED <<tokens, now, tick, stopped, elapsedNs, loaded, capped,
                   callVars, allowed, added>>

\* A tick that is in the channel stays there.
Stop ==
    /\ ticking
    /\ ticking' = FALSE
    /\ stopped' = TRUE
    /\ UNCHANGED <<tokens, now, tick, updateVars, callVars, allowed, added, startTime>>

\* updateBucket's select takes the tick even if stopChan is closed too.
TakeTick ==
    LET elapsed == elapsedNs + (tick - prevStamp)
        counted == IF elapsed > FullNs THEN FullNs ELSE elapsed
    IN  /\ updater = "select" /\ tick # None
        /\ tick' = None
        /\ elapsedNs' = counted
        /\ prevStamp' = tick
        /\ updater' = IF counted >= NsPerToken THEN "load" ELSE "select"
        /\ capped' = (capped \/ elapsed > FullNs)
        /\ UNCHANGED <<tokens, now, ticking, stopped, loaded, callVars, allowed, added, startTime>>

TakeStop ==
    /\ updater = "select" /\ stopped
    /\ updater' = "done"
    /\ UNCHANGED <<tokens, tickVars, elapsedNs, prevStamp, loaded, capped,
                   callVars, allowed, added, startTime>>

\* A full bucket ends the loop and leaves elapsedNs as it is.
LoadTokens ==
    /\ updater = "load"
    /\ loaded' = tokens
    /\ updater' = IF tokens = MaxTokens THEN "select" ELSE "cas"
    /\ UNCHANGED <<tokens, tickVars, elapsedNs, prevStamp, capped,
                   callVars, allowed, added, startTime>>

\* The tokens that the elapsed time is worth, and what of them fits.
Worth == elapsedNs \div NsPerToken
Increment ==
    IF loaded + Worth > MaxTokens
        THEN Worth - ((loaded + Worth) % MaxTokens)
        ELSE Worth

\* Stores the sum whatever became of the tokens meanwhile.
MutAddTokens ==
    /\ updater = "cas"
    /\ tokens' = loaded + Increment
    /\ added' = added + Increment
    /\ elapsedNs' = elapsedNs % NsPerToken
    /\ updater' = "select"
    /\ capped' = (capped \/ Increment < Worth)
    /\ UNCHANGED <<tickVars, prevStamp, loaded, callVars, allowed, startTime>>

\* The compare-and-swap of updateBucket, back to the load when it fails.
AddTokens ==
    /\ updater = "cas"
    /\ \/ /\ tokens = loaded
          /\ tokens' = loaded + Increment
          /\ added' = added + Increment
          /\ elapsedNs' = elapsedNs % NsPerToken
          /\ updater' = "select"
          /\ capped' = (capped \/ Increment < Worth)
       \/ /\ tokens # loaded
          /\ updater' = "load"
          /\ UNCHANGED <<tokens, added, elapsedNs, capped>>
    /\ UNCHANGED <<tickVars, prevStamp, loaded, callVars, allowed, startTime>>

\* Allow
Call(c) ==
    /\ caller[c] = "idle"
    /\ caller' = [caller EXCEPT ![c] = "load"]
    /\ UNCHANGED <<tokens, tickVars, updateVars, seen, allowed, added, startTime>>

Load(c) ==
    /\ caller[c] = "load"
    /\ seen' = [seen EXCEPT ![c] = tokens]
    /\ caller' = [caller EXCEPT ![c] = "decide"]
    /\ UNCHANGED <<tokens, tickVars, updateVars, allowed, added, startTime>>

Refuse(c) ==
    /\ caller[c] = "decide" /\ seen[c] = 0
    /\ caller' = [caller EXCEPT ![c] = "idle"]
    /\ UNCHANGED <<tokens, tickVars, updateVars, seen, allowed, added, startTime>>

\* The compare-and-swap of Allow, back to the load when it fails.
Take(c) ==
    /\ caller[c] = "decide" /\ seen[c] # 0
    /\ \/ /\ tokens = seen[c]
          /\ tokens' = seen[c] - 1
          /\ allowed' = allowed + 1
          /\ caller' = [caller EXCEPT ![c] = "idle"]
       \/ /\ tokens # seen[c]
          /\ caller' = [caller EXCEPT ![c] = "load"]
          /\ UNCHANGED <<tokens, allowed>>
    /\ UNCHANGED <<tickVars, updateVars, seen, added, startTime>>

Next ==
    \/ Advance \/ Start \/ Stop
    \/ TakeTick \/ TakeStop \/ LoadTokens \/ AddTokens
    \/ \E c \in Callers : Call(c) \/ Load(c) \/ Refuse(c) \/ Take(c)

Spec == Init /\ [][Next]_vars

-----------------------------------------------------------------------------

\* No token is lost, made up or handed out twice, whatever the interleaving of
\* the updater's compare-and-swap (line 79) and those of Allow (line 138).
TokensConserved == tokens = MaxTokens + added - allowed

\* Lines 80 to 82 keep the time that was not worth a token "so that increment
\* computation remains precise over time": the bucket never gets more tokens than
\* the time since Start is worth, and exactly that as long as it never overflowed.
IncrementPrecise ==
    LET time == prevStamp - startTime
    IN  /\ added * NsPerToken + elapsedNs <= time
        /\ ~capped => added * NsPerToken + elapsedNs = time

\* Both: no token is lost, made up or handed out twice, and the tokens that are
\* added are worth the time that passed (limiter.go:68-86, 132-141).
TokensExact == TokensConserved /\ IncrementPrecise

\* What a user of the limiter relies on: after the first MaxTokens, at most one
\* call per NsPerToken since Start is allowed.
RateBounded == allowed * NsPerToken <= MaxTokens * NsPerToken + (now - startTime)
=============================================================================

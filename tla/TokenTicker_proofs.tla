-------------------------- MODULE TokenTicker_proofs --------------------------
(***************************************************************************)
(* Proofs about TokenTicker: for any number of callers, any rate and any   *)
(* period of the ticker, tokens are conserved, the increments are precise  *)
(* and the rate is bounded.                                                *)
(***************************************************************************)
EXTENDS TokenTicker, TLAPS

(* Arithmetic of products and quotients.                                   *)

\* A whole multiple and its remainder make up the number.
LEMMA Division ==
    ASSUME NEW a \in Nat, NEW n \in Nat \ {0}
    PROVE  /\ a \div n \in Nat
           /\ a % n \in 0..(n - 1)
           /\ (a \div n) * n + (a % n) = a
<1>1. a \div n \in Nat
  BY SMT
<1>2. a % n \in Int /\ 0 <= a % n /\ a % n < n
  BY SMT
<1>3. a = n * (a \div n) + (a % n)
  BY SMT
<1>4. n * (a \div n) = (a \div n) * n
  BY <1>1, SMT
<1> QED
  BY <1>1, <1>2, <1>3, <1>4

\* Multiplication by a natural number is monotonic.
LEMMA TimesMonotonic ==
    ASSUME NEW a \in Nat, NEW b \in Nat, NEW n \in Nat, a <= b
    PROVE  a * n <= b * n /\ a * n \in Nat
BY SMT

\* Multiplication distributes over addition.
LEMMA TimesSum ==
    ASSUME NEW a \in Nat, NEW b \in Nat, NEW n \in Nat
    PROVE  (a + b) * n = a * n + b * n /\ a * n \in Nat /\ b * n \in Nat
BY SMT

\* A quotient of a number that is at most m times n is at most m.
LEMMA QuotientBound ==
    ASSUME NEW a \in Nat, NEW m \in Nat, NEW n \in Nat \ {0}, a <= m * n
    PROVE  a \div n <= m
<1>1. a \div n \in Nat /\ (a \div n) * n <= a
  BY Division, SMT
<1>2. SUFFICES ASSUME m + 1 <= a \div n PROVE FALSE
  BY <1>1
<1>3. (m + 1) * n <= (a \div n) * n
  BY <1>1, <1>2, TimesMonotonic
<1>4. (m + 1) * n = m * n + n
  BY TimesSum, SMT
<1> QED
  BY <1>1, <1>3, <1>4, TimesSum, SMT

\* A number between m and 2m has the remainder that is left after m.
LEMMA RemainderAbove ==
    ASSUME NEW s \in Nat, NEW m \in Nat \ {0}, m < s, s < m + m
    PROVE  s % m = s - m
BY SMT

-----------------------------------------------------------------------------
(* The inductive invariant.                                                *)

\* Time stamps are ordered: Start, the last stamp taken, the one in the channel,
\* the clock.
StampInv ==
    /\ startTime <= prevStamp /\ prevStamp <= now
    /\ tick # None => prevStamp <= tick /\ tick <= now

\* Before Start nothing ticks and nothing is counted; the updater adds tokens only
\* when the elapsed time is worth one and the bucket was not full.
UpdaterInv ==
    /\ updater = "off" => ~ticking /\ tick = None /\ added = 0 /\ elapsedNs = 0 /\ ~capped
    /\ updater = "cas" => loaded < MaxTokens

IInv == TypeOK /\ StampInv /\ UpdaterInv /\ TokensConserved /\ IncrementPrecise

\* The constants and the products of them that occur, as the provers need them.
LEMMA Constants ==
    /\ MaxTokens \in Nat \ {0} /\ NsPerToken \in Nat \ {0} /\ TickPeriod \in Nat \ {0}
    /\ FullNs \in Nat
BY RateAssumption, TimesSum DEF FullNs

\* What AddTokens may add: it fits into the bucket and is covered by the elapsed
\* time, and uses all of it unless the bucket overflows.
LEMMA IncrementFits ==
    ASSUME TypeOK, loaded < MaxTokens
    PROVE  /\ Worth \in Nat /\ Increment \in Nat
           /\ loaded + Increment <= MaxTokens
           /\ Increment <= Worth
           /\ Worth * NsPerToken + (elapsedNs % NsPerToken) = elapsedNs
           /\ elapsedNs % NsPerToken \in 0..FullNs
<1>1. elapsedNs \in Nat /\ elapsedNs <= MaxTokens * NsPerToken /\ loaded \in Nat
  BY Constants DEF TypeOK, FullNs
<1>2. Worth \in Nat /\ Worth <= MaxTokens
  BY <1>1, Constants, Division, QuotientBound DEF Worth
<1>3. /\ Worth * NsPerToken + (elapsedNs % NsPerToken) = elapsedNs
      /\ elapsedNs % NsPerToken \in Nat
  BY <1>1, Constants, Division DEF Worth
<1>4. Worth * NsPerToken \in Nat
  BY <1>2, Constants, TimesSum
<1>5. elapsedNs % NsPerToken \in 0..FullNs
  <2> DEFINE r == elapsedNs % NsPerToken
             w == Worth * NsPerToken
             f == MaxTokens * NsPerToken
  <2>1. r \in Nat /\ w \in Nat /\ w + r = elapsedNs /\ elapsedNs <= f /\ f \in Nat
    BY <1>1, <1>3, <1>4, Constants DEF FullNs
  <2>2. r <= f
    <3> HIDE DEF r, w, f
    <3> QED
      BY <1>1, <2>1
  <2> QED
    BY <2>1, <2>2 DEF FullNs
<1>6. CASE loaded + Worth > MaxTokens
  <2>0. loaded + Worth \in Nat /\ loaded + Worth < MaxTokens + MaxTokens
    BY <1>1, <1>2, Constants
  <2>1. (loaded + Worth) % MaxTokens = loaded + Worth - MaxTokens
    <3>1. MaxTokens \in Nat \ {0} /\ MaxTokens < loaded + Worth
      BY <1>1, <1>2, <1>6, Constants
    <3> DEFINE s == loaded + Worth
    <3>2. s \in Nat /\ MaxTokens < s /\ s < MaxTokens + MaxTokens
      BY <2>0, <3>1
    <3> HIDE DEF s
    <3>3. s % MaxTokens = s - MaxTokens
      BY <3>1, <3>2, RemainderAbove
    <3> QED
      BY <1>1, <1>2, <2>0, <3>1, <3>3 DEF s
  <2>2. Increment = MaxTokens - loaded
    BY <1>1, <1>2, <1>6, <2>1, Constants DEF Increment
  <2> QED
    BY <1>1, <1>2, <1>3, <1>5, <1>6, <2>2, Constants
<1>7. CASE ~(loaded + Worth > MaxTokens)
  <2>1. Increment = Worth
    BY <1>7 DEF Increment
  <2> QED
    BY <1>1, <1>2, <1>3, <1>5, <1>7, <2>1, Constants
<1> QED
  BY <1>6, <1>7

LEMMA InitIInv == Init => IInv
<1> SUFFICES ASSUME Init PROVE IInv
  OBVIOUS
<1>1. TypeOK
  <2>1. ticking \in BOOLEAN /\ stopped \in BOOLEAN /\ capped \in BOOLEAN
    BY Zenon DEF Init
  <2> QED
    BY <2>1, Constants DEF Init, TypeOK
<1>2. StampInv /\ TokensConserved
  BY Constants DEF Init, StampInv, TokensConserved
<1>3. UpdaterInv
  BY Zenon DEF Init, UpdaterInv
<1>4. IncrementPrecise
  <2>1. 0 * NsPerToken = 0
    BY Constants, SMT
  <2> QED
    BY <2>1 DEF Init, IncrementPrecise
<1> QED
  BY <1>1, <1>2, <1>3, <1>4 DEF IInv

\* The compare-and-swap of the updater, the one step that fills the bucket.
LEMMA AddTokensIInv == IInv /\ AddTokens => IInv'
<1> SUFFICES ASSUME IInv, AddTokens PROVE IInv'
  OBVIOUS
<1>1. /\ Worth \in Nat /\ Increment \in Nat
      /\ loaded + Increment <= MaxTokens
      /\ Increment <= Worth
      /\ Worth * NsPerToken + (elapsedNs % NsPerToken) = elapsedNs
      /\ elapsedNs % NsPerToken \in 0..FullNs
  BY IncrementFits DEF IInv, UpdaterInv, AddTokens
<1>2. CASE tokens = loaded /\ updater' = "select"
  <2>0. /\ tokens' = loaded + Increment /\ added' = added + Increment
        /\ elapsedNs' = elapsedNs % NsPerToken
        /\ capped' = (capped \/ Increment < Worth)
        /\ UNCHANGED <<tickVars, prevStamp, loaded, callVars, allowed, startTime>>
    BY <1>2 DEF AddTokens
  <2>1. TypeOK'
    BY <1>1, <1>2, <2>0, Constants DEF IInv, TypeOK, tickVars, callVars
  <2>2. StampInv' /\ UpdaterInv'
    BY <1>2, <2>0 DEF IInv, StampInv, UpdaterInv, tickVars
  <2>3. TokensConserved'
    BY <1>1, <1>2, <2>0, Constants DEF IInv, TypeOK, TokensConserved
  <2>4. IncrementPrecise'
    <3> DEFINE r == elapsedNs % NsPerToken
    <3>1. /\ added \in Nat /\ prevStamp \in Nat /\ startTime \in Nat /\ elapsedNs \in Nat
          /\ r \in Nat
      BY <1>1, Constants DEF IInv, TypeOK
    <3>2. /\ added' * NsPerToken = added * NsPerToken + Increment * NsPerToken
          /\ added * NsPerToken \in Nat /\ Increment * NsPerToken \in Nat
      BY <1>1, <2>0, <3>1, Constants, TimesSum
    <3>3. Increment * NsPerToken <= Worth * NsPerToken /\ Worth * NsPerToken \in Nat
      BY <1>1, Constants, TimesMonotonic, TimesSum
    <3>4. Worth * NsPerToken + r = elapsedNs
      BY <1>1
    <3>5. elapsedNs' = r /\ prevStamp' = prevStamp /\ startTime' = startTime
      BY <2>0 DEF tickVars
    <3>6. added * NsPerToken + elapsedNs <= prevStamp - startTime
      BY DEF IInv, IncrementPrecise
    <3>7. added' * NsPerToken + elapsedNs' <= prevStamp' - startTime'
      <4> HIDE DEF r
      <4> QED
        BY <3>1, <3>2, <3>3, <3>4, <3>5, <3>6
    <3>8. ASSUME ~capped' PROVE added' * NsPerToken + elapsedNs' = prevStamp' - startTime'
      <4>0. ~(Increment < Worth) /\ ~capped
        BY <2>0, <3>8, Zenon
      <4>1. Increment = Worth /\ ~capped
        BY <1>1, <4>0
      <4>2. added * NsPerToken + elapsedNs = prevStamp - startTime
        BY <4>1 DEF IInv, IncrementPrecise
      <4> HIDE DEF r
      <4> QED
        BY <3>1, <3>2, <3>3, <3>4, <3>5, <4>1, <4>2
    <3> QED
      BY <3>7, <3>8 DEF IncrementPrecise
  <2> QED
    BY <2>1, <2>2, <2>3, <2>4 DEF IInv
<1>3. CASE tokens # loaded /\ updater' = "load"
  BY <1>3, Constants DEF AddTokens, IInv, TypeOK, StampInv, UpdaterInv, TokensConserved,
     IncrementPrecise, tickVars, callVars
<1> QED
  BY <1>2, <1>3 DEF AddTokens

\* A tick moves the time since the last stamp into elapsedNs, up to the cap.
LEMMA TakeTickIInv == IInv /\ TakeTick => IInv'
<1> SUFFICES ASSUME IInv, TakeTick PROVE IInv'
  OBVIOUS
<1> DEFINE e == elapsedNs + (tick - prevStamp)
<1>1. /\ elapsedNs \in 0..FullNs /\ tick \in Nat /\ prevStamp \in Nat /\ startTime \in Nat
      /\ prevStamp <= tick /\ tick <= now /\ startTime <= prevStamp
  BY DEF IInv, TypeOK, StampInv, TakeTick
<1>2. /\ elapsedNs' = IF e > FullNs THEN FullNs ELSE e
      /\ prevStamp' = tick /\ tick' = None
      /\ capped' = (capped \/ e > FullNs)
      /\ updater' \in {"load", "select"} /\ updater = "select"
      /\ UNCHANGED <<tokens, now, ticking, stopped, loaded, callVars, allowed, added, startTime>>
  BY DEF TakeTick
<1>3. e \in Nat
  BY <1>1, Constants
<1>4. TypeOK'
  BY <1>1, <1>2, <1>3, Constants DEF IInv, TypeOK, callVars
<1>5. StampInv' /\ UpdaterInv' /\ TokensConserved'
  BY <1>1, <1>2 DEF IInv, StampInv, UpdaterInv, TokensConserved
<1>6. IncrementPrecise'
  <2>1. added * NsPerToken \in Nat
    BY Constants, TimesSum DEF IInv, TypeOK
  <2>2. added * NsPerToken + elapsedNs <= prevStamp - startTime
    BY DEF IInv, IncrementPrecise
  <2>3. added' = added /\ startTime' = startTime
    BY <1>2
  <2>4. added' * NsPerToken + elapsedNs' <= prevStamp' - startTime'
    BY <1>1, <1>2, <2>1, <2>2, <2>3, Constants
  <2>5. ASSUME ~capped' PROVE added' * NsPerToken + elapsedNs' = prevStamp' - startTime'
    <3>1. ~(e > FullNs) /\ ~capped
      BY <1>2, <2>5, Zenon
    <3>2. added * NsPerToken + elapsedNs = prevStamp - startTime
      BY <3>1 DEF IInv, IncrementPrecise
    <3> QED
      BY <1>1, <1>2, <2>1, <2>3, <3>1, <3>2, Constants
  <2> QED
    BY <2>4, <2>5 DEF IncrementPrecise
<1> QED
  BY <1>4, <1>5, <1>6 DEF IInv

LEMMA NextIInv == IInv /\ [Next]_vars => IInv'
<1> SUFFICES ASSUME IInv, [Next]_vars PROVE IInv'
  OBVIOUS
<1>1. CASE Advance
  BY <1>1, Constants DEF Advance, IInv, TypeOK, StampInv, UpdaterInv, TokensConserved,
     IncrementPrecise, updateVars, callVars
<1>2. CASE Start
  BY <1>2, Constants DEF Start, IInv, TypeOK, StampInv, UpdaterInv, TokensConserved,
     IncrementPrecise, callVars
<1>3. CASE Stop
  BY <1>3, Constants DEF Stop, IInv, TypeOK, StampInv, UpdaterInv, TokensConserved,
     IncrementPrecise, updateVars, callVars
<1>4. CASE TakeTick
  BY <1>4, TakeTickIInv
<1>5. CASE TakeStop
  BY <1>5, Constants DEF TakeStop, IInv, TypeOK, StampInv, UpdaterInv, TokensConserved,
     IncrementPrecise, tickVars, callVars
<1>6. CASE LoadTokens
  BY <1>6, Constants DEF LoadTokens, IInv, TypeOK, StampInv, UpdaterInv, TokensConserved,
     IncrementPrecise, tickVars, callVars
<1>7. CASE AddTokens
  BY <1>7, AddTokensIInv
<1>8. ASSUME NEW c \in Callers, Call(c) \/ Load(c) \/ Refuse(c) PROVE IInv'
  BY <1>8, Constants DEF Call, Load, Refuse, IInv, TypeOK, StampInv, UpdaterInv,
     TokensConserved, IncrementPrecise, tickVars, updateVars
<1>9. ASSUME NEW c \in Callers, Take(c) PROVE IInv'
  BY <1>9, Constants DEF Take, IInv, TypeOK, StampInv, UpdaterInv, TokensConserved,
     IncrementPrecise, tickVars, updateVars
<1>10. CASE UNCHANGED vars
  BY <1>10 DEF vars, IInv, TypeOK, StampInv, UpdaterInv, TokensConserved,
     IncrementPrecise, tickVars, updateVars, callVars
<1> QED
  BY <1>1, <1>2, <1>3, <1>4, <1>5, <1>6, <1>7, <1>8, <1>9, <1>10 DEF Next

\* The invariant holds in every state.
THEOREM Invariance == Spec => []IInv
BY InitIInv, NextIInv, PTL DEF Spec

\* t.tokens stays between zero and t.maxTokens and the other variables in their types.
THEOREM TypeCorrect == Spec => []TypeOK
<1>1. IInv => TypeOK
  BY DEF IInv
<1> QED
  BY <1>1, Invariance, PTL

\* For any number of concurrent calls of Allow, no token is lost, made up or handed
\* out twice, and the refills are worth the time that passed: never more, and exactly
\* that until the bucket overflowed.
THEOREM Exactness == Spec => []TokensExact
<1>1. IInv => TokensExact
  BY DEF IInv, TokensExact
<1> QED
  BY <1>1, Invariance, PTL

\* The limiter limits: from Start on, no more calls of Allow return true than the
\* bucket held at first and the time since then is worth.
THEOREM RateLimited == Spec => []RateBounded
<1>1. ASSUME IInv PROVE RateBounded
  <2>1. /\ allowed \in Nat /\ added \in Nat /\ now \in Nat /\ startTime \in Nat
        /\ prevStamp \in Nat /\ elapsedNs \in Nat
        /\ allowed <= MaxTokens + added
        /\ prevStamp <= now
        /\ added * NsPerToken + elapsedNs <= prevStamp - startTime
    BY <1>1, Constants DEF IInv, TypeOK, StampInv, TokensConserved, IncrementPrecise
  <2>2. MaxTokens + added \in Nat
    BY <2>1, Constants
  <2>3. allowed * NsPerToken <= (MaxTokens + added) * NsPerToken /\ allowed * NsPerToken \in Nat
    BY <2>1, <2>2, Constants, TimesMonotonic
  <2>4. /\ (MaxTokens + added) * NsPerToken = MaxTokens * NsPerToken + added * NsPerToken
        /\ MaxTokens * NsPerToken \in Nat /\ added * NsPerToken \in Nat
    BY <2>1, Constants, TimesSum
  <2> QED
    BY <2>1, <2>3, <2>4 DEF RateBounded
<1> QED
  BY <1>1, Invariance, PTL
=============================================================================

----------------------- MODULE DistributedTrace_proofs -----------------------
(***************************************************************************)
(* Theorems about DistributedTrace, for any number of services, any        *)
(* configuration of them and any rates, and about the Producers that hand  *)
(* a context to a queue, for any messages and any room in the libraries.   *)
(***************************************************************************)
EXTENDS DistributedTrace, Producers, FiniteSetTheorems, SequenceTheorems, TLAPS

(* The limiter: what one request does to its counts and its tokens.        *)

LEMMA Products ==
    ASSUME NEW n \in Nat, NEW a \in Nat, NEW b \in Nat, a <= b
    PROVE  n * (b - a) \in Nat /\ n * (a - a) = 0
  <1>1. \A x \in Nat : n * x \in Nat /\ n * 0 = 0
    BY SMT
  <1>2. b - a \in Nat /\ a - a = 0
    OBVIOUS
  <1> QED BY <1>1, <1>2

LEMMA Distributes ==
    ASSUME NEW n \in Nat, NEW x \in Nat, NEW y \in Nat
    PROVE  n * (x + y) = n * x + n * y
  BY SMT

LEMMA Shifted ==
    ASSUME NEW a \in Nat, NEW b \in Nat, NEW c \in Nat, NEW d \in Nat, NEW x \in Nat, a + d = b + x
    PROVE  a + (c + d) = (b + c) + x
  OBVIOUS

LEMMA Places ==
    ASSUME NEW n \in Nat, NEW a \in Nat, NEW b \in Nat
    PROVE  (n + 1) - (a + 1) = n - a /\ (n + 1) - (a + 1) - b + 1 = (n - a - b) + 1
  OBVIOUS

LEMMA Spending ==
    ASSUME NEW old \in Nat, NEW one \in Nat, NEW tokens \in Nat, NEW burst \in Nat, NEW new \in Nat,
           NEW y \in Nat, NEW z \in Nat, 4 * old + tokens <= 4 * burst + z, new <= tokens + y
    PROVE  4 * (old + one) + (new - 4 * one) <= 4 * burst + (y + z)
  OBVIOUS

LEMMA PassedFinite ==
    ASSUME NEW q, NEW i \in Int, NEW j \in Int
    PROVE  IsFiniteSet(Passed(q, i, j)) /\ Cardinality(Passed(q, i, j)) \in Nat
  <1>1. IsFiniteSet(i .. j) /\ Passed(q, i, j) \in SUBSET (i .. j)
    BY FS_Interval DEF Passed
  <1>2. IsFiniteSet(Passed(q, i, j))
    BY <1>1, FS_Subset
  <1> QED BY <1>2, FS_CardinalityType

LEMMA PassedNone ==
    ASSUME NEW q, NEW i \in Int, NEW j \in Int, j < i
    PROVE  Cardinality(Passed(q, i, j)) = 0
  <1>1. Passed(q, i, j) = {}
    BY DEF Passed
  <1> QED BY <1>1, FS_EmptySet

LEMMA PassedKept ==
    ASSUME NEW q \in Seq(Requests), NEW r \in Requests, NEW i \in Int, NEW j \in Int,
           i >= 1, j <= Len(q)
    PROVE  Passed(Append(q, r), i, j) = Passed(q, i, j)
  BY DEF Passed

LEMMA PassedGrows ==
    ASSUME NEW q \in Seq(Requests), NEW r \in Requests, NEW i \in 1 .. Len(q) + 1
    PROVE  Cardinality(Passed(Append(q, r), i, Len(q) + 1)) =
           Cardinality(Passed(q, i, Len(q))) + (IF r.ok THEN 1 ELSE 0)
  <1> DEFINE n == Len(q)
             old == Passed(q, i, n)
  <1>1. n \in Nat /\ IsFiniteSet(old) /\ Cardinality(old) \in Nat
    BY PassedFinite
  <1>2. n + 1 \notin old
    BY DEF Passed
  <1>3. CASE r.ok
    <2>1. Passed(Append(q, r), i, n + 1) = old \cup {n + 1}
      BY <1>3 DEF Passed
    <2> QED BY <1>1, <1>2, <1>3, <2>1, FS_AddElement
  <1>4. CASE ~r.ok
    <2>1. Passed(Append(q, r), i, n + 1) = old
      BY <1>4 DEF Passed
    <2> QED BY <1>1, <1>4, <2>1
  <1> QED BY <1>3, <1>4

\* What a request is answered, the time it wins for the limiter, and the tokens it can spend.
Ask(l, q, now)  == [t |-> now, ok |-> Allows(l, now), back |-> Back(q) + SetBack(l, now)]
One(l, now)     == IF Allows(l, now) THEN 1 ELSE 0
Won(l, now)     == IF Allows(l, now) THEN now - Earlier(l, now) ELSE 0
Funds(l, now)   == IF Allows(l, now) THEN Refill(l, now) ELSE l.tokens

LEMMA RefillBounds ==
    ASSUME NEW l \in Limiters, NEW now \in Nat, l.tokens <= Token * l.burst
    PROVE  /\ SetBack(l, now) \in Nat /\ Won(l, now) \in Nat /\ One(l, now) \in {0, 1}
           /\ Funds(l, now) \in Nat /\ Funds(l, now) <= 4 * l.burst
           /\ Funds(l, now) <= l.tokens + l.limit * Won(l, now)
           /\ One(l, now) = 1 => Funds(l, now) >= 4
           /\ Refill(l, now) \in Nat
  <1>1. l.limit \in Nat /\ l.tokens \in Nat /\ l.last \in Nat /\ l.burst \in Nat /\ l.tokens <= 4 * l.burst
    BY DEF Limiters, Token
  <1>2. Earlier(l, now) \in Nat /\ Earlier(l, now) <= now /\ Earlier(l, now) <= l.last
    BY <1>1 DEF Earlier
  <1>3. SetBack(l, now) \in Nat /\ Won(l, now) \in Nat /\ One(l, now) \in {0, 1}
    BY <1>1, <1>2 DEF SetBack, Won, One
  <1>4. l.limit * (now - Earlier(l, now)) \in Nat /\ l.limit * 0 = 0
    BY <1>1, <1>2, Products
  <1>5. /\ Refill(l, now) \in Nat /\ Refill(l, now) <= 4 * l.burst
        /\ Refill(l, now) <= l.tokens + l.limit * (now - Earlier(l, now))
    BY <1>1, <1>4 DEF Refill, Token
  <1>6. CASE Allows(l, now)
    <2>1. Funds(l, now) = Refill(l, now) /\ Won(l, now) = now - Earlier(l, now)
      BY <1>6 DEF Funds, Won
    <2>2. Refill(l, now) >= 4
      BY <1>6 DEF Allows, Token
    <2> QED BY <1>3, <1>5, <2>1, <2>2
  <1>7. CASE ~Allows(l, now)
    <2>1. Funds(l, now) = l.tokens /\ Won(l, now) = 0 /\ One(l, now) = 0
      BY <1>7 DEF Funds, Won, One
    <2> QED BY <1>1, <1>3, <1>4, <1>5, <2>1
  <1> QED BY <1>6, <1>7

\* The limiter after a request, by its fields.
LEMMA AllowOneFields ==
    ASSUME NEW l \in Limiters, NEW now \in Nat, l.tokens <= Token * l.burst
    PROVE  LET m == allowOne(l, now)
               one == One(l, now)
               follows == (now - l.prevTime) \div Second = 1 /\ l.seen > 0
           IN  /\ m \in Limiters /\ m.limit = l.limit /\ m.burst = l.burst
               /\ m.tokens = Funds(l, now) - 4 * one
               /\ m.last + SetBack(l, now) = l.last + Won(l, now)
               /\ Allows(l, now) => m.last = now
               /\ now - l.prevTime >= Second =>
                    /\ m.prevTime = now /\ m.seen = 1 /\ m.allowed = one
                    /\ m.prevSeen = IF follows THEN l.seen ELSE 0
                    /\ m.prevAllowed = IF follows THEN l.allowed ELSE 0
               /\ ~(now - l.prevTime >= Second) =>
                    /\ m.prevTime = l.prevTime /\ m.seen = l.seen + 1 /\ m.allowed = l.allowed + one
                    /\ m.prevSeen = l.prevSeen /\ m.prevAllowed = l.prevAllowed
  <1> DEFINE p == Period(l, now)
             one == One(l, now)
             follows == (now - l.prevTime) \div Second = 1 /\ l.seen > 0
             last == IF Allows(l, now) THEN now ELSE Earlier(l, now)
  <1>1. p \in Limiters /\ p.limit = l.limit /\ p.burst = l.burst /\ p.tokens = l.tokens /\ p.last = l.last
    BY DEF Period, Limiters, Second
  <1>2. /\ now - l.prevTime >= Second =>
             /\ p.prevTime = now /\ p.seen = 0 /\ p.allowed = 0
             /\ p.prevSeen = IF follows THEN l.seen ELSE 0
             /\ p.prevAllowed = IF follows THEN l.allowed ELSE 0
        /\ ~(now - l.prevTime >= Second) => p = l
    BY DEF Period, Limiters, Second
  <1>3. Funds(l, now) \in Nat /\ one \in {0, 1} /\ (one = 1 => Funds(l, now) >= 4) /\ one \in Nat
    BY RefillBounds
  <1>4. Refill(l, now) \in Nat /\ l.last \in Nat /\ l.tokens \in Nat
    BY RefillBounds DEF Limiters
  <1>5. Earlier(l, now) \in Nat /\ last \in Nat
    BY <1>4 DEF Earlier
  <1>6. last + SetBack(l, now) = l.last + Won(l, now)
    BY <1>4 DEF Earlier, SetBack, Won
  <1> DEFINE m == [p EXCEPT !.seen = @ + 1, !.allowed = @ + one,
                            !.tokens = Funds(l, now) - 4 * one, !.last = last]
  <1>7. allowOne(l, now) = m
    <2>1. CASE Allows(l, now)
      <3>1. one = 1 /\ Funds(l, now) = Refill(l, now) /\ Refill(l, now) - Token = Refill(l, now) - 4 * 1
        BY <1>4, <2>1 DEF One, Funds, Token
      <3> QED BY <2>1, <3>1 DEF allowOne
    <2>2. CASE ~Allows(l, now)
      <3>1. one = 0 /\ Funds(l, now) = l.tokens /\ l.tokens = l.tokens - 4 * 0
        BY <1>4, <2>2 DEF One, Funds
      <3> QED BY <1>1, <2>2, <3>1 DEF allowOne
    <2> QED BY <2>1, <2>2
  <1>8. /\ m \in Limiters /\ m.limit = p.limit /\ m.burst = p.burst /\ m.last = last
        /\ m.tokens = Funds(l, now) - 4 * one
        /\ m.prevTime = p.prevTime /\ m.seen = p.seen + 1 /\ m.allowed = p.allowed + one
        /\ m.prevSeen = p.prevSeen /\ m.prevAllowed = p.prevAllowed
    <2> HIDE DEF p, one, last
    <2>1. Funds(l, now) - 4 * one \in Nat
      BY <1>3
    <2>2. p.seen + 1 \in Nat /\ p.allowed + one \in Nat
      BY <1>1, <1>3 DEF Limiters
    <2> QED BY <1>1, <1>5, <2>1, <2>2 DEF Limiters
  <1>9. l.seen \in Nat /\ l.allowed \in Nat /\ (Allows(l, now) => last = now)
    BY DEF Limiters
  <1> HIDE DEF p, m, last, one
  <1>10. /\ now - l.prevTime >= Second =>
              /\ m.prevTime = now /\ m.seen = 1 /\ m.allowed = one
              /\ m.prevSeen = IF follows THEN l.seen ELSE 0
              /\ m.prevAllowed = IF follows THEN l.allowed ELSE 0
         /\ ~(now - l.prevTime >= Second) =>
              /\ m.prevTime = l.prevTime /\ m.seen = l.seen + 1 /\ m.allowed = l.allowed + one
              /\ m.prevSeen = l.prevSeen /\ m.prevAllowed = l.prevAllowed
    <2> HIDE DEF follows
    <2> QED BY <1>2, <1>3, <1>8
  <1> QED BY <1>1, <1>6, <1>7, <1>8, <1>9, <1>10 DEF one

\* A request in the tally: its fields, and those of the tally.
LEMMA Asking ==
    ASSUME NEW l \in Limiters, NEW q \in Seq(Requests), NEW now \in Nat, l.tokens <= Token * l.burst
    PROVE  LET e == Ask(l, q, now)
               r == Append(q, e)
           IN  /\ e \in Requests /\ e.t = now /\ e.ok = Allows(l, now)
               /\ Len(q) \in Nat /\ Back(q) \in Nat /\ Back(r) = Back(q) + SetBack(l, now)
               /\ r \in Seq(Requests) /\ Len(r) = Len(q) + 1 /\ r[Len(q) + 1] = e
               /\ \A i \in 1 .. Len(q) : r[i] = q[i] /\ q[i] \in Requests /\ Clocked(q[i]) \in Nat
               /\ allowOne(l, now).last + Back(r) = (l.last + Back(q)) + Won(l, now)
               /\ Allows(l, now) => Clocked(e) = allowOne(l, now).last + Back(r)
  <1> DEFINE e == Ask(l, q, now)
             r == Append(q, e)
             m == allowOne(l, now)
  <1>1. Len(q) \in Nat /\ \A i \in 1 .. Len(q) : q[i] \in Requests
    OBVIOUS
  <1>2. Back(q) \in Nat
    <2>1. CASE q = <<>>
      BY <2>1 DEF Back
    <2>2. CASE q # <<>>
      <3>1. Len(q) \in 1 .. Len(q)
        BY <2>2
      <3> QED BY <1>1, <2>2, <3>1 DEF Back, Requests
    <2> QED BY <2>1, <2>2
  <1>3. SetBack(l, now) \in Nat /\ Won(l, now) \in Nat
    BY RefillBounds
  <1>4. e.t = now /\ e.ok = Allows(l, now) /\ e.back = Back(q) + SetBack(l, now) /\ e \in Requests
    BY <1>2, <1>3 DEF Ask, Requests, Allows
  <1> HIDE DEF e
  <1>5. r \in Seq(Requests) /\ Len(r) = Len(q) + 1 /\ r[Len(q) + 1] = e /\ \A i \in 1 .. Len(q) : r[i] = q[i]
    BY <1>4
  <1>6. r # <<>> /\ Back(r) = e.back
    BY <1>1, <1>5 DEF Back
  <1>7. \A i \in 1 .. Len(q) : Clocked(q[i]) \in Nat
    BY <1>1 DEF Clocked, Requests
  <1>8. m \in Limiters /\ m.last + SetBack(l, now) = l.last + Won(l, now) /\ (Allows(l, now) => m.last = now)
    BY AllowOneFields
  <1>9. m.last \in Nat /\ l.last \in Nat
    BY <1>8 DEF Limiters
  <1> HIDE DEF m, r
  <1>10. m.last + Back(r) = (l.last + Back(q)) + Won(l, now)
    <2> DEFINE a == m.last
               b == l.last
               c == Back(q)
               d == SetBack(l, now)
               x == Won(l, now)
    <2>1. a \in Nat /\ b \in Nat /\ c \in Nat /\ d \in Nat /\ x \in Nat /\ a + d = b + x
      BY <1>2, <1>3, <1>8, <1>9
    <2>2. Back(r) = c + d
      BY <1>4, <1>6
    <2> HIDE DEF a, b, c, d, x
    <2>3. a + (c + d) = (b + c) + x
      BY <2>1, Shifted
    <2> QED BY <2>2, <2>3 DEF a, b, c, x
  <1>11. Allows(l, now) => Clocked(e) = m.last + Back(r)
    BY <1>4, <1>6, <1>8 DEF Clocked
  <1> QED BY <1>1, <1>2, <1>4, <1>5, <1>6, <1>7, <1>10, <1>11 DEF e, r, m

\* What the limiter lets pass, and what it could, comes from a burst and the time.
LEMMA TallySpent ==
    ASSUME NEW l \in Limiters, NEW q \in Seq(Requests), NEW now \in Nat, Tally(l, q),
           NEW i \in 1 .. Len(q) + 1, Append(q, Ask(l, q, now))[i].ok
    PROVE  LET m == allowOne(l, now)
               r == Append(q, Ask(l, q, now))
               v == m.last + Back(r)
           IN  /\ v \in Nat /\ Clocked(r[i]) \in Nat /\ Clocked(r[i]) <= v
               /\ 4 * Cardinality(Passed(r, i, Len(q) + 1)) + m.tokens <= 4 * l.burst + l.limit * (v - Clocked(r[i]))
  <1> DEFINE n == Len(q)
             e == Ask(l, q, now)
             r == Append(q, e)
             m == allowOne(l, now)
             w == l.last + Back(q)
             v == m.last + Back(r)
             c == Clocked(r[i])
             won == Won(l, now)
             funds == Funds(l, now)
             old == Cardinality(Passed(q, i, n))
             one == One(l, now)
  <1>1. l.tokens <= Token * l.burst /\ l.tokens \in Nat /\ l.limit \in Nat /\ l.last \in Nat /\ l.burst \in Nat
    BY DEF Tally, Limiters
  <1>2. /\ e \in Requests /\ n \in Nat /\ Back(q) \in Nat /\ e.ok = Allows(l, now) /\ r[n + 1] = e
        /\ \A k \in 1 .. n : r[k] = q[k] /\ Clocked(q[k]) \in Nat
        /\ v = w + won /\ (Allows(l, now) => Clocked(e) = v)
    BY <1>1, Asking
  <1>3. /\ won \in Nat /\ one \in {0, 1} /\ funds \in Nat /\ funds <= 4 * l.burst
        /\ funds <= l.tokens + l.limit * won
    BY <1>1, RefillBounds
  <1>4. m.tokens = funds - 4 * one
    BY <1>1, AllowOneFields
  <1>5. old \in Nat
    BY <1>2, PassedFinite
  <1>6. Cardinality(Passed(r, i, n + 1)) = old + one
    BY <1>2, PassedGrows DEF One
  <1>7. w \in Nat /\ v \in Nat
    <2>1. w \in Nat
      BY <1>1, <1>2
    <2> HIDE DEF w, v, won
    <2> QED BY <1>2, <1>3, <2>1
  <1>8. CASE i = n + 1
    <2>1. c = v
      BY <1>2, <1>8
    <2>2. old = 0
      BY <1>2, <1>8, PassedNone
    <2>3. l.limit * (v - v) = 0
      BY <1>1, <1>7, Products
    <2>4. 4 * (old + one) + m.tokens <= 4 * l.burst + 0
      <3> HIDE DEF old, one, m, funds
      <3> QED BY <1>1, <1>3, <1>4, <2>2
    <2> HIDE DEF v, c, old, one
    <2> QED BY <1>6, <1>7, <2>1, <2>3, <2>4 DEF c, v
  <1>9. CASE i \in 1 .. n
    <2>1. r[i] = q[i] /\ c \in Nat /\ q[i].ok
      BY <1>2, <1>9
    <2>2. c <= w /\ 4 * old + l.tokens <= 4 * l.burst + l.limit * (w - c)
      BY <1>9, <2>1 DEF Tally, Token
    <2> DEFINE z == w - c
    <2>3. z \in Nat /\ v - c = won + z /\ c <= v
      <3> HIDE DEF w, c, v, won
      <3> QED BY <1>2, <1>3, <1>7, <2>1, <2>2
    <2>4. l.limit * (won + z) = l.limit * won + l.limit * z /\ l.limit * won \in Nat /\ l.limit * z \in Nat
      <3> DEFINE limit == l.limit
      <3>1. limit \in Nat /\ won \in Nat /\ z \in Nat
        BY <1>1, <1>3, <2>3
      <3> HIDE DEF won, z, limit
      <3>2. limit * won \in Nat /\ limit * z \in Nat
        BY <3>1
      <3>3. limit * (won + z) = limit * won + limit * z
        BY <3>1, Distributes
      <3> QED BY <3>2, <3>3 DEF limit
    <2>5. 4 * (old + one) + (funds - 4 * one) <= 4 * l.burst + (l.limit * won + l.limit * z)
      <3> DEFINE y == l.limit * won
                 x == l.limit * z
      <3>1. y \in Nat /\ x \in Nat /\ 4 * old + l.tokens <= 4 * l.burst + x /\ funds <= l.tokens + y /\ one \in Nat
        BY <1>3, <2>2, <2>4, SMTT(40)
      <3> HIDE DEF old, one, funds, x, y
      <3>2. 4 * (old + one) + (funds - 4 * one) <= 4 * l.burst + (y + x)
        BY <1>1, <1>3, <1>5, <3>1, Spending
      <3> QED BY <3>2 DEF x, y
    <2> HIDE DEF v, c, old, one, funds, won, z
    <2>6. 4 * (old + one) + m.tokens <= 4 * l.burst + l.limit * (v - c)
      BY <1>4, <2>3, <2>4, <2>5
    <2> QED BY <1>6, <1>7, <2>1, <2>3, <2>6 DEF v, c
  <1> QED BY <1>2, <1>8, <1>9

\* What the periods count, in numbers: of request i at time t, among n before this one.
LEMMA PeriodCounts ==
    ASSUME NEW i \in Nat, NEW n \in Nat, NEW now \in Nat, NEW t \in Nat, NEW start \in Nat,
           NEW seen \in Nat, NEW before \in Nat, NEW start2 \in Nat, NEW seen2 \in Nat, NEW before2 \in Nat,
           seen + before <= n, n > 0 => seen > 0,
           \/ /\ i >= 1 /\ i <= n /\ t < start + 2
              /\ (i <= n - seen) => (t < start)
              /\ (i <= n - seen - before) => (t < start - 2)
           \/ i = n + 1 /\ t = now,
           \/ /\ now - start >= 2 /\ start2 = now /\ seen2 = 1
              /\ \/ before2 = seen
                 \/ before2 = 0 /\ (n = 0 \/ now >= start + 4)
           \/ now - start < 2 /\ start2 = start /\ seen2 = seen + 1 /\ before2 = before
    PROVE  /\ seen2 > 0 /\ seen2 + before2 <= n + 1
           /\ t < start2 + 2
           /\ (i <= (n + 1) - seen2) => (t < start2)
           /\ (i <= (n + 1) - seen2 - before2) => (t < start2 - 2)
  OBVIOUS

LEMMA TallyPeriods ==
    ASSUME NEW l \in Limiters, NEW q \in Seq(Requests), NEW now \in Nat, Tally(l, q),
           NEW i \in 1 .. Len(q) + 1
    PROVE  LET m == allowOne(l, now)
               n == Len(q)
               t == Append(q, Ask(l, q, now))[i].t
           IN  /\ m.seen > 0 /\ m.seen + m.prevSeen <= n + 1
               /\ t < m.prevTime + 2
               /\ (i <= (n + 1) - m.seen) => (t < m.prevTime)
               /\ (i <= (n + 1) - m.seen - m.prevSeen) => (t < m.prevTime - 2)
  <1> DEFINE n == Len(q)
             m == allowOne(l, now)
             follows == (now - l.prevTime) \div Second = 1 /\ l.seen > 0
             r == Append(q, Ask(l, q, now))
             t == r[i].t
  <1>1. n \in Nat /\ l.tokens <= Token * l.burst /\ l.seen + l.prevSeen <= n /\ (n > 0 => l.seen > 0)
    BY DEF Tally
  <1>2. l.seen \in Nat /\ l.prevSeen \in Nat /\ l.prevTime \in Nat
    BY DEF Limiters
  <1>3. /\ now - l.prevTime >= Second =>
             m.prevTime = now /\ m.seen = 1 /\ m.prevSeen = IF follows THEN l.seen ELSE 0
        /\ ~(now - l.prevTime >= Second) =>
             m.prevTime = l.prevTime /\ m.seen = l.seen + 1 /\ m.prevSeen = l.prevSeen
    BY <1>1, AllowOneFields
  <1>4. m.seen \in Nat /\ m.prevSeen \in Nat /\ m.prevTime \in Nat
    <2>1. m \in Limiters
      BY <1>1, AllowOneFields
    <2> QED BY <2>1 DEF Limiters
  <1>5. \/ /\ now - l.prevTime >= 2 /\ m.prevTime = now /\ m.seen = 1
           /\ \/ m.prevSeen = l.seen
              \/ m.prevSeen = 0 /\ (n = 0 \/ now >= l.prevTime + 4)
        \/ now - l.prevTime < 2 /\ m.prevTime = l.prevTime /\ m.seen = l.seen + 1 /\ m.prevSeen = l.prevSeen
    <2>1. now - l.prevTime >= 2 /\ ~follows => n = 0 \/ now >= l.prevTime + 4
      BY <1>1, <1>2, SMTT(40) DEF Second
    <2>2. CASE now - l.prevTime >= 2
      BY <1>3, <2>1, <2>2 DEF Second
    <2>3. CASE ~(now - l.prevTime >= 2)
      BY <1>2, <1>3, <2>3 DEF Second
    <2> QED BY <2>2, <2>3
  <1>6. /\ r[n + 1].t = now
        /\ \A k \in 1 .. n : r[k] = q[k] /\ q[k] \in Requests
    BY <1>1, Asking
  <1> HIDE DEF r
  <1>7. /\ t \in Nat
        /\ \/ /\ i >= 1 /\ i <= n /\ t < l.prevTime + 2
              /\ (i <= n - l.seen) => (t < l.prevTime)
              /\ (i <= n - l.seen - l.prevSeen) => (t < l.prevTime - 2)
           \/ i = n + 1 /\ t = now
    <2>1. CASE i \in 1 .. n
      <3>1. q[i] \in Requests /\ t = q[i].t
        BY <1>6, <2>1
      <3>2. q[i].t \in Nat
        BY <3>1 DEF Requests
      <3>3. /\ q[i].t < l.prevTime + 2
            /\ (i <= n - l.seen) => (q[i].t < l.prevTime)
            /\ (i <= n - l.seen - l.prevSeen) => (q[i].t < l.prevTime - 2)
        BY <2>1, SMTT(40) DEF Tally, Second
      <3> QED BY <2>1, <3>1, <3>2, <3>3, SMTT(40)
    <2>2. CASE i = n + 1
      BY <1>6, <2>2
    <2> QED BY <1>1, <2>1, <2>2
  <1>8. i \in Nat
    BY <1>1
  <1> HIDE DEF n, m, t, follows
  <1>9. /\ m.seen > 0 /\ m.seen + m.prevSeen <= n + 1
        /\ t < m.prevTime + 2
        /\ (i <= (n + 1) - m.seen) => (t < m.prevTime)
        /\ (i <= (n + 1) - m.seen - m.prevSeen) => (t < m.prevTime - 2)
    <2> DEFINE a == l.prevTime
               b == l.seen
               c == l.prevSeen
               d == m.prevTime
               e == m.seen
               f == m.prevSeen
    <2>1. i \in Nat /\ n \in Nat /\ t \in Nat /\ a \in Nat /\ b \in Nat /\ c \in Nat /\ d \in Nat /\ e \in Nat /\ f \in Nat
      BY <1>1, <1>2, <1>4, <1>7, <1>8
    <2>2. b + c <= n /\ (n > 0 => b > 0)
      BY <1>1
    <2>3. \/ /\ i >= 1 /\ i <= n /\ t < a + 2
             /\ (i <= n - b) => (t < a)
             /\ (i <= n - b - c) => (t < a - 2)
          \/ i = n + 1 /\ t = now
      BY <1>7
    <2>4. \/ /\ now - a >= 2 /\ d = now /\ e = 1
             /\ \/ f = b
                \/ f = 0 /\ (n = 0 \/ now >= a + 4)
          \/ now - a < 2 /\ d = a /\ e = b + 1 /\ f = c
      BY <1>5
    <2> HIDE DEF a, b, c, d, e, f
    <2>5. /\ e > 0 /\ e + f <= n + 1
          /\ t < d + 2
          /\ (i <= (n + 1) - e) => (t < d)
          /\ (i <= (n + 1) - e - f) => (t < d - 2)
      BY <2>1, <2>2, <2>3, <2>4, PeriodCounts
    <2> QED BY <2>5 DEF a, b, c, d, e, f
  <1> QED BY <1>9 DEF n, m, t, r

\* The requests that passed are counted in the right period.
LEMMA TallyPassed ==
    ASSUME NEW l \in Limiters, NEW q \in Seq(Requests), NEW now \in Nat, Tally(l, q)
    PROVE  LET m == allowOne(l, now)
               n == Len(q) + 1
               r == Append(q, Ask(l, q, now))
           IN  /\ m.allowed = Cardinality(Passed(r, n - m.seen + 1, n))
               /\ m.prevAllowed = Cardinality(Passed(r, n - m.seen - m.prevSeen + 1, n - m.seen))
  <1> DEFINE n == Len(q)
             e == Ask(l, q, now)
             r == Append(q, e)
             m == allowOne(l, now)
             one == One(l, now)
             follows == (now - l.prevTime) \div Second = 1 /\ l.seen > 0
             first == n - l.seen
             older == n - l.seen - l.prevSeen
  <1>1. /\ n \in Nat /\ l.tokens <= Token * l.burst /\ l.seen \in Nat /\ l.prevSeen \in Nat
        /\ l.seen + l.prevSeen <= n
    BY DEF Tally, Limiters
  <1>2. e \in Requests /\ e.ok = Allows(l, now)
    BY <1>1, Asking
  <1>3. l.allowed = Cardinality(Passed(q, first + 1, n)) /\ l.prevAllowed = Cardinality(Passed(q, older + 1, first))
    BY DEF Tally
  <1>4. \A k \in 1 .. n + 1 : Cardinality(Passed(r, k, n + 1)) = Cardinality(Passed(q, k, n)) + one
    BY <1>2, PassedGrows DEF One
  <1>5. \A j, k \in Int : j >= 1 /\ k <= n => Passed(r, j, k) = Passed(q, j, k)
    BY <1>2, PassedKept
  <1>6. one \in Nat /\ l.allowed \in Nat
    <2>1. one \in {0, 1}
      BY <1>1, RefillBounds
    <2>2. l.allowed \in Nat
      BY DEF Limiters
    <2> QED BY <2>1, <2>2
  <1>7. first \in Int /\ older \in Int /\ first \in 0 .. n /\ older \in 0 .. n /\ older <= first
    BY <1>1
  <1>8. Cardinality(Passed(q, n + 1, n)) = 0 /\ Cardinality(Passed(r, n + 1, n)) = 0
    BY <1>1, PassedNone
  <1>9. /\ now - l.prevTime >= Second =>
             /\ m.seen = 1 /\ m.allowed = one
             /\ m.prevSeen = IF follows THEN l.seen ELSE 0
             /\ m.prevAllowed = IF follows THEN l.allowed ELSE 0
        /\ ~(now - l.prevTime >= Second) =>
             /\ m.seen = l.seen + 1 /\ m.allowed = l.allowed + one
             /\ m.prevSeen = l.prevSeen /\ m.prevAllowed = l.prevAllowed
    BY <1>1, AllowOneFields
  <1> HIDE DEF r, e, m, one, n, follows
  <1>10. CASE now - l.prevTime >= Second
    <2>1. (n + 1) - m.seen + 1 = n + 1 /\ (n + 1) - m.seen = n /\ m.allowed = one
      BY <1>1, <1>9, <1>10
    <2>2. Cardinality(Passed(r, n + 1, n + 1)) = one
      <3>1. n + 1 \in 1 .. n + 1
        BY <1>1
      <3> QED BY <1>4, <1>6, <1>8, <3>1
    <2>3. m.prevAllowed = Cardinality(Passed(r, (n + 1) - m.seen - m.prevSeen + 1, n))
      <3>1. CASE follows
        <4>1. (n + 1) - m.seen - m.prevSeen + 1 = first + 1 /\ m.prevAllowed = l.allowed
          BY <1>1, <1>9, <1>10, <3>1, SMTT(40)
        <4>2. Passed(r, first + 1, n) = Passed(q, first + 1, n)
          BY <1>1, <1>5, <1>7
        <4> QED BY <1>3, <4>1, <4>2
      <3>2. CASE ~follows
        <4>1. (n + 1) - m.seen - m.prevSeen + 1 = n + 1 /\ m.prevAllowed = 0
          BY <1>1, <1>9, <1>10, <3>2
        <4> QED BY <1>8, <4>1
      <3> QED BY <3>1, <3>2
    <2> QED BY <2>1, <2>2, <2>3 DEF n, m, r, e
  <1>11. CASE ~(now - l.prevTime >= Second)
    <2>1. /\ m.allowed = l.allowed + one /\ m.prevAllowed = l.prevAllowed
          /\ m.seen = l.seen + 1 /\ m.prevSeen = l.prevSeen
      BY <1>9, <1>11
    <2>2. /\ (n + 1) - m.seen = first
          /\ (n + 1) - m.seen - m.prevSeen + 1 = older + 1
      <3> DEFINE a == l.seen
                 b == l.prevSeen
      <3>1. a \in Nat /\ b \in Nat /\ m.seen = a + 1 /\ m.prevSeen = b /\ first = n - a /\ older = n - a - b
        BY <1>1, <2>1
      <3> HIDE DEF a, b, first, older
      <3>2. (n + 1) - (a + 1) = n - a /\ (n + 1) - (a + 1) - b + 1 = (n - a - b) + 1
        BY <1>1, <3>1, Places
      <3> QED BY <3>1, <3>2
    <2> HIDE DEF first, older
    <2>3. first + 1 \in 1 .. n + 1 /\ older + 1 \in Int /\ older + 1 >= 1 /\ first <= n
      BY <1>1, <1>7
    <2>4. Cardinality(Passed(r, first + 1, n + 1)) = l.allowed + one
      BY <1>3, <1>4, <2>3
    <2>5. Passed(r, older + 1, first) = Passed(q, older + 1, first)
      BY <1>5, <1>7, <2>3
    <2> QED BY <1>3, <2>1, <2>2, <2>4, <2>5 DEF n, m, r, e
  <1> QED BY <1>10, <1>11

LEMMA TallyIs ==
    ASSUME NEW l, NEW q, NEW n, Len(q) = n, NEW w, l.last + Back(q) = w,
           l.tokens <= Token * l.burst, l.seen + l.prevSeen <= n, l.seen > 0,
           \A i \in 1 .. n :
             /\ q[i].t < l.prevTime + Second
             /\ (i <= n - l.seen) => (q[i].t < l.prevTime)
             /\ (i <= n - l.seen - l.prevSeen) => (q[i].t < l.prevTime - Second),
           \A i \in 1 .. n : q[i].ok =>
             /\ Clocked(q[i]) <= w
             /\ Token * Cardinality(Passed(q, i, n)) + l.tokens <= Token * l.burst + l.limit * (w - Clocked(q[i])),
           l.allowed = Cardinality(Passed(q, n - l.seen + 1, n)),
           l.prevAllowed = Cardinality(Passed(q, n - l.seen - l.prevSeen + 1, n - l.seen)),
           \A i, j \in 1 .. n : i <= j /\ q[i].ok /\ q[j].ok =>
             Token * Cardinality(Passed(q, i, j)) <= Token * l.burst + l.limit * (Clocked(q[j]) - Clocked(q[i]))
    PROVE  Tally(l, q)
  BY Zenon DEF Tally

\* One request keeps the tally.
LEMMA TallyStep ==
    ASSUME NEW l \in Limiters, NEW q \in Seq(Requests), NEW now \in Nat, Tally(l, q)
    PROVE  Tally(allowOne(l, now), Append(q, Ask(l, q, now)))
  <1> DEFINE n == Len(q)
             e == Ask(l, q, now)
             r == Append(q, e)
             m == allowOne(l, now)
             v == m.last + Back(r)
  <1>1. n \in Nat /\ l.tokens <= Token * l.burst /\ l.limit \in Nat /\ l.burst \in Nat
    BY DEF Tally, Limiters
  <1>2. /\ m \in Limiters /\ m.limit = l.limit /\ m.burst = l.burst
        /\ m.tokens = Funds(l, now) - 4 * One(l, now)
    BY <1>1, AllowOneFields
  <1>3. /\ e \in Requests /\ e.ok = Allows(l, now) /\ Len(r) = n + 1 /\ r[n + 1] = e
        /\ \A i \in 1 .. n : r[i] = q[i]
        /\ Allows(l, now) => Clocked(e) = v
    BY <1>1, Asking
  <1>4. m.tokens <= 4 * l.burst /\ m.tokens \in Nat
    <2>1. Funds(l, now) \in Nat /\ Funds(l, now) <= 4 * l.burst /\ One(l, now) \in {0, 1}
      BY <1>1, RefillBounds
    <2>2. m.tokens \in Nat
      BY <1>2 DEF Limiters
    <2> HIDE DEF m
    <2> QED BY <1>1, <1>2, <2>1, <2>2
  <1>5. m.seen > 0 /\ m.seen + m.prevSeen <= n + 1
    <2>1. 1 \in 1 .. n + 1
      BY <1>1
    <2> QED BY <2>1, TallyPeriods
  <1>6. ASSUME NEW i \in 1 .. n + 1
        PROVE  /\ r[i].t < m.prevTime + 2
               /\ (i <= (n + 1) - m.seen) => (r[i].t < m.prevTime)
               /\ (i <= (n + 1) - m.seen - m.prevSeen) => (r[i].t < m.prevTime - 2)
    BY TallyPeriods
  <1>7. ASSUME NEW i \in 1 .. n + 1, r[i].ok
        PROVE  /\ v \in Nat /\ Clocked(r[i]) \in Nat /\ Clocked(r[i]) <= v
               /\ 4 * Cardinality(Passed(r, i, n + 1)) + m.tokens <= 4 * l.burst + l.limit * (v - Clocked(r[i]))
    BY <1>7, TallySpent
  <1>8. /\ m.allowed = Cardinality(Passed(r, (n + 1) - m.seen + 1, n + 1))
        /\ m.prevAllowed = Cardinality(Passed(r, (n + 1) - m.seen - m.prevSeen + 1, (n + 1) - m.seen))
    BY TallyPassed
  <1>9. ASSUME NEW i \in 1 .. n + 1, NEW j \in 1 .. n + 1, i <= j, r[i].ok, r[j].ok
        PROVE  4 * Cardinality(Passed(r, i, j)) <= 4 * l.burst + l.limit * (Clocked(r[j]) - Clocked(r[i]))
    <2>1. CASE j = n + 1
      <3>1. Cardinality(Passed(r, i, j)) \in Nat
        BY PassedFinite
      <3>2. Clocked(r[j]) = v
        BY <1>3, <1>9, <2>1
      <3>3. /\ v \in Nat /\ Clocked(r[i]) \in Nat /\ Clocked(r[i]) <= v
            /\ 4 * Cardinality(Passed(r, i, j)) + m.tokens <= 4 * l.burst + l.limit * (v - Clocked(r[i]))
        BY <1>7, <1>9, <2>1
      <3> DEFINE c == Cardinality(Passed(r, i, j))
                 a == Clocked(r[i])
                 x == l.limit * (v - a)
      <3> HIDE DEF v, a, c
      <3>4. x \in Nat
        BY <1>1, <3>3, Products DEF a
      <3>5. 4 * c <= 4 * l.burst + x
        <4>1. c \in Nat /\ 4 * c + m.tokens <= 4 * l.burst + x
          BY <3>1, <3>3 DEF a, c
        <4> HIDE DEF x, m
        <4> QED BY <1>1, <1>4, <3>4, <4>1, SMTT(40)
      <3> QED BY <3>2, <3>5 DEF a, c
    <2>2. CASE j # n + 1
      <3>1. i \in 1 .. n /\ j \in 1 .. n /\ r[i] = q[i] /\ r[j] = q[j]
        BY <1>1, <1>3, <1>9, <2>2
      <3>2. Passed(r, i, j) = Passed(q, i, j)
        BY <1>3, <3>1, PassedKept
      <3>3. 4 * Cardinality(Passed(q, i, j)) <= 4 * l.burst + l.limit * (Clocked(q[j]) - Clocked(q[i]))
        BY <1>9, <3>1 DEF Tally, Token
      <3> QED BY <3>1, <3>2, <3>3
    <2> QED BY <2>1, <2>2
  <1> HIDE DEF m, r, n, e, v
  <1>10. Tally(m, r)
    <2>1. \A i \in 1 .. n + 1 :
             /\ r[i].t < m.prevTime + Second
             /\ (i <= (n + 1) - m.seen) => (r[i].t < m.prevTime)
             /\ (i <= (n + 1) - m.seen - m.prevSeen) => (r[i].t < m.prevTime - Second)
      BY <1>6, Zenon DEF Second
    <2>2. \A i \in 1 .. n + 1 : r[i].ok =>
             /\ Clocked(r[i]) <= v
             /\ Token * Cardinality(Passed(r, i, n + 1)) + m.tokens <= Token * m.burst + m.limit * (v - Clocked(r[i]))
      BY <1>2, <1>7, Zenon DEF Token
    <2>3. \A i, j \in 1 .. n + 1 : i <= j /\ r[i].ok /\ r[j].ok =>
             Token * Cardinality(Passed(r, i, j)) <= Token * m.burst + m.limit * (Clocked(r[j]) - Clocked(r[i]))
      BY <1>2, <1>9, Zenon DEF Token
    <2>4. m.tokens <= Token * m.burst
      BY <1>2, <1>4 DEF Token
    <2>5. m.last + Back(r) = v
      BY DEF v
    <2> QED BY <1>3, <1>5, <1>8, <2>1, <2>2, <2>3, <2>4, <2>5, TallyIs, Zenon
  <1> QED BY <1>10 DEF m, r, e

\* A new limiter has a tally of nothing.
LEMMA TallyNew ==
    ASSUME NEW limit \in Nat
    PROVE  LET l == newRateLimiter(limit, 0)
           IN  l \in Limiters /\ l.limit = limit /\ l.tokens <= Token * l.burst /\ Tally(l, <<>>)
  <1>1. Cardinality(Passed(<<>>, 1, 0)) = 0
    BY PassedNone
  <1> DEFINE burst == (limit + 1) \div 2
             l == newRateLimiter(limit, 0)
  <1>2. burst \in Nat /\ 4 * burst \in Nat
    OBVIOUS
  <1>3. l = [limit |-> limit, burst |-> burst, tokens |-> 4 * burst, last |-> 0,
             prevTime |-> 0, allowed |-> 0, seen |-> 0, prevAllowed |-> 0, prevSeen |-> 0]
    BY DEF newRateLimiter, Token
  <1> HIDE DEF burst, l
  <1>4. l \in Limiters /\ l.limit = limit
    BY <1>2, <1>3 DEF Limiters
  <1>5. l.tokens <= Token * l.burst
    BY <1>2, <1>3 DEF Token
  <1>6. Tally(l, <<>>)
    <2>1. /\ Len(<<>>) = 0 /\ 1 .. 0 = {} /\ l.seen = 0 /\ l.prevSeen = 0 /\ l.allowed = 0 /\ l.prevAllowed = 0
          /\ 0 - 0 = 0 /\ 0 - 0 + 1 = 1 /\ 0 - 0 - 0 + 1 = 1 /\ 0 + 0 <= 0 /\ ~(0 > 0)
      BY <1>3
    <2> QED BY <1>1, <1>5, <2>1, Zenon DEF Tally
  <1> QED BY <1>4, <1>5, <1>6 DEF l

\* The tally is what the counts of the limiter say.
LEMMA TallyCounts ==
    ASSUME TypeOK, LimiterInv
    PROVE  LimiterCounts
  <1> DEFINE l == tracer[1].limiter
             q == asked
             n == Len(asked)
             first == n - l.seen
             older == first - l.prevSeen
  <1>1. l \in Limiters /\ q \in Seq(Requests) /\ n \in Nat
    BY DistributedAssumption DEF TypeOK, IsTracer
  <1>2. l.seen \in Nat /\ l.prevSeen \in Nat /\ l.prevTime \in Nat
    BY <1>1 DEF Limiters
  <1>3. Tally(l, q)
    BY DEF LimiterInv
  <1>4. older >= 0
    <2>1. l.seen + l.prevSeen <= n
      BY <1>3 DEF Tally
    <2> HIDE DEF l, n
    <2> QED BY <1>1, <1>2, <2>1
  <1>5. \A k \in 1 .. n : /\ (k <= first) => (q[k].t < l.prevTime)
                          /\ (k <= older) => (q[k].t < l.prevTime - 2)
    BY <1>3 DEF Tally, Second
  <1>6. l.allowed = Cardinality(Passed(q, first + 1, n)) /\ l.prevAllowed = Cardinality(Passed(q, older + 1, first))
    BY <1>3 DEF Tally
  <1>7. \A i, j \in 1 .. n : i <= j /\ q[i].ok /\ q[j].ok =>
             Token * Cardinality(Passed(q, i, j)) <= Token * l.burst + l.limit * (Clocked(q[j]) - Clocked(q[i]))
    BY <1>3 DEF Tally
  <1>8. ASSUME NEW k \in 1 .. n
        PROVE  (q[k].t >= l.prevTime => k > first) /\ (q[k].t >= l.prevTime - 2 => k > older)
    <2>1. q[k].t \in Nat
      <3>1. q[k] \in Requests
        BY <1>1
      <3> QED BY <3>1 DEF Requests
    <2>2. (k <= first => q[k].t < l.prevTime) /\ (k <= older => q[k].t < l.prevTime - 2)
      BY <1>5
    <2>3. first \in Int /\ older \in Int /\ k \in Int
      BY <1>1, <1>2, SMTT(40)
    <2> HIDE DEF l, q, n, first, older
    <2> QED BY <1>2, <2>1, <2>2, <2>3
  <1> QED BY <1>4, <1>6, <1>7, <1>8, Zenon DEF LimiterCounts, Second

-----------------------------------------------------------------------------
(* Propagation: lengths of headers, and the first extractor that ends the  *)
(* search.                                                                 *)

LEMMA LeastOf ==
    ASSUME NEW S \in SUBSET Nat, S # {}
    PROVE  Min(S) \in S /\ \A y \in S : Min(S) <= y
  <1> DEFINE R == OpToRel(<, Nat)
  <1>1. \E x \in S : \A y \in S : ~(<<y, x>> \in R)
    <2>1. IsWellFoundedOn(R, Nat)
      BY NatLessThanWellFounded
    <2> HIDE DEF R
    <2> QED BY <2>1, WFMin
  <1>2. \A x, y \in Nat : y < x => <<y, x>> \in R
    BY DEF OpToRel
  <1>3. \E x \in S : \A y \in S : x <= y
    <2>1. PICK x \in S : \A y \in S : ~(<<y, x>> \in R)
      BY <1>1
    <2>2. \A y \in S : ~(y < x)
      BY <1>2, <2>1
    <2> QED BY <2>2
  <1> QED BY <1>3 DEF Min

LEMMA CharactersFinite ==
    ASSUME NEW tags \in SUBSET Tags
    PROVE  IsFiniteSet(tags) /\ IsFiniteSet(Characters(tags))
  <1> DEFINE Word(t) == {t} \X (1 .. TagLen[t])
             words == {Word(t) : t \in tags}
             spell == [t \in tags |-> Word(t)]
  <1>1. IsFiniteSet(tags)
    BY PropagationAssumption, FS_Subset
  <1>2. spell \in Surjection(tags, words)
    BY DEF Surjection
  <1>3. IsFiniteSet(words)
    <2> HIDE DEF spell, words
    <2> QED BY <1>1, <1>2, FS_Surjection
  <1>4. ASSUME NEW t \in tags PROVE IsFiniteSet(Word(t))
    <2>1. IsFiniteSet(1 .. TagLen[t])
      BY PropagationAssumption, FS_Interval
    <2>2. IsFiniteSet({t})
      BY FS_Singleton
    <2> QED BY <2>1, <2>2, FS_Product
  <1>5. \A w \in words : IsFiniteSet(w)
    <2> HIDE DEF Word
    <2> QED BY <1>4
  <1>6. IsFiniteSet(UNION words)
    <2> HIDE DEF words
    <2> QED BY <1>3, <1>5, FS_UNION
  <1> QED BY <1>1, <1>6 DEF Characters

LEMMA HeaderLength ==
    ASSUME NEW tags \in SUBSET Tags
    PROVE  HeaderLen(tags) \in Nat /\ (tags # {} => HeaderLen(tags) > 0)
  <1> DEFINE c == Cardinality(Characters(tags))
             n == Cardinality(tags)
  <1>1. c \in Nat /\ n \in Nat /\ (tags # {} => n # 0)
    BY CharactersFinite, FS_CardinalityType, FS_EmptySet
  <1>2. HeaderLen(tags) = IF tags = {} THEN 0 ELSE c + 2 * n - 1
    BY DEF HeaderLen
  <1> HIDE DEF c, n
  <1> QED BY <1>1, <1>2

LEMMA Marshalled ==
    ASSUME NEW tags \in SUBSET Tags, NEW max \in Nat
    PROVE  LET good == tags \ BadTags
               got  == marshalPropagatingTags(tags, max)
           IN  /\ got \in {good, {}} /\ got \in SUBSET Tags /\ HeaderLen(got) \in Nat
               /\ HeaderLen(good) <= max => got = good
               /\ HeaderLen(good) > max + 2 => got = {}
               /\ HeaderLen(got) <= max + 2
  <1> DEFINE good == tags \ BadTags
             got  == marshalPropagatingTags(tags, max)
             n == HeaderLen(good)
  <1>1. good \in SUBSET Tags /\ n \in Nat /\ (good # {} => n > 0)
    BY HeaderLength
  <1>2. HeaderLen({}) = 0
    BY DEF HeaderLen
  <1>3. (n <= max => ~TooLong(good, max)) /\ (good # {} /\ ~TooLong(good, max) => n <= max + 2)
    <2> HIDE DEF good, n
    <2> QED BY <1>1 DEF TooLong, n
  <1>4. got = IF max = 0 \/ TooLong(good, max) THEN {} ELSE good
    BY DEF marshalPropagatingTags
  <1> HIDE DEF good, got
  <1>5. n <= max => got = good
    BY <1>1, <1>3, <1>4
  <1>6. n > max + 2 => got = {}
    BY <1>1, <1>2, <1>3, <1>4
  <1>7. HeaderLen(got) <= max + 2 /\ HeaderLen(got) \in Nat
    <2>1. CASE got = {}
      BY <1>2, <2>1
    <2>2. CASE got # {}
      BY <1>1, <1>3, <1>4, <2>2
    <2> QED BY <2>1, <2>2
  <1>8. got \in {good, {}} /\ got \in SUBSET Tags
    BY <1>1, <1>4
  <1> QED BY <1>5, <1>6, <1>7, <1>8 DEF good, got

LEMMA MaxLength ==
    ASSUME NEW env \in Int
    PROVE  MaxTagsHeaderLen(env) \in Nat /\ MaxTagsHeaderLen(env) <= PropagationExtractMaxSize
  BY PropagationAssumption DEF MaxTagsHeaderLen

LEMMA Propagators ==
    ASSUME NEW b3 \in BOOLEAN, NEW env \in Seq(STRING)
    PROVE  getPropagators(b3, env) \in Seq({"datadog", "b3", "none"})
  <1> DEFINE S == {"datadog", "b3", "none"}
             list == [i \in DOMAIN env |-> Named(b3, env[i])]
             flag == IF b3 THEN <<"b3">> ELSE <<>>
  <1>1. list \in Seq(S)
    <2>1. list \in [1 .. Len(env) -> S]
      BY DEF Named
    <2> HIDE DEF list
    <2> QED BY <2>1
  <1>2. flag \in Seq(S) /\ <<"datadog">> \in Seq(S)
    <2>1. <<"datadog">> \in [1 .. 1 -> S] /\ <<"b3">> \in [1 .. 1 -> S]
      OBVIOUS
    <2>2. <<"datadog">> \in Seq(S) /\ <<"b3">> \in Seq(S) /\ <<>> \in Seq(S)
      <3> HIDE DEF S
      <3> QED BY <2>1, SeqDef, EmptySeq
    <2> HIDE DEF S
    <2> QED BY <2>2
  <1>3. getPropagators(b3, env) \in {<<"datadog">> \o flag, flag \o list}
    BY DEF getPropagators
  <1>4. getPropagators(b3, env) \in Seq(S)
    <2> HIDE DEF S, list, flag
    <2> QED BY <1>1, <1>2, <1>3, ConcatProperties
  <1> QED BY <1>4

LEMMA Reset ==
    ASSUME NEW tags \in SUBSET Tags, NEW p \in Int, NEW who
    PROVE  /\ setSamplingPriority(tags, p, who) \in SUBSET Tags
           /\ keyDecisionMaker \in setSamplingPriority(tags, p, who) => p > 0
           /\ who = "unknown" =>
                setSamplingPriority(tags, p, who) \in {tags, tags \ {keyDecisionMaker}}
  BY PropagationAssumption DEF setSamplingPriority

LEMMA InjectTyped ==
    ASSUME NEW c \in Contexts, NEW max \in Nat
    PROVE  InjectDatadog(c, max) \in DatadogHeaders /\ InjectB3(c) \in B3Headers
  <1> DEFINE got == marshalPropagatingTags(c.tags, max)
  <1>1. /\ c.id \in Int /\ c.span \in Int /\ c.priority \in Decisions /\ c.origin \in Origins
        /\ c.baggage \in BOOLEAN /\ c.tags \in SUBSET Tags
    BY DEF Contexts
  <1>2. got \in SUBSET Tags /\ HeaderLen(got) \in Nat
    BY <1>1, Marshalled
  <1> HIDE DEF got
  <1>3. InjectDatadog(c, max) \in DatadogHeaders
    BY <1>1, <1>2 DEF InjectDatadog, DatadogHeaders, got
  <1>4. InjectB3(c) \in B3Headers
    BY <1>1 DEF InjectB3, B3Headers, Decisions
  <1> QED BY <1>3, <1>4

\* What is extracted in one style.
LEMMA DatadogRead ==
    ASSUME NEW h \in DatadogHeaders, h.id # 0, h.parent # 0 \/ h.origin = "synthetics", h # Absent,
           NEW c \in ExtractDatadog(h)
    PROVE  /\ c \in Contexts /\ c.id = h.id /\ c.span = h.parent /\ c.priority = h.priority
           /\ c.origin = h.origin /\ c.baggage = h.baggage /\ c.tags \in TagOrders(h) /\ ~c.drop
  <1>1. /\ h.id \in Int /\ h.parent \in Int /\ h.priority \in Decisions /\ h.origin \in Origins
        /\ h.baggage \in BOOLEAN /\ h.tags \in SUBSET Tags
    BY DEF DatadogHeaders
  <1>2. PICK tags \in TagOrders(h) :
           c = [id |-> h.id, span |-> h.parent, priority |-> h.priority, origin |-> h.origin,
                baggage |-> h.baggage, tags |-> tags, drop |-> FALSE,
                failed |-> h.len > PropagationExtractMaxSize \/ ~h.sound]
    BY DEF ExtractDatadog
  <1>3. Unmarshalled(h) \in SUBSET Tags
    BY <1>1 DEF Unmarshalled
  <1>4. tags \in SUBSET Tags
    BY <1>1, <1>3, Reset DEF TagOrders, Decisions
  <1> QED BY <1>1, <1>2, <1>4 DEF Contexts

LEMMA B3Read ==
    ASSUME NEW h \in B3Headers, h.id # 0, h.parent # 0, h # Absent, NEW c \in ExtractB3(h)
    PROVE  /\ c \in Contexts /\ c.id = h.id /\ c.span = h.parent /\ c.priority = h.priority
           /\ c.tags = {} /\ ~c.baggage /\ ~c.drop
  <1>1. h.id \in Int /\ h.parent \in Int /\ h.priority \in Decisions
    BY DEF B3Headers
  <1>2. c = [id |-> h.id, span |-> h.parent, priority |-> h.priority, origin |-> "", baggage |-> FALSE,
             tags |-> {}, failed |-> FALSE, drop |-> FALSE]
    BY DEF ExtractB3
  <1>3. "" \in Origins
    BY DEF Origins
  <1>4. c \in Contexts
    BY <1>1, <1>2, <1>3 DEF Contexts
  <1> QED BY <1>2, <1>4

\* What a service extracts is nothing or a context that headers can carry.
LEMMA ExtractTyped ==
    ASSUME NEW styles, NEW cc \in Carriers, NEW c \in Extract(styles, cc)
    PROVE  c = NoContext \/ (Valid(c) /\ ~c.drop)
  <1> SUFFICES ASSUME c # NoContext PROVE Valid(c) /\ ~c.drop
    OBVIOUS
  <1>1. cc.dd \in DatadogHeaders \cup {Absent} /\ cc.b3 \in B3Headers \cup {Absent}
    BY DEF Carriers
  <1>2. PICK style : ~Corrupted(style, cc) /\ c \in ExtractStyle(style, cc)
    BY DEF Extract
  <1>3. CASE style = "datadog"
    <2>1. c \in ExtractDatadog(cc.dd)
      BY <1>2, <1>3 DEF ExtractStyle
    <2>2. cc.dd # Absent /\ cc.dd.id # 0 /\ (cc.dd.parent # 0 \/ cc.dd.origin = "synthetics")
      BY <2>1 DEF ExtractDatadog
    <2>3. c \in Contexts /\ c.id = cc.dd.id /\ ~c.drop
      BY <1>1, <2>1, <2>2, DatadogRead
    <2> QED BY <1>2, <1>3, <2>2, <2>3 DEF Corrupted, Valid
  <1>4. CASE style = "b3"
    <2>1. c \in ExtractB3(cc.b3)
      BY <1>2, <1>4 DEF ExtractStyle
    <2>2. cc.b3 # Absent /\ cc.b3.id # 0 /\ cc.b3.parent # 0
      BY <2>1 DEF ExtractB3
    <2>3. c \in Contexts /\ c.id = cc.b3.id /\ ~c.drop
      BY <1>1, <2>1, <2>2, B3Read
    <2> QED BY <1>2, <1>4, <2>2, <2>3 DEF Corrupted, Valid
  <1>5. CASE style # "datadog" /\ style # "b3"
    BY <1>2, <1>5 DEF ExtractStyle
  <1> QED BY <1>3, <1>4, <1>5

\* The places of the extractors that read what the injectors wrote.
Both(inj, ext) == {i \in DOMAIN ext : ext[i] \in inj \ {"none"}}

\* The context that was injected is found, in the first style that the two share.
LEMMA ExtractInjected ==
    ASSUME NEW c, Valid(c), c.span > 0, NEW max \in Nat, NEW inj,
           NEW ext \in Seq({"datadog", "b3", "none"})
    PROVE  LET both == Both(inj, ext)
               cc   == Inject(inj, c, max)
           IN  /\ both = {} => Extract(ext, cc) = {NoContext}
               /\ both # {} => /\ ext[Min(both)] \in {"datadog", "b3"}
                               /\ ext[Min(both)] = "datadog" => Extract(ext, cc) = ExtractDatadog(InjectDatadog(c, max))
                               /\ ext[Min(both)] = "b3" => Extract(ext, cc) = ExtractB3(InjectB3(c))
  <1> DEFINE both == {i \in DOMAIN ext : ext[i] \in inj \ {"none"}}
             cc   == Inject(inj, c, max)
             dd   == InjectDatadog(c, max)
             b3   == InjectB3(c)
             ending == {i \in DOMAIN ext : \/ Corrupted(ext[i], cc)
                                           \/ ExtractStyle(ext[i], cc) # {NoContext}}
  <1>1. c \in Contexts /\ c.id \in Int /\ c.id # 0 /\ c.id # Corrupt /\ c.span \in Int /\ c.span # 0
    BY DEF Valid, Contexts
  <1>2. dd # Absent /\ b3 # Absent /\ dd.id = c.id /\ b3.id = c.id /\ dd.parent = c.span /\ b3.parent = c.span
    BY <1>1, InjectTyped, AbsentAssumption DEF InjectDatadog, InjectB3
  <1>3. cc.dd = (IF "datadog" \in inj THEN dd ELSE Absent) /\ cc.b3 = (IF "b3" \in inj THEN b3 ELSE Absent)
    BY DEF Inject
  <1>4. ExtractDatadog(Absent) = {NoContext} /\ ExtractB3(Absent) = {NoContext}
    BY DEF ExtractDatadog, ExtractB3
  <1>5. ExtractDatadog(dd) # {NoContext} /\ ExtractB3(b3) # {NoContext}
    <2>1. dd \in DatadogHeaders /\ b3 \in B3Headers
      BY <1>1, InjectTyped
    <2> HIDE DEF dd, b3
    <2>2. \A x \in ExtractDatadog(dd) : x \in Contexts
      BY <1>1, <1>2, <2>1, DatadogRead
    <2>3. \A x \in ExtractB3(b3) : x \in Contexts
      BY <1>1, <1>2, <2>1, B3Read
    <2> QED BY <2>2, <2>3, AbsentAssumption
  <1> HIDE DEF dd, b3, cc
  <1>6. ASSUME NEW x \in {"datadog", "b3", "none"}
        PROVE  /\ ~Corrupted(x, cc)
               /\ (ExtractStyle(x, cc) # {NoContext}) <=> (x \in inj \ {"none"})
               /\ x = "datadog" /\ x \in inj => ExtractStyle(x, cc) = ExtractDatadog(dd)
               /\ x = "b3" /\ x \in inj => ExtractStyle(x, cc) = ExtractB3(b3)
    <2>1. ~Corrupted(x, cc)
      BY <1>1, <1>2, <1>3 DEF Corrupted
    <2>2. CASE x = "datadog"
      BY <2>1, <2>2, <1>3, <1>4, <1>5 DEF ExtractStyle
    <2>3. CASE x = "b3"
      BY <2>1, <2>3, <1>3, <1>4, <1>5 DEF ExtractStyle
    <2>4. CASE x = "none"
      BY <2>1, <2>4 DEF ExtractStyle
    <2> QED BY <2>2, <2>3, <2>4
  <1>7. \A i \in DOMAIN ext : ext[i] \in {"datadog", "b3", "none"}
    BY ElementOfSeq, LenProperties
  <1>8. ending = both
    BY <1>6, <1>7
  <1>9. both # {} => Min(both) \in both
    <2>1. both \in SUBSET Nat
      BY LenProperties
    <2> QED BY <2>1, LeastOf
  <1>10. Extract(ext, cc) = IF ending = {} \/ Corrupted(ext[Min(ending)], cc) THEN {NoContext}
                            ELSE ExtractStyle(ext[Min(ending)], cc)
    BY DEF Extract
  <1> HIDE DEF ending
  <1>11. both = {} => Extract(ext, cc) = {NoContext}
    BY <1>8, <1>10
  <1>12. ASSUME both # {}
         PROVE  LET x == ext[Min(both)]
                IN  /\ x \in {"datadog", "b3"}
                    /\ x = "datadog" => Extract(ext, cc) = ExtractDatadog(dd)
                    /\ x = "b3" => Extract(ext, cc) = ExtractB3(b3)
    <2> DEFINE x == ext[Min(both)]
    <2>1. x \in inj \ {"none"} /\ x \in {"datadog", "b3", "none"}
      BY <1>7, <1>9, <1>12
    <2>2. Extract(ext, cc) = IF Corrupted(x, cc) THEN {NoContext} ELSE ExtractStyle(x, cc)
      BY <1>8, <1>10, <1>12
    <2> HIDE DEF x
    <2>3. x \in {"datadog", "b3"} /\ Extract(ext, cc) = ExtractStyle(x, cc)
      BY <1>6, <2>1, <2>2
    <2> QED BY <1>6, <2>1, <2>3 DEF x
  <1> QED BY <1>11, <1>12 DEF dd, b3, cc, Both

LEMMA DatadogArrives ==
    ASSUME NEW s, Valid(s), s.span > 0, NEW max \in Nat, max <= PropagationExtractMaxSize,
           NEW c \in ExtractDatadog(InjectDatadog(s, max))
    PROVE  LET good == s.tags \ BadTags
           IN  /\ c \in Contexts /\ c.id = s.id /\ c.span = s.span /\ c.priority = s.priority
               /\ c.origin = s.origin /\ c.baggage = s.baggage
               /\ c.tags \in {good, good \ {keyDecisionMaker}, {}}
               /\ HeaderLen(good) <= max => good \ {keyDecisionMaker} \subseteq c.tags
               /\ HeaderLen(good) > max + 2 => c.tags = {}
               /\ InjectDatadog(s, max).len <= max + 2
  <1> DEFINE h == InjectDatadog(s, max)
             good == s.tags \ BadTags
             got  == marshalPropagatingTags(s.tags, max)
  <1>1. s \in Contexts /\ s.id # 0 /\ s.span # 0 /\ s.tags \in SUBSET Tags /\ s.priority \in Decisions
    BY DEF Valid, Contexts
  <1>2. h \in DatadogHeaders /\ h # Absent
    BY <1>1, InjectTyped, AbsentAssumption
  <1>3. /\ h.id = s.id /\ h.parent = s.span /\ h.priority = s.priority /\ h.origin = s.origin
        /\ h.baggage = s.baggage /\ h.tags = got /\ h.len = HeaderLen(got) /\ h.sound
    BY DEF InjectDatadog
  <1>4. /\ got \in {good, {}} /\ got \in SUBSET Tags /\ HeaderLen(got) \in Nat
        /\ HeaderLen(good) <= max => got = good
        /\ HeaderLen(good) > max + 2 => got = {}
        /\ HeaderLen(got) <= max + 2
    BY <1>1, Marshalled
  <1> HIDE DEF h, got, good
  <1>5. /\ c \in Contexts /\ c.id = h.id /\ c.span = h.parent /\ c.priority = h.priority
        /\ c.origin = h.origin /\ c.baggage = h.baggage /\ c.tags \in TagOrders(h)
    <2>1. c \in ExtractDatadog(h)
      BY DEF h
    <2> QED BY <1>1, <1>2, <1>3, <2>1, DatadogRead
  <1>6. Unmarshalled(h) \in {got, {}} /\ (HeaderLen(good) <= max => Unmarshalled(h) = got)
    <2>1. Unmarshalled(h) \in {got, {}}
      BY <1>3 DEF Unmarshalled
    <2>2. HeaderLen(good) <= max => HeaderLen(got) <= max
      BY <1>4
    <2>3. HeaderLen(good) <= max => ~(h.len > PropagationExtractMaxSize)
      BY <1>3, <1>4, <2>2, PropagationAssumption
    <2> QED BY <1>3, <2>1, <2>3 DEF Unmarshalled
  <1>7. c.tags \in {Unmarshalled(h), Unmarshalled(h) \ {keyDecisionMaker}}
    <2>1. Unmarshalled(h) \in SUBSET Tags
      BY <1>4, <1>6
    <2> QED BY <1>1, <1>3, <1>5, <2>1, Reset DEF TagOrders, Decisions
  <1>8. c.tags \in {good, good \ {keyDecisionMaker}, {}}
    BY <1>4, <1>6, <1>7
  <1>9. HeaderLen(good) <= max => good \ {keyDecisionMaker} \subseteq c.tags
    BY <1>4, <1>6, <1>7
  <1>10. HeaderLen(good) > max + 2 => c.tags = {}
    BY <1>4, <1>6, <1>7
  <1> QED BY <1>3, <1>4, <1>5, <1>8, <1>9, <1>10 DEF good, h

LEMMA B3Arrives ==
    ASSUME NEW s, Valid(s), s.span > 0, NEW c \in ExtractB3(InjectB3(s))
    PROVE  /\ c \in Contexts /\ c.id = s.id /\ c.span = s.span /\ c.tags = {} /\ ~c.baggage
           /\ (c.priority = Absent) = (s.priority = Absent)
           /\ s.priority # Absent => (c.priority > 0) = (s.priority > 0)
  <1> DEFINE h == InjectB3(s)
  <1>1. s \in Contexts /\ s.id # 0 /\ s.span # 0 /\ s.priority \in Decisions
    BY DEF Valid, Contexts
  <1>2. h \in B3Headers /\ h # Absent
    BY <1>1, InjectTyped, AbsentAssumption
  <1>3. /\ h.id = s.id /\ h.parent = s.span
        /\ h.priority = IF s.priority = Absent THEN Absent ELSE IF s.priority >= 1 THEN 1 ELSE 0
    BY DEF InjectB3
  <1> HIDE DEF h
  <1>4. /\ c \in Contexts /\ c.id = h.id /\ c.span = h.parent /\ c.priority = h.priority
        /\ c.tags = {} /\ ~c.baggage
    <2>1. c \in ExtractB3(h)
      BY DEF h
    <2> QED BY <1>1, <1>2, <1>3, <2>1, B3Read
  <1>5. Absent # 1 /\ Absent # 0
    BY AbsentAssumption
  <1>6. (c.priority = Absent) = (s.priority = Absent)
    BY <1>3, <1>4, <1>5
  <1>7. s.priority # Absent => (c.priority > 0) = (s.priority > 0)
    BY <1>1, <1>3, <1>4 DEF Decisions
  <1> QED BY <1>3, <1>4, <1>6, <1>7

LEMMA Abiding ==
    ASSUME NEW a, NEW b, NEW c, Abides(a, b), Abides(b, c)
    PROVE  Abides(a, c)
  BY DEF Abides

\* A service that shares a style with its caller is told of the trace and the decision.
LEMMA Handed ==
    ASSUME NEW s, Valid(s), s.span > 0, NEW max \in Nat, max <= PropagationExtractMaxSize, NEW inj,
           NEW ext \in Seq({"datadog", "b3", "none"}), Both(inj, ext) # {},
           NEW c \in Extract(ext, Inject(inj, s, max))
    PROVE  c # NoContext /\ c.id = s.id /\ c.span = s.span /\ Abides(s, c)
  <1> DEFINE x == ext[Min(Both(inj, ext))]
  <1>1. /\ x \in {"datadog", "b3"}
        /\ x = "datadog" => c \in ExtractDatadog(InjectDatadog(s, max))
        /\ x = "b3" => c \in ExtractB3(InjectB3(s))
    BY ExtractInjected
  <1>2. CASE x = "datadog"
    <2>1. c \in Contexts /\ c.id = s.id /\ c.span = s.span /\ c.priority = s.priority
      BY <1>1, <1>2, DatadogArrives, ZenonT(60)
    <2>2. Abides(s, c)
      BY <2>1 DEF Abides, Keeps
    <2> QED BY <2>1, <2>2, AbsentAssumption
  <1>3. CASE x = "b3"
    <2>1. /\ c \in Contexts /\ c.id = s.id /\ c.span = s.span
          /\ (c.priority = Absent) = (s.priority = Absent)
          /\ s.priority # Absent => (c.priority > 0) = (s.priority > 0)
      BY <1>1, <1>3, B3Arrives
    <2>2. Abides(s, c)
      BY <2>1 DEF Abides, Keeps
    <2> QED BY <2>1, <2>2, AbsentAssumption
  <1> QED BY <1>1, <1>2, <1>3

-----------------------------------------------------------------------------
(* A service. *)

LEMMA Configured ==
    ASSUME TypeOK, NEW h \in 1 .. Hops
    PROVE  /\ Injectors(h) \in Seq({"datadog", "b3", "none"}) /\ Extractors(h) \in Seq({"datadog", "b3", "none"})
           /\ MaxLen(h) \in Nat /\ MaxLen(h) <= PropagationExtractMaxSize
  <1>1. /\ conf[h].b3 \in BOOLEAN /\ conf[h].inject \in Seq(STRING) /\ conf[h].extract \in Seq(STRING)
        /\ conf[h].max \in Int
    BY DEF TypeOK
  <1> QED BY <1>1, Propagators, MaxLength DEF Injectors, Extractors, MaxLen

LEMMA CarriersMade ==
    ASSUME NEW c \in Contexts, NEW max \in Nat, NEW inj
    PROVE  Inject(inj, c, max) \in Carriers
  BY InjectTyped DEF Inject, Carriers

LEMMA Sampled ==
    ASSUME NEW t, NEW s, NEW now
    PROVE  LET r == sample(t, s, now)
               l == t.limiter
           IN  /\ r.priority = NaN \/ r.priority \in {-1, 0, 1, 2}
               /\ \/ r.limiter = l
                  \/ r.limiter = allowOne(l, now) /\ r.priority = IF Allows(l, now) THEN 2 ELSE -1
  <1> DEFINE rate == RuleRate(t.rules, t.globalRate, s)
             r == sample(t, s, now)
             l == t.limiter
  <1>1. CASE ~sampledByRate(s.id, t.sampler)
    <2>1. r = Give(NaN, "drop", l)
      BY <1>1 DEF sample
    <2> QED BY <2>1 DEF Give
  <1>2. CASE sampledByRate(s.id, t.sampler) /\ rate # NaN
    <2>1. r = applyRule(l, s, rate, now)
      BY <1>2 DEF sample
    <2>2. \/ applyRule(l, s, rate, now) = Give(-1, "rule", l)
          \/ applyRule(l, s, rate, now) = Give(IF Allows(l, now) THEN 2 ELSE -1, "rule", allowOne(l, now))
      BY DEF applyRule
    <2> QED BY <2>1, <2>2 DEF Give
  <1>3. CASE sampledByRate(s.id, t.sampler) /\ rate = NaN
    <2>1. r = applyRate(t.agent, l, s)
      BY <1>3 DEF sample
    <2> QED BY <2>1 DEF applyRate, Give
  <1> QED BY <1>1, <1>2, <1>3

\* The span has a valid context of its own.
LEMMA StartSpanContext ==
    ASSUME TypeOK, NEW h \in 1 .. Hops, NEW parent, parent = NoContext \/ (Valid(parent) /\ ~parent.drop),
           NEW id \in 1 .. Space - 1, NEW service, NEW name, NEW now, StartSpan(h, parent, id, service, name, now)
    PROVE  /\ Valid(ctx') /\ ctx'.span = h /\ Decided(ctx') /\ (ctx'.drop => ctx'.priority = Absent)
           /\ parent # NoContext => ctx'.id = parent.id /\ (parent.priority # Absent => ctx'.priority = parent.priority)
  <1> DEFINE s == [id |-> IF parent = NoContext THEN id ELSE parent.id, service |-> service, name |-> name]
             base == IF parent = NoContext
                     THEN [id |-> id, span |-> h, priority |-> Absent, origin |-> "", baggage |-> FALSE,
                           tags |-> {}, failed |-> FALSE, drop |-> FALSE]
                     ELSE [parent EXCEPT !.span = h,
                            !.tags = IF parent.priority = Absent THEN @
                                     ELSE setSamplingPriority(@, parent.priority, "unknown")]
             outcome == sample(tracer[h], s, now)
             use    == base.priority = Absent
  <1>1. ctx' = IF use /\ outcome.priority # NaN
               THEN [base EXCEPT !.priority = outcome.priority,
                                 !.tags = setSamplingPriority(base.tags, outcome.priority, outcome.who)]
               ELSE [base EXCEPT !.drop = use]
    BY DEF StartSpan, Undecided
  <1>2. /\ base \in Contexts /\ base.id \notin {0, Corrupt} /\ base.span = h /\ Decided(base) /\ ~base.drop
        /\ parent # NoContext => base.id = parent.id /\ base.priority = parent.priority
    <2>1. CASE parent = NoContext
      <3>1. id \in Int /\ id # 0 /\ id # Corrupt /\ h \in Int
        BY SpaceAssumption, DistributedAssumption DEF Corrupt
      <3>2. base \in Contexts
        BY <2>1, <3>1 DEF Contexts, Decisions, Origins
      <3> QED BY <2>1, <3>1, <3>2 DEF Decided
    <2>2. CASE parent # NoContext
      <3>1. /\ parent \in Contexts /\ parent.id \notin {0, Corrupt} /\ parent.tags \in SUBSET Tags /\ ~parent.drop
            /\ parent.priority \in Decisions /\ h \in Int
        BY <2>2, DistributedAssumption DEF Valid, Contexts
      <3> DEFINE tags == IF parent.priority = Absent THEN parent.tags
                         ELSE setSamplingPriority(parent.tags, parent.priority, "unknown")
      <3>2. tags \in SUBSET Tags /\ (parent.priority # Absent /\ keyDecisionMaker \in tags => parent.priority > 0)
        BY <3>1, Reset DEF Decisions
      <3>3. base = [parent EXCEPT !.span = h, !.tags = tags]
        BY <2>2
      <3> HIDE DEF tags, base
      <3>4. /\ base \in Contexts /\ base.id = parent.id /\ base.span = h /\ base.tags = tags
            /\ base.priority = parent.priority /\ ~base.drop
        BY <3>1, <3>2, <3>3 DEF Contexts
      <3> QED BY <3>1, <3>2, <3>4 DEF Decided
    <2> QED BY <2>1, <2>2
  <1>3. outcome.priority = NaN \/ outcome.priority \in {-1, 0, 1, 2}
    BY Sampled
  <1> HIDE DEF base, outcome, use
  <1>4. CASE use /\ outcome.priority # NaN
    <2> DEFINE tags == setSamplingPriority(base.tags, outcome.priority, outcome.who)
    <2>1. outcome.priority \in Int
      BY <1>3, <1>4
    <2>2. base.tags \in SUBSET Tags
      BY <1>2 DEF Contexts
    <2>3. tags \in SUBSET Tags /\ (keyDecisionMaker \in tags => outcome.priority > 0)
      BY <2>1, <2>2, Reset
    <2>4. ctx' = [base EXCEPT !.priority = outcome.priority, !.tags = tags]
      BY <1>1, <1>4
    <2> HIDE DEF tags
    <2>5. /\ ctx' \in Contexts /\ ctx'.id = base.id /\ ctx'.span = h
          /\ ctx'.tags = tags /\ ctx'.priority = outcome.priority /\ ctx'.drop = base.drop
      BY <1>2, <2>1, <2>3, <2>4 DEF Contexts, Decisions
    <2> QED BY <1>2, <1>4, <2>3, <2>5 DEF Valid, Decided, use
  <1>5. CASE ~(use /\ outcome.priority # NaN)
    <2>1. ctx' = [base EXCEPT !.drop = use] /\ use \in BOOLEAN
      BY <1>1, <1>5 DEF use
    <2>2. /\ ctx' \in Contexts /\ ctx'.id = base.id /\ ctx'.span = h
          /\ ctx'.tags = base.tags /\ ctx'.priority = base.priority /\ ctx'.drop = use
      BY <1>2, <2>1 DEF Contexts
    <2> QED BY <1>2, <2>2 DEF Valid, Decided, use
  <1> QED BY <1>4, <1>5

\* Its tracer keeps its samplers; the limiter of the first service stays in step with what
\* it was asked.
LEMMA StartSpanTracer ==
    ASSUME TypeOK, LimiterInv, NEW h \in 1 .. Hops, NEW parent, NEW id, NEW service, NEW name,
           NEW now \in Nat, StartSpan(h, parent, id, service, name, now)
    PROVE  /\ DOMAIN tracer' = 1 .. Hops /\ \A k \in 1 .. Hops : IsTracer(tracer'[k])
           /\ asked' \in Seq(Requests) /\ LimiterInv'
  <1> DEFINE s == [id |-> IF parent = NoContext THEN id ELSE parent.id, service |-> service, name |-> name]
             outcome == sample(tracer[h], s, now)
             l == tracer[h].limiter
             e == Ask(l, asked, now)
  <1>1. /\ \A k \in 1 .. Hops : IsTracer(tracer[k]) /\ tracer[k].limiter \in Limiters
        /\ DOMAIN tracer = 1 .. Hops /\ asked \in Seq(Requests) /\ 1 \in 1 .. Hops
    BY DistributedAssumption, SMTT(40) DEF TypeOK, IsTracer
  <1>2. l \in Limiters /\ l.tokens <= Token * l.burst
    BY <1>1 DEF LimiterInv
  <1>3. \/ outcome.limiter = l
        \/ outcome.limiter = allowOne(l, now) /\ outcome.priority = IF Allows(l, now) THEN 2 ELSE -1
    BY Sampled
  <1>4. \/ tracer' = tracer
        \/ tracer' = [tracer EXCEPT ![h].limiter = outcome.limiter]
    BY DEF StartSpan
  <1>5. \/ asked' = asked /\ (h = 1 => tracer' = tracer \/ outcome.limiter = l)
        \/ /\ h = 1 /\ outcome.limiter # l /\ tracer' = [tracer EXCEPT ![h].limiter = outcome.limiter]
           /\ asked' = Append(asked, [t |-> now, ok |-> outcome.priority = 2, back |-> Back(asked) + SetBack(l, now)])
    BY DEF StartSpan
  <1> HIDE DEF outcome, s
  <1>6. CASE tracer' = tracer \/ outcome.limiter = l
    <2>1. \A k \in 1 .. Hops : IsTracer(tracer'[k]) /\ tracer'[k].limiter = tracer[k].limiter
      <3>1. CASE tracer' = tracer
        BY <1>1, <3>1
      <3>2. CASE tracer' = [tracer EXCEPT ![h].limiter = l]
        BY <1>1, <3>2 DEF IsTracer
      <3> QED BY <1>4, <1>6, <3>1, <3>2
    <2>2. DOMAIN tracer' = 1 .. Hops
      BY <1>1, <1>4
    <2>3. asked' = asked
      <3> SUFFICES ASSUME h = 1, outcome.limiter # l, tracer' = [tracer EXCEPT ![h].limiter = outcome.limiter]
                   PROVE  FALSE
        BY <1>5
      <3>1. tracer'[h].limiter = outcome.limiter
        BY <1>1 DEF IsTracer
      <3> QED BY <1>6, <3>1
    <2>4. LimiterInv'
      BY <1>1, <2>1, <2>3 DEF LimiterInv
    <2> QED BY <1>1, <2>1, <2>2, <2>3, <2>4
  <1>7. CASE tracer' # tracer /\ outcome.limiter # l
    <2> DEFINE m == allowOne(l, now)
    <2>1. /\ tracer' = [tracer EXCEPT ![h].limiter = m] /\ outcome.limiter = m
          /\ (outcome.priority = 2) = Allows(l, now)
      BY <1>3, <1>4, <1>7 DEF Allows
    <2>2. m \in Limiters /\ m.tokens <= Token * m.burst
      <3>1. m \in Limiters /\ m.burst = l.burst /\ m.tokens = Funds(l, now) - 4 * One(l, now)
        BY <1>2, AllowOneFields
      <3>2. Funds(l, now) \in Nat /\ Funds(l, now) <= 4 * l.burst /\ One(l, now) \in {0, 1} /\ l.burst \in Nat
        BY <1>2, RefillBounds DEF Limiters
      <3> HIDE DEF m, l
      <3>3. m.tokens <= 4 * l.burst
        BY <3>1, <3>2
      <3> QED BY <3>1, <3>3 DEF Token
    <2> HIDE DEF m
    <2>3. /\ DOMAIN tracer' = 1 .. Hops /\ \A k \in 1 .. Hops : IsTracer(tracer'[k])
          /\ \A k \in 1 .. Hops : tracer'[k].limiter = IF k = h THEN m ELSE tracer[k].limiter
      BY <1>1, <2>1, <2>2 DEF IsTracer
    <2>4. CASE h = 1
      <3>1. asked' = Append(asked, e)
        BY <1>5, <1>7, <2>1, <2>4 DEF Ask
      <3>2. e \in Requests
        BY <1>1, <1>2, Asking
      <3>3. Tally(m, Append(asked, e))
        BY <1>1, <1>2, <2>4, TallyStep DEF m, LimiterInv
      <3>4. LimiterInv'
        BY <1>1, <2>2, <2>3, <2>4, <3>1, <3>3 DEF LimiterInv
      <3> QED BY <1>1, <2>3, <3>1, <3>2, <3>4
    <2>5. CASE h # 1
      <3>1. asked' = asked /\ tracer'[1].limiter = tracer[1].limiter
        BY <1>1, <1>5, <2>3, <2>5
      <3>2. LimiterInv'
        BY <1>1, <2>2, <2>3, <3>1 DEF LimiterInv
      <3> QED BY <1>1, <2>3, <3>1, <3>2
    <2> QED BY <2>4, <2>5
  <1> QED BY <1>6, <1>7

-----------------------------------------------------------------------------
(* The inductive invariant. *)

IInv == TypeOK /\ PathInv /\ FateInv /\ CarrierInv /\ QueryInv /\ LimiterInv /\ AllAgree

\* A service that is told of the trace and abides by what it is told agrees with all before.
LEMMA AgreeGrows ==
    ASSUME TypeOK, AllAgree, NEW e \in Visits, path' = Append(path, e), UNCHANGED conf,
           Len(path) > 0 /\ Shared(Len(path) + 1) # {} => e.id = path[Len(path)].id /\ Abides(path[Len(path)], e)
    PROVE  AllAgree'
  <1> DEFINE n == Len(path)
             Linked(i, j) == \A k \in i + 1 .. j : Shared(k) # {}
  <1>1. path \in Seq(Visits) /\ n \in Nat
    BY DEF TypeOK
  <1>2. Len(path') = n + 1 /\ path'[n + 1] = e /\ \A k \in 1 .. n : path'[k] = path[k]
    BY <1>1
  <1>3. \A k : Shared(k)' = Shared(k)
    BY DEF Shared, Injectors, Extractors
  <1>4. ASSUME NEW i \in 1 .. n + 1, NEW j \in 1 .. n + 1, i <= j, Linked(i, j)
        PROVE  /\ path'[j].id = path'[i].id
               /\ (\A k \in i + 1 .. j : ~path'[k].manual) => Abides(path'[i], path'[j])
    <2>1. CASE j # n + 1
      <3>1. i \in 1 .. n /\ j \in 1 .. n
        BY <1>1, <1>4, <2>1
      <3>2. \A k \in i + 1 .. j : k \in 1 .. n
        BY <1>1, <3>1
      <3>3. /\ path[j].id = path[i].id
            /\ (\A k \in i + 1 .. j : ~path[k].manual) => Abides(path[i], path[j])
        BY <1>4, <3>1 DEF AllAgree
      <3> QED BY <1>2, <3>1, <3>2, <3>3
    <2>2. CASE j = n + 1 /\ i = n + 1
      BY <1>2, <2>2 DEF Abides
    <2>3. CASE j = n + 1 /\ i # n + 1
      <3>1. i \in 1 .. n /\ n \in 1 .. n /\ n > 0 /\ i <= n /\ n + 1 \in i + 1 .. j
        BY <1>1, <2>3
      <3>2. \A k \in i + 1 .. n : k \in i + 1 .. j /\ k \in 1 .. n
        BY <1>1, <2>3, <3>1
      <3>3. Linked(i, n) /\ Shared(n + 1) # {}
        BY <1>4, <3>1, <3>2
      <3>4. e.id = path[n].id /\ Abides(path[n], e)
        BY <3>1, <3>3
      <3>5. /\ path[n].id = path[i].id
            /\ (\A k \in i + 1 .. n : ~path[k].manual) => Abides(path[i], path[n])
        BY <3>1, <3>3 DEF AllAgree
      <3>6. path'[j] = e /\ path'[i] = path[i] /\ \A k \in i + 1 .. n : path'[k] = path[k]
        BY <1>2, <2>3, <3>1, <3>2
      <3>7. ASSUME \A k \in i + 1 .. j : ~path'[k].manual PROVE Abides(path[i], e)
        <4>1. \A k \in i + 1 .. n : ~path[k].manual
          BY <3>2, <3>6, <3>7
        <4> QED BY <3>4, <3>5, <4>1, Abiding
      <3> QED BY <3>4, <3>5, <3>6, <3>7
    <2> QED BY <2>1, <2>2, <2>3
  <1> QED BY <1>2, <1>3, <1>4 DEF AllAgree

\* A decision by hand binds nobody before.
LEMMA AgreeManual ==
    ASSUME TypeOK, AllAgree, hop > 0, NEW e \in Visits, path' = [path EXCEPT ![hop] = e], UNCHANGED conf,
           e.id = path[hop].id, e.manual
    PROVE  AllAgree'
  <1> DEFINE n == Len(path)
  <1>1. path \in Seq(Visits) /\ n \in Nat /\ n = hop /\ n \in 1 .. n
    BY DEF TypeOK
  <1>2. Len(path') = n /\ path'[n] = e /\ \A k \in 1 .. n : k # n => path'[k] = path[k]
    BY <1>1
  <1>3. \A k : Shared(k)' = Shared(k)
    BY DEF Shared, Injectors, Extractors
  <1>4. ASSUME NEW i \in 1 .. n, NEW j \in 1 .. n, i <= j, \A k \in i + 1 .. j : Shared(k) # {}
        PROVE  /\ path'[j].id = path'[i].id
               /\ (\A k \in i + 1 .. j : ~path'[k].manual) => Abides(path'[i], path'[j])
    <2>1. /\ path[j].id = path[i].id
          /\ (\A k \in i + 1 .. j : ~path[k].manual) => Abides(path[i], path[j])
      BY <1>4 DEF AllAgree
    <2>2. path'[j].id = path'[i].id
      BY <1>1, <1>2, <2>1
    <2>3. CASE j # n
      <3>1. i # n /\ \A k \in i + 1 .. j : k \in 1 .. n /\ k # n
        BY <1>1, <1>4, <2>3
      <3> QED BY <1>2, <2>1, <2>2, <2>3, <3>1
    <2>4. CASE j = n /\ i = n
      BY <2>2, <2>4, Zenon DEF Abides
    <2>5. CASE j = n /\ i # n
      <3>1. n \in i + 1 .. j
        BY <1>1, <1>4, <2>5
      <3> QED BY <1>2, <2>2, <3>1
    <2> QED BY <2>3, <2>4, <2>5
  <1> QED BY <1>2, <1>3, <1>4 DEF AllAgree

LEMMA InitInv == Init => IInv
  <1> SUFFICES ASSUME Init PROVE IInv
    OBVIOUS
  <1>1. /\ clock = 0 /\ traces = 0 /\ answers = 0 /\ hop = 0 /\ arrived = NoContext /\ ctx = NoContext
        /\ carrier = Empty /\ sent = NoContext /\ asked = <<>> /\ query = NoQuery /\ far \in {1, Hops}
        /\ path = <<>> /\ fate = "none"
    BY DEF Init
  <1>2. Hops \in Nat /\ 1 \in 1 .. Hops
    BY DistributedAssumption
  <1>3. conf \in [1 .. Hops -> [b3 : BOOLEAN, inject : Seq(STRING), extract : Seq(STRING), max : Int]]
    <2>1. DefaultStyle \in [b3 : BOOLEAN, inject : Seq(STRING), extract : Seq(STRING), max : Int]
      BY PropagationAssumption, EmptySeq DEF DefaultStyle
    <2> QED BY <2>1, StylesAssumption DEF Init
  <1>4. IsTracer(Calm) /\ Calm.limiter = newRateLimiter(2, 0)
    BY TallyNew DEF IsTracer, Calm
  <1>5. /\ DOMAIN tracer = 1 .. Hops
        /\ \A h \in 1 .. Hops : /\ IsTracer(tracer[h])
                                /\ tracer[h].limiter = newRateLimiter(tracer[h].limiter.limit, 0)
    <2>1. newRateLimiter(2, 0).limit = 2
      BY TallyNew
    <2>2. CASE tracer \in {[h \in 1 .. Hops |-> IF h = 1 THEN [Calm EXCEPT !.sampler = r] ELSE Calm] : r \in Rates}
      <3>1. PICK r \in Rates : tracer = [h \in 1 .. Hops |-> IF h = 1 THEN [Calm EXCEPT !.sampler = r] ELSE Calm]
        BY <2>2
      <3>2. IsTracer([Calm EXCEPT !.sampler = r]) /\ [Calm EXCEPT !.sampler = r].limiter = Calm.limiter
        BY <1>4 DEF IsTracer
      <3> QED BY <1>4, <2>1, <3>1, <3>2
    <2>3. CASE tracer \in {[h \in 1 .. Hops |-> IF h = 1 THEN s ELSE Calm] : s \in Samplings}
      <3>1. PICK s \in Samplings : tracer = [h \in 1 .. Hops |-> IF h = 1 THEN s ELSE Calm]
        BY <2>3
      <3> QED BY <1>4, <2>1, <3>1, SamplingsAssumption
    <2> QED BY <2>2, <2>3 DEF Init
  <1>6. LimiterInv
    <2>1. ASSUME NEW h \in 1 .. Hops
          PROVE  LET l == tracer[h].limiter IN l.tokens <= Token * l.burst /\ Tally(l, asked)
      <3> DEFINE n == tracer[h].limiter.limit
      <3>1. tracer[h].limiter = newRateLimiter(n, 0) /\ n \in Nat
        BY <1>5 DEF IsTracer, Limiters
      <3> HIDE DEF n
      <3>2. newRateLimiter(n, 0).tokens <= Token * newRateLimiter(n, 0).burst /\ Tally(newRateLimiter(n, 0), <<>>)
        BY <3>1, TallyNew
      <3> QED BY <1>1, <3>1, <3>2
    <2> QED BY <1>2, <2>1 DEF LimiterInv
  <1>7. Empty \in Carriers
    BY DEF Empty, Carriers
  <1>8. TypeOK
    <2>1. hop \in 0 .. far /\ clock \in Nat /\ traces \in Nat /\ answers \in Nat
      BY <1>1, <1>2
    <2>2. asked \in Seq(Requests) /\ path \in Seq(Visits) /\ Len(path) = hop
      BY <1>1, EmptySeq
    <2> QED BY <1>1, <1>3, <1>5, <1>7, <2>1, <2>2 DEF TypeOK
  <1>9. PathInv /\ CarrierInv /\ QueryInv
    BY <1>1 DEF PathInv, CarrierInv, QueryInv, Sent, Called
  <1>10. FateInv
    BY <1>1, <1>2 DEF FateInv
  <1>11. AllAgree
    <2>1. Len(path) = 0
      BY <1>1
    <2> QED BY <2>1 DEF AllAgree
  <1> QED BY <1>6, <1>8, <1>9, <1>10, <1>11 DEF IInv

\* A service that is called: from outside, or by the one before.
LEMMA Served ==
    ASSUME IInv, NEW h \in 1 .. Hops, NEW entry \in Carriers, NEW id \in 1 .. Space - 1, NEW service, NEW name,
           NEW now \in Nat, Serve(h, entry, id, service, name, now), UNCHANGED <<conf, far, clock>>, far >= h,
           h = hop + 1, traces' \in Nat, answers' \in Nat, sent' \in Contexts \cup {NoContext},
           \A c \in Extract(Extractors(h), entry) : hop > 0 /\ Shared(h) # {} =>
               c # NoContext /\ c.id = path[hop].id /\ Abides(path[hop], c)
    PROVE  /\ TypeOK' /\ LimiterInv' /\ QueryInv' /\ FateInv' /\ AllAgree' /\ hop' = h /\ carrier' = entry
           /\ Valid(ctx') /\ ctx'.span = h /\ Decided(ctx')
           /\ arrived' \in Extract(Extractors(h), entry)
  <1>1. TypeOK /\ LimiterInv /\ AllAgree
    BY DEF IInv
  <1>2. PICK c \in Extract(Extractors(h), entry) : arrived' = c /\ StartSpan(h, c, id, service, name, now)
    BY DEF Serve
  <1> DEFINE e == [id |-> ctx'.id, priority |-> ctx'.priority, manual |-> FALSE]
  <1>3. carrier' = entry /\ hop' = h /\ query' = NoQuery /\ fate' = "none" /\ path' = Append(path, e)
    BY DEF Serve
  <1>4. c = NoContext \/ (Valid(c) /\ ~c.drop)
    BY ExtractTyped
  <1>5. /\ Valid(ctx') /\ ctx'.span = h /\ Decided(ctx') /\ (ctx'.drop => ctx'.priority = Absent)
        /\ c # NoContext => ctx'.id = c.id /\ (c.priority # Absent => ctx'.priority = c.priority)
    BY <1>1, <1>2, <1>4, StartSpanContext
  <1>6. /\ DOMAIN tracer' = 1 .. Hops /\ \A k \in 1 .. Hops : IsTracer(tracer'[k])
        /\ asked' \in Seq(Requests) /\ LimiterInv'
    BY <1>1, <1>2, StartSpanTracer
  <1>7. /\ conf' \in [1 .. Hops -> [b3 : BOOLEAN, inject : Seq(STRING), extract : Seq(STRING), max : Int]]
        /\ far' \in {1, Hops} /\ clock' \in Nat
    BY <1>1 DEF TypeOK
  <1>8. hop' \in 0 .. far'
    BY <1>1, <1>3, DistributedAssumption DEF TypeOK
  <1>9. arrived' \in Contexts \cup {NoContext} /\ ctx' \in Contexts \cup {NoContext}
    BY <1>2, <1>4, <1>5 DEF Valid
  <1>10. e \in Visits /\ e.id = ctx'.id /\ e.priority = ctx'.priority
    BY <1>5 DEF Visits, Valid, Contexts
  <1>11. path \in Seq(Visits) /\ Len(path) = hop /\ hop \in Nat
    BY <1>1, DistributedAssumption DEF TypeOK
  <1> HIDE DEF e
  <1>12. path' \in Seq(Visits) /\ Len(path') = h /\ path'[h] = e
    BY <1>3, <1>10, <1>11
  <1>13. TypeOK'
    BY <1>3, <1>6, <1>7, <1>8, <1>9, <1>12 DEF TypeOK
  <1>14. FateInv'
    BY <1>3, <1>5, <1>10, <1>12 DEF FateInv
  <1>15. AllAgree'
    <2>1. ASSUME hop > 0, Shared(h) # {} PROVE e.id = path[hop].id /\ Abides(path[hop], e)
      <3>1. c # NoContext /\ c.id = path[hop].id /\ Abides(path[hop], c)
        BY <2>1
      <3>2. Abides(c, e)
        BY <1>5, <1>10, <3>1 DEF Abides, Keeps
      <3> QED BY <1>5, <1>10, <3>1, <3>2, Abiding
    <2> QED BY <1>1, <1>3, <1>10, <1>11, <2>1, AgreeGrows
  <1> QED BY <1>2, <1>3, <1>5, <1>6, <1>13, <1>14, <1>15 DEF QueryInv

LEMMA EnterInv ==
    ASSUME IInv, Enter
    PROVE  IInv'
  <1>1. PICK entry \in (IF far = 1 THEN {Empty} ELSE Entries), id \in 1 .. Space - 1, service \in Names, name \in Names,
             now \in {t \in 0 .. clock : clock - t <= MaxDelay} :
          Serve(1, entry, id, service, name, now)
    BY DEF Enter
  <1>2. UNCHANGED <<conf, far, clock, answers>> /\ traces' = traces + 1 /\ sent' = NoContext /\ hop = 0
    BY DEF Enter
  <1>3. entry \in Carriers
    BY StylesAssumption DEF Empty, Carriers
  <1>4. 1 \in 1 .. Hops /\ far >= 1 /\ traces' \in Nat /\ answers' \in Nat /\ now \in Nat
    BY <1>2, DistributedAssumption DEF IInv, TypeOK
  <1>5. TypeOK' /\ LimiterInv' /\ QueryInv' /\ FateInv' /\ AllAgree' /\ hop' = 1 /\ Valid(ctx') /\ ctx'.span = 1 /\ Decided(ctx')
    BY <1>1, <1>2, <1>3, <1>4, Served
  <1>6. PathInv'
    BY <1>2, <1>5 DEF PathInv, Sent
  <1>7. CarrierInv'
    BY <1>2, <1>5 DEF CarrierInv, Sent, Called
  <1> QED BY <1>5, <1>6, <1>7 DEF IInv

LEMMA ArriveInv ==
    ASSUME IInv, Arrive
    PROVE  IInv'
  <1>1. TypeOK /\ PathInv /\ CarrierInv /\ FateInv
    BY DEF IInv
  <1>2. PICK id \in 1 .. Space - 1 : Serve(hop + 1, carrier, id, AnyName, AnyName, clock)
    BY DEF Arrive
  <1>3. /\ UNCHANGED <<conf, far, clock, traces, answers, sent>> /\ hop > 0 /\ hop < far
        /\ Sent /\ sent # NoContext /\ sent.span = hop
    BY DEF Arrive, Sent
  <1>4. /\ hop \in 1 .. Hops /\ hop \in Nat /\ hop + 1 \in 1 .. Hops /\ far >= hop + 1 /\ traces' \in Nat /\ answers' \in Nat
        /\ sent' \in Contexts \cup {NoContext} /\ carrier \in Carriers /\ clock \in Nat /\ (hop + 1) - 1 = hop
    BY <1>1, <1>3, DistributedAssumption DEF TypeOK
  <1>5. Valid(sent) /\ sent.span > 0 /\ sent.id = ctx.id /\ sent.priority = ctx.priority
    BY <1>1, <1>3 DEF PathInv
  <1>6. path[hop].id = ctx.id /\ path[hop].priority = ctx.priority
    BY <1>1, <1>3 DEF FateInv
  <1>7. carrier = Headers(hop)
    BY <1>1, <1>3 DEF CarrierInv
  <1>8. ASSUME NEW c \in Extract(Extractors(hop + 1), carrier), Shared(hop + 1) # {}
        PROVE  c # NoContext /\ c.id = path[hop].id /\ Abides(path[hop], c)
    <2> DEFINE inj == Elements(Injectors(hop))
               ext == Extractors(hop + 1)
    <2>1. Both(inj, ext) # {}
      BY <1>4, <1>8 DEF Both, Shared, Elements
    <2>2. ext \in Seq({"datadog", "b3", "none"}) /\ MaxLen(hop) \in Nat /\ MaxLen(hop) <= PropagationExtractMaxSize
      BY <1>1, <1>4, Configured
    <2>3. carrier = Inject(inj, sent, MaxLen(hop))
      BY <1>7 DEF Headers
    <2> HIDE DEF inj, ext
    <2>4. c # NoContext /\ c.id = sent.id /\ Abides(sent, c)
      BY <1>5, <1>8, <2>1, <2>2, <2>3, Handed DEF ext
    <2> QED BY <1>5, <1>6, <2>4 DEF Abides, Keeps
  <1>9. /\ TypeOK' /\ LimiterInv' /\ QueryInv' /\ FateInv' /\ AllAgree' /\ hop' = hop + 1 /\ carrier' = carrier
        /\ Valid(ctx') /\ ctx'.span = hop + 1 /\ Decided(ctx')
        /\ arrived' \in Extract(Extractors(hop + 1), carrier)
    <2>1. \A c \in Extract(Extractors(hop + 1), carrier) : hop > 0 /\ Shared(hop + 1) # {} =>
             c # NoContext /\ c.id = path[hop].id /\ Abides(path[hop], c)
      BY <1>8
    <2> QED BY <1>2, <1>3, <1>4, <2>1, Served
  <1>10. ~Sent' /\ hop' - 1 = hop
    BY <1>3, <1>4, <1>9 DEF Sent
  <1>11. PathInv'
    BY <1>3, <1>4, <1>5, <1>9, <1>10 DEF PathInv
  <1>12. CarrierInv'
    <2>1. (Headers(hop - 1))' = Headers(hop) /\ (Extractors(hop))' = Extractors(hop + 1)
      BY <1>3, <1>9, <1>10 DEF Headers, Injectors, Extractors, MaxLen
    <2> QED BY <1>7, <1>9, <1>10, <2>1 DEF CarrierInv
  <1> QED BY <1>9, <1>11, <1>12 DEF IInv

\* The application changes the context.
LEMMA BusyInv ==
    ASSUME IInv, Busy, Valid(ctx'), ctx'.span = hop, Decided(ctx'),
           path' \in Seq(Visits), Len(path') = hop, path'[hop].id = ctx'.id, path'[hop].priority = ctx'.priority, AllAgree',
           UNCHANGED <<conf, tracer, far, clock, traces, answers, hop, arrived, carrier, sent, asked, query, fate>>
    PROVE  IInv'
  <1>1. TypeOK'
    BY DEF IInv, TypeOK, Valid
  <1>2. PathInv'
    BY DEF IInv, PathInv, Busy, Sent
  <1>6. FateInv'
    <2>1. hop # far
      BY DEF IInv, TypeOK, Busy
    <2> QED BY <2>1 DEF IInv, FateInv
  <1>3. CarrierInv'
    BY DEF IInv, CarrierInv, Sent, Called, Headers, Injectors, Extractors, MaxLen
  <1>4. QueryInv'
    <2>1. hop # far
      BY DEF IInv, TypeOK, Busy
    <2> QED BY <2>1 DEF IInv, QueryInv
  <1>5. LimiterInv'
    BY DEF IInv, LimiterInv
  <1> QED BY <1>1, <1>2, <1>3, <1>4, <1>5, <1>6 DEF IInv

LEMMA ManualInv ==
    ASSUME IInv, Manual
    PROVE  IInv'
  <1>1. Busy /\ hop > 0
    BY DEF Manual, Busy
  <1>2. Valid(ctx) /\ ctx.span = hop /\ ctx.tags \in SUBSET Tags
    BY <1>1 DEF IInv, PathInv, Valid, Contexts
  <1>3. PICK p \in {-1, 2} :
          /\ ctx' = [ctx EXCEPT !.priority = p, !.tags = setSamplingPriority(@, p, "manual")]
          /\ path' = [path EXCEPT ![hop] = [id |-> ctx.id, priority |-> p, manual |-> TRUE]]
    BY DEF Manual
  <1>0. p \in Int
    OBVIOUS
  <1> DEFINE tags == setSamplingPriority(ctx.tags, p, "manual")
  <1>4. tags \in SUBSET Tags /\ (keyDecisionMaker \in tags => p > 0)
    BY <1>0, <1>2, Reset
  <1>5. ctx' = [ctx EXCEPT !.priority = p, !.tags = tags]
    BY <1>3
  <1> HIDE DEF tags
  <1>6. ctx' \in Contexts /\ ctx'.id = ctx.id /\ ctx'.span = hop /\ ctx'.priority = p /\ ctx'.tags = tags
    BY <1>0, <1>2, <1>4, <1>5 DEF Valid, Contexts, Decisions
  <1>7. Valid(ctx') /\ Decided(ctx')
    BY <1>2, <1>4, <1>6 DEF Valid, Decided
  <1> DEFINE e == [id |-> ctx.id, priority |-> p, manual |-> TRUE]
  <1>8. e \in Visits /\ e.id = ctx.id /\ e.priority = p /\ e.manual
    BY <1>0, <1>2 DEF Visits, Valid, Contexts, Decisions
  <1>9. path' = [path EXCEPT ![hop] = e]
    BY <1>3
  <1> HIDE DEF e
  <1>10. path \in Seq(Visits) /\ Len(path) = hop /\ hop \in 1 .. Len(path) /\ ctx.id = path[hop].id
    BY <1>1 DEF IInv, TypeOK, FateInv
  <1>11. path' \in Seq(Visits) /\ Len(path') = hop /\ path'[hop] = e
    BY <1>8, <1>9, <1>10
  <1>12. AllAgree'
    BY <1>1, <1>8, <1>9, <1>10, AgreeManual DEF IInv, Manual
  <1> QED BY <1>1, <1>6, <1>7, <1>8, <1>11, <1>12, BusyInv DEF Manual

LEMMA AnnotateInv ==
    ASSUME IInv, Annotate
    PROVE  IInv'
  <1>1. Busy /\ hop > 0
    BY DEF Annotate, Busy
  <1>2. Valid(ctx) /\ ctx.span = hop /\ ctx.tags \in SUBSET Tags /\ Decided(ctx)
    BY <1>1 DEF IInv, PathInv, Valid, Contexts
  <1>3. PICK tags \in {ctx.tags, ctx.tags \cup {"usr"}, ctx.tags \ {"usr"}} :
          ctx' \in {[ctx EXCEPT !.baggage = TRUE], [ctx EXCEPT !.tags = tags]} /\ (ctx'.tags = tags)
    BY <1>2 DEF Annotate, Valid, Contexts
  <1>4. tags \in SUBSET Tags /\ (keyDecisionMaker \in tags => keyDecisionMaker \in ctx.tags)
    BY <1>2, <1>3, PropagationAssumption DEF keyDecisionMaker
  <1>5. ctx' \in Contexts /\ ctx'.id = ctx.id /\ ctx'.span = hop /\ ctx'.priority = ctx.priority
    BY <1>2, <1>3, <1>4 DEF Valid, Contexts
  <1>6. Valid(ctx') /\ Decided(ctx')
    BY <1>2, <1>3, <1>4, <1>5 DEF Valid, Decided
  <1>7. /\ path' \in Seq(Visits) /\ Len(path') = hop
        /\ path'[hop].id = ctx'.id /\ path'[hop].priority = ctx'.priority
    BY <1>1, <1>5 DEF Annotate, IInv, TypeOK, FateInv
  <1>8. AllAgree'
    BY DEF Annotate, IInv, AllAgree, Shared, Injectors, Extractors
  <1> QED BY <1>1, <1>5, <1>6, <1>7, <1>8, BusyInv DEF Annotate

LEMMA SendInv ==
    ASSUME IInv, Send
    PROVE  IInv'
  <1>1. Busy /\ hop \in 1 .. Hops /\ hop # far /\ hop > 0
    BY DistributedAssumption DEF Send, Busy, IInv, TypeOK
  <1>2. Valid(ctx) /\ ctx.span = hop /\ Decided(ctx) /\ ctx # NoContext /\ TypeOK
    BY <1>1, AbsentAssumption DEF IInv, PathInv, Valid
  <1>3. /\ carrier' = Inject(Elements(Injectors(hop)), ctx, MaxLen(hop)) /\ sent' = ctx
        /\ UNCHANGED <<conf, tracer, far, clock, traces, answers, hop, arrived, asked, query, fate, path>>
    BY DEF Send
  <1>4. PICK f \in BOOLEAN : ctx' = [ctx EXCEPT !.failed = f]
    <2> DEFINE styles == Elements(Injectors(hop))
               f == ctx.failed \/ ("datadog" \in styles /\ MarshalFails(ctx.tags, MaxLen(hop)))
    <2>1. ctx' = [ctx EXCEPT !.failed = f]
      BY DEF Send
    <2>2. f \in BOOLEAN
      OBVIOUS
    <2> QED BY <2>1, <2>2
  <1>5. /\ ctx' \in Contexts /\ ctx'.id = ctx.id /\ ctx'.span = hop /\ ctx'.priority = ctx.priority
        /\ ctx'.tags = ctx.tags
    BY <1>2, <1>4 DEF Valid, Contexts
  <1>6. Valid(ctx') /\ Decided(ctx')
    BY <1>2, <1>5 DEF Valid, Decided
  <1>7. carrier' \in Carriers
    BY <1>1, <1>2, <1>3, Configured, CarriersMade DEF Valid
  <1>8. TypeOK'
    BY <1>2, <1>3, <1>5, <1>7 DEF TypeOK, Valid
  <1>9. PathInv'
    BY <1>1, <1>2, <1>3, <1>5, <1>6 DEF PathInv, Sent
  <1>10. CarrierInv'
    <2>1. Sent' /\ ~Called'
      BY <1>2, <1>3 DEF Sent, Called
    <2>2. (Headers(hop))' = carrier'
      BY <1>3 DEF Headers, Injectors, MaxLen
    <2> QED BY <2>1, <2>2 DEF CarrierInv
  <1>11. QueryInv' /\ LimiterInv'
    BY <1>1, <1>3 DEF IInv, QueryInv, LimiterInv
  <1>12. FateInv'
    BY <1>1, <1>3, <1>5 DEF IInv, FateInv
  <1>13. AllAgree'
    BY <1>3 DEF IInv, AllAgree, Shared, Injectors, Extractors
  <1> QED BY <1>8, <1>9, <1>10, <1>11, <1>12, <1>13 DEF IInv

\* The last service, and the time between two traces.
LEMMA LastInv ==
    ASSUME IInv, CallDB \/ FinishTrace \/ NextTrace
    PROVE  IInv'
  <1>1. CASE CallDB
    <2>1. /\ hop = far /\ hop > 0 /\ \E mode \in Modes : query' = Query(mode, ctx)
          /\ UNCHANGED <<conf, tracer, far, clock, traces, answers, hop, arrived, ctx, carrier, sent, asked, fate, path>>
      BY <1>1, DistributedAssumption DEF CallDB, IInv, TypeOK
    <2>2. ctx # NoContext
      BY <2>1, AbsentAssumption DEF IInv, PathInv, Valid
    <2>3. TypeOK' /\ PathInv' /\ LimiterInv' /\ FateInv'
      BY <2>1 DEF IInv, TypeOK, PathInv, Sent, LimiterInv, FateInv
    <2>4. CarrierInv'
      BY <2>1 DEF IInv, CarrierInv, Sent, Called, Headers, Injectors, Extractors, MaxLen
    <2>5. QueryInv'
      BY <2>1, <2>2 DEF QueryInv
    <2>6. AllAgree'
      BY <2>1 DEF IInv, AllAgree, Shared, Injectors, Extractors
    <2> QED BY <2>3, <2>4, <2>5, <2>6 DEF IInv
  <1>2. CASE FinishTrace
    <2>1. UNCHANGED <<conf, tracer, far, clock, traces, answers, hop, arrived, ctx, carrier, sent, asked, query, path>>
      BY <1>2 DEF FinishTrace
    <2>2. TypeOK' /\ PathInv' /\ LimiterInv' /\ QueryInv'
      BY <2>1 DEF IInv, TypeOK, PathInv, Sent, LimiterInv, QueryInv
    <2>3. CarrierInv'
      BY <2>1 DEF IInv, CarrierInv, Sent, Called, Headers, Injectors, Extractors, MaxLen
    <2>4. FateInv'
      <3>1. hop = far /\ (hop > 0 => path[hop].id = ctx.id /\ path[hop].priority = ctx.priority)
            /\ (ctx.drop => ctx.priority = Absent)
        BY <1>2 DEF FinishTrace, IInv, FateInv
      <3>2. (fate' = "kept") = (ctx.priority # Absent /\ ctx.priority > 0 /\ ~ctx.drop)
        BY <1>2 DEF FinishTrace
      <3> QED BY <2>1, <3>1, <3>2 DEF FateInv, Keeps
    <2>5. AllAgree'
      BY <2>1 DEF IInv, AllAgree, Shared, Injectors, Extractors
    <2> QED BY <2>2, <2>3, <2>4, <2>5 DEF IInv
  <1>3. CASE NextTrace
    <2>1. /\ hop' = 0 /\ arrived' = NoContext /\ ctx' = NoContext /\ carrier' = Empty /\ sent' = NoContext
          /\ query' = NoQuery /\ fate' = "none" /\ path' = <<>> /\ UNCHANGED <<conf, tracer, far, clock, traces, answers, asked>>
      BY <1>3 DEF NextTrace
    <2>2. /\ Empty \in Carriers /\ 0 \in 0 .. far /\ far # 0
          /\ path' \in Seq(Visits) /\ Len(path') = 0
      BY <2>1, EmptySeq, DistributedAssumption DEF Empty, Carriers, IInv, TypeOK
    <2>3. TypeOK' /\ LimiterInv'
      BY <2>1, <2>2 DEF IInv, TypeOK, LimiterInv
    <2>4. PathInv' /\ CarrierInv' /\ QueryInv'
      BY <2>1 DEF PathInv, CarrierInv, QueryInv, Sent, Called
    <2>5. FateInv'
      BY <2>1, <2>2 DEF FateInv
    <2>6. AllAgree'
      BY <2>2 DEF AllAgree
    <2> QED BY <2>3, <2>4, <2>5, <2>6 DEF IInv
  <1> QED BY <1>1, <1>2, <1>3

LEMMA IdleInv ==
    ASSUME IInv, Tick \/ ReadRates \/ SetRate \/ UNCHANGED vars
    PROVE  IInv'
  <1>1. /\ UNCHANGED <<conf, far, traces, hop, arrived, ctx, carrier, sent, asked, query, fate, path>>
        /\ clock' = clock + 1 \/ clock' = clock
        /\ answers' = answers + 1 \/ answers' = answers
    BY DEF Tick, ReadRates, SetRate, vars
  <1>2. /\ DOMAIN tracer = 1 .. Hops /\ 1 \in 1 .. Hops /\ clock \in Nat /\ answers \in Nat
        /\ \A h \in 1 .. Hops : IsTracer(tracer[h])
    BY DistributedAssumption DEF IInv, TypeOK
  <1>3. /\ DOMAIN tracer' = 1 .. Hops
        /\ \A h \in 1 .. Hops : IsTracer(tracer'[h]) /\ tracer'[h].limiter = tracer[h].limiter
    <2>1. CASE Tick \/ UNCHANGED vars
      BY <1>2, <2>1 DEF Tick, vars
    <2>2. CASE ReadRates
      BY <1>2, <2>2 DEF ReadRates, IsTracer
    <2>3. CASE SetRate
      BY <1>2, <2>3 DEF SetRate, IsTracer
    <2> QED BY <2>1, <2>2, <2>3
  <1>4. clock' \in Nat /\ answers' \in Nat
    BY <1>1, <1>2
  <1>5. TypeOK'
    BY <1>1, <1>3, <1>4 DEF IInv, TypeOK
  <1>6. LimiterInv'
    BY <1>1, <1>2, <1>3 DEF IInv, LimiterInv
  <1>7. PathInv' /\ QueryInv' /\ FateInv'
    BY <1>1 DEF IInv, PathInv, Sent, QueryInv, FateInv
  <1>8. CarrierInv'
    BY <1>1 DEF IInv, CarrierInv, Sent, Called, Headers, Injectors, Extractors, MaxLen
  <1>9. AllAgree'
    BY <1>1 DEF IInv, AllAgree, Shared, Injectors, Extractors
  <1> QED BY <1>5, <1>6, <1>7, <1>8, <1>9 DEF IInv

LEMMA NextInv == IInv /\ [Next]_vars => IInv'
  BY EnterInv, ArriveInv, ManualInv, AnnotateInv, SendInv, LastInv, IdleInv DEF Next

\* Contexts, headers and samplers keep their types, headers hold what was injected, a
\* service works on a valid context below the one it was called with, and what the services
\* of a path made of the trace agrees.
THEOREM TracesInvariant == Spec => []IInv
  BY InitInv, NextInv, PTL DEF Spec

\* In whatever order requests reach the limiter: its counts are those of the latest ones
\* and of those before, none from its period or the second before it is missing, and
\* between two that pass no more pass than a burst and the limit over the time between.
THEOREM LimiterTellsTruth == Spec => []LimiterCounts
  <1>1. IInv => LimiterCounts
    BY TallyCounts DEF IInv
  <1> QED BY <1>1, TracesInvariant, PTL

-----------------------------------------------------------------------------
(* What a service knows of its caller. *)

\* The headers of the caller are read in the first style that the two share.
LEMMA ReadFrom ==
    ASSUME IInv, Called
    PROVE  LET max == MaxLen(hop - 1)
           IN  /\ max \in Nat /\ max <= PropagationExtractMaxSize
               /\ Valid(sent) /\ sent.span > 0
               /\ Shared(hop) = {} => arrived = NoContext
               /\ Shared(hop) # {} => /\ ReadIn \in {"datadog", "b3"}
                                      /\ ReadIn = "datadog" => /\ carrier.dd = InjectDatadog(sent, max)
                                                               /\ arrived \in ExtractDatadog(InjectDatadog(sent, max))
                                      /\ ReadIn = "b3" => arrived \in ExtractB3(InjectB3(sent))
  <1> DEFINE max == MaxLen(hop - 1)
             inj == Elements(Injectors(hop - 1))
             ext == Extractors(hop)
             both == Both(inj, ext)
  <1>1. hop - 1 \in 1 .. Hops /\ hop \in 1 .. Hops /\ hop > 1
    BY DistributedAssumption DEF IInv, TypeOK, Called
  <1>2. max \in Nat /\ max <= PropagationExtractMaxSize /\ ext \in Seq({"datadog", "b3", "none"})
    BY <1>1, Configured DEF IInv
  <1>3. Valid(sent) /\ sent.span > 0
    BY <1>1 DEF IInv, PathInv
  <1>4. carrier = Inject(inj, sent, max) /\ arrived \in Extract(ext, carrier)
    BY DEF IInv, CarrierInv, Headers
  <1>5. both = {i \in DOMAIN ext : ext[i] \in Shared(hop)} /\ (Shared(hop) = {} <=> both = {})
    BY DEF Both, Shared, Elements
  <1>6. ReadIn = ext[Min(both)]
    BY <1>5 DEF ReadIn
  <1>7. both # {} => ext[Min(both)] \in inj
    <2>1. both \in SUBSET Nat
      BY <1>2, LenProperties DEF Both
    <2>2. \A i \in both : ext[i] \in inj
      BY DEF Both
    <2> QED BY <2>1, <2>2, LeastOf
  <1> HIDE DEF inj, ext, max
  <1>8. /\ both = {} => Extract(ext, carrier) = {NoContext}
        /\ both # {} => /\ ext[Min(both)] \in {"datadog", "b3"}
                        /\ ext[Min(both)] = "datadog" => Extract(ext, carrier) = ExtractDatadog(InjectDatadog(sent, max))
                        /\ ext[Min(both)] = "b3" => Extract(ext, carrier) = ExtractB3(InjectB3(sent))
    BY <1>2, <1>3, <1>4, ExtractInjected
  <1>9. "datadog" \in inj => carrier.dd = InjectDatadog(sent, max)
    BY <1>4 DEF Inject
  <1> HIDE DEF both
  <1> QED BY <1>2, <1>3, <1>4, <1>5, <1>6, <1>7, <1>8, <1>9 DEF max

LEMMA QueryAgrees ==
    ASSUME IInv, query # NoQuery
    PROVE  /\ "trace" \in DOMAIN query.tags =>
                query.tags["trace"] = path[hop].id /\ query.tags["sampled"] = Keeps(path[hop])
           /\ query.mode \in {"", "disabled", "service", "full"} => query.text = "query"
  <1>1. ctx # NoContext /\ hop = far
    BY DEF IInv, QueryInv
  <1>2. path[hop].id = ctx.id /\ path[hop].priority = ctx.priority
    BY <1>1, DistributedAssumption DEF IInv, TypeOK, FateInv
  <1>3. PICK mode \in Modes : query = Query(mode, ctx)
    BY DEF IInv, QueryInv
  <1> DEFINE got == SQLInject("query", mode, ctx, 0)
  <1>4. query.mode = mode /\ query.text = got.text /\ query.tags = got.tags
    BY <1>3 DEF Query
  <1>5. CASE mode \in {"", "disabled"}
    <2>1. got.text = "query" /\ DOMAIN got.tags = {}
      BY <1>5 DEF SQLInject
    <2> QED BY <1>4, <2>1
  <1>6. CASE mode = "service"
    <2>1. got.text = "query" /\ DOMAIN got.tags = {"dddbs"}
      BY <1>6 DEF SQLInject, commentQuery
    <2>2. "trace" \notin {"dddbs"}
      OBVIOUS
    <2> HIDE DEF got
    <2> QED BY <1>4, <2>1, <2>2
  <1>7. CASE mode = "full"
    <2>1. got.text = "query" /\ got.tags["trace"] = ctx.id /\ got.tags["sampled"] = Keeps(ctx)
      BY <1>1, <1>7 DEF SQLInject, commentQuery, Keeps
    <2>2. Keeps(ctx) = Keeps(path[hop])
      BY <1>2 DEF Keeps
    <2> QED BY <1>2, <1>4, <2>1, <2>2
  <1>8. CASE mode \notin {"", "disabled", "service", "full"}
    <2>1. DOMAIN got.tags = {}
      BY <1>8 DEF SQLInject, commentQuery
    <2> QED BY <1>4, <1>8, <2>1
  <1> QED BY <1>5, <1>6, <1>7, <1>8

\* Services that are linked by shared styles work on one trace and keep it or not as was
\* decided before them, unless a user decides; a service that shares no style with its
\* caller starts anew; the last span and the database are told the same.
THEOREM KeepingAgreed == Spec => []KeepAgreed
  <1>1. ASSUME IInv PROVE KeepAgreed
    <2>1. ASSUME Called, Shared(hop) # {} PROVE arrived # NoContext /\ arrived.span = sent.span
      <3>1. CASE ReadIn = "datadog"
        <4>1. Valid(sent) /\ sent.span > 0 /\ arrived \in ExtractDatadog(InjectDatadog(sent, MaxLen(hop - 1)))
          BY <1>1, <2>1, <3>1, ReadFrom
        <4>2. arrived \in Contexts /\ arrived.span = sent.span
          BY <1>1, <2>1, <4>1, ReadFrom, DatadogArrives, ZenonT(60)
        <4> QED BY <4>2, AbsentAssumption
      <3>2. CASE ReadIn = "b3"
        <4>1. Valid(sent) /\ sent.span > 0 /\ arrived \in ExtractB3(InjectB3(sent))
          BY <1>1, <2>1, <3>2, ReadFrom
        <4> QED BY <4>1, B3Arrives, AbsentAssumption
      <3> QED BY <1>1, <2>1, <3>1, <3>2, ReadFrom
    <2>2. Called /\ Shared(hop) = {} => arrived = NoContext
      BY <1>1, ReadFrom
    <2>3. fate # "none" => (fate = "kept") = Keeps(path[hop])
      <3>1. fate # "none" => hop > 0 /\ (fate = "kept") = Keeps(ctx)
        BY <1>1, DistributedAssumption DEF IInv, TypeOK, FateInv
      <3>2. hop > 0 => Keeps(path[hop]) = Keeps(ctx)
        BY <1>1 DEF IInv, FateInv, Keeps
      <3> QED BY <3>1, <3>2
    <2>4. AllAgree
      BY <1>1 DEF IInv
    <2>5. Called => IF Shared(hop) = {} THEN arrived = NoContext
                    ELSE arrived # NoContext /\ arrived.span = sent.span
      BY <2>1, <2>2
    <2>6. query # NoQuery =>
             /\ "trace" \in DOMAIN query.tags =>
                  query.tags["trace"] = path[hop].id /\ query.tags["sampled"] = Keeps(path[hop])
             /\ query.mode \in {"", "disabled", "service", "full"} => query.text = "query"
      BY <1>1, QueryAgrees
    <2> QED BY <2>3, <2>4, <2>5, <2>6, Zenon DEF KeepAgreed
  <1> QED BY <1>1, TracesInvariant, PTL

\* Origin, baggage and trace tags arrive in the Datadog style, the tags all or none; in B3
\* nothing of them does; and no service keeps a decision maker with a rejection.
THEOREM TagsArriveOrNot == Spec => []TagsArrive
  <1>1. ASSUME IInv PROVE TagsArrive
    <2>1. ASSUME Called, Shared(hop) # {}, ReadIn = "datadog"
          PROVE  LET good == sent.tags \ BadTags
                     max  == MaxLen(hop - 1)
                 IN  /\ arrived.origin = sent.origin /\ arrived.baggage = sent.baggage
                     /\ arrived.tags \in {good, good \ {keyDecisionMaker}, {}}
                     /\ HeaderLen(good) <= max => good \ {keyDecisionMaker} \subseteq arrived.tags
                     /\ carrier.dd.len <= max + 2
                     /\ HeaderLen(good) > max + 2 => arrived.tags = {}
      <3> DEFINE max == MaxLen(hop - 1)
      <3>1. /\ max \in Nat /\ max <= PropagationExtractMaxSize /\ Valid(sent) /\ sent.span > 0
            /\ carrier.dd = InjectDatadog(sent, max) /\ arrived \in ExtractDatadog(InjectDatadog(sent, max))
        BY <1>1, <2>1, ReadFrom, ZenonT(60)
      <3> HIDE DEF max
      <3>2. LET good == sent.tags \ BadTags
            IN  /\ arrived.origin = sent.origin /\ arrived.baggage = sent.baggage
                /\ arrived.tags \in {good, good \ {keyDecisionMaker}, {}}
                /\ HeaderLen(good) <= max => good \ {keyDecisionMaker} \subseteq arrived.tags
                /\ HeaderLen(good) > max + 2 => arrived.tags = {}
                /\ InjectDatadog(sent, max).len <= max + 2
        BY <3>1, DatadogArrives, ZenonT(60)
      <3> QED BY <3>1, <3>2, ZenonT(60) DEF max
    <2>2. ASSUME Called, Shared(hop) # {}, ReadIn = "b3" PROVE arrived.tags = {} /\ ~arrived.baggage
      BY <1>1, <2>2, ReadFrom, B3Arrives
    <2>3. ctx # NoContext => Decided(ctx)
      BY <1>1 DEF IInv, PathInv, TypeOK
    <2> QED BY <2>1, <2>2, <2>3 DEF TagsArrive, Decided
  <1> QED BY <1>1, TracesInvariant, PTL

-----------------------------------------------------------------------------
(***************************************************************************)
(* The messages that carry a context to a queue: theorems about Producers, *)
(* for any set of messages and any capacity of the libraries' channels.    *)
(***************************************************************************)
ProducerInv == ProducerTypeOK /\ HoldInv /\ Matched

LEMMA ProducerInitInv == ProducerInit => ProducerInv
  BY ProducersAssumption DEF ProducerInit, ProducerInv, ProducerTypeOK, HoldInv, Matched, Results, At, Unreported

-----------------------------------------------------------------------------
(* One lemma for each step. *)

LEMMA InputInv ==
    ASSUME ProducerInv, NEW m \in Messages, Input(m)
    PROVE  ProducerInv'
  <1> USE ProducersAssumption DEF ProducerInv, Input, settings
  <1>1. ProducerTypeOK' /\ HoldInv'
    BY DEF ProducerTypeOK, HoldInv
  <1>2. Matched'
    BY DEF ProducerTypeOK, HoldInv, Matched, Results, At, Unreported
  <1> QED BY <1>1, <1>2

LEMMA HandInv ==
    ASSUME ProducerInv, Hand
    PROVE  ProducerInv'
  <1> USE ProducersAssumption DEF ProducerInv, Hand, settings
  <1>1. hold \in Messages /\ at[hold] = "wrapper"
    BY DEF ProducerTypeOK, HoldInv
  <1>2. ProducerTypeOK' /\ HoldInv'
    BY <1>1 DEF ProducerTypeOK, HoldInv, Results
  <1>3. At("library")' = At("library") \cup {hold} /\ At("report")' = At("report") /\ Unreported' = Unreported
    BY <1>1 DEF ProducerTypeOK, At, Unreported
  <1>4. Matched'
    BY <1>1, <1>2, <1>3 DEF ProducerTypeOK, HoldInv, Matched, Results
  <1> QED BY <1>2, <1>4

LEMMA TakeInv ==
    ASSUME ProducerInv, NEW m \in Messages, Take(m)
    PROVE  ProducerInv'
  <1> USE ProducersAssumption DEF ProducerInv, Take, settings
  <1>1. ProducerTypeOK' /\ HoldInv'
    BY DEF ProducerTypeOK, HoldInv, Results
  <1>2. At("library")' = At("library") /\ At("report")' = At("report") \ {m} /\ Unreported' = Unreported
        /\ m \notin At("library") \cup Unreported
    BY DEF ProducerTypeOK, At, Unreported
  <1>3. span[m] \notin Results
    BY DEF Matched
  <1>4. m \in At("report")
    BY DEF At
  <1>5. Matched'
    <2>1. \A n \in Messages : n # m => at'[n] = at[n] /\ span'[n] = span[n] /\ result'[n] = result[n]
      BY DEF ProducerTypeOK
    <2>2. at'[m] = "forward" /\ result'[m] = result[m] /\ (span'[m] = span[m] \/ span'[m] = result[m])
      BY DEF ProducerTypeOK
    <2>3. (\A n \in Messages : span[n] \in Results => span[n] = result[n] /\ at[n] \in {"forward", "app"})'
      BY <1>3, <2>1, <2>2 DEF Matched
    <2>4. (headers /\ "ok" \in returns /\ lib = "sarama" /\ closing # "Close" =>
             spans = At("library") \cup At("report") \cup Unreported)'
      BY <1>2, <1>4 DEF Matched
    <2> QED BY <2>2, <2>3, <2>4 DEF Matched
  <1> QED BY <1>1, <1>5

LEMMA ForwardInv ==
    ASSUME ProducerInv, Forward
    PROVE  ProducerInv'
  <1> USE ProducersAssumption DEF ProducerInv, Forward, settings
  <1>1. hold \in Messages /\ at[hold] = "forward"
    BY DEF ProducerTypeOK, HoldInv
  <1>2. ProducerTypeOK' /\ HoldInv'
    BY <1>1 DEF ProducerTypeOK, HoldInv
  <1>3. At("library")' = At("library") /\ At("report")' = At("report") /\ Unreported' = Unreported
    BY <1>1 DEF ProducerTypeOK, At, Unreported
  <1>4. Matched'
    BY <1>1, <1>2, <1>3 DEF ProducerTypeOK, HoldInv, Matched
  <1> QED BY <1>2, <1>4

LEMMA ProduceInv ==
    ASSUME ProducerInv, NEW m \in Messages, Produce(m) \/ Delivered(m)
    PROVE  ProducerInv'
  <1> USE ProducersAssumption DEF ProducerInv, Produce, Delivered, settings
  <1>1. lib = "confluent" /\ UNCHANGED <<lib, headers, returns, result, spans, pc, hold, closing, closed>>
    OBVIOUS
  <1>2. ProducerTypeOK' /\ HoldInv'
    BY DEF ProducerTypeOK, HoldInv, Results
  <1>3. Matched'
    BY <1>1, <1>2 DEF ProducerTypeOK, HoldInv, Matched, Results
  <1> QED BY <1>2, <1>3

\* The library decides and reports, or takes a report back on closing.
LEMMA LibraryInv ==
    ASSUME ProducerInv, NEW m \in Messages, Decide(m) \/ Report(m) \/ Drain(m)
    PROVE  ProducerInv'
  <1> USE ProducersAssumption DEF ProducerInv, settings
  <1>1. CASE Decide(m)
    <2>1. ProducerTypeOK' /\ HoldInv'
      BY <1>1 DEF Decide, ProducerTypeOK, HoldInv
    <2>2. At("library")' = At("library") /\ At("report")' = At("report") /\ Unreported' = Unreported
      BY <1>1 DEF Decide, ProducerTypeOK, At, Unreported
    <2>3. Matched'
      BY <1>1, <2>2 DEF Decide, ProducerTypeOK, Matched
    <2> QED BY <2>1, <2>3
  <1>2. CASE Report(m)
    <2>0. /\ lib = "sarama" /\ at[m] = "library"
          /\ UNCHANGED <<lib, headers, returns, result, span, spans, pc, hold, closing, closed>>
          /\ at' \in {[at EXCEPT ![m] = "gone"], [at EXCEPT ![m] = "report"]}
          /\ result[m] \in returns => at' = [at EXCEPT ![m] = "report"]
          /\ result[m] \notin returns => at' = [at EXCEPT ![m] = "gone"]
      BY <1>2 DEF Report
    <2>1. ProducerTypeOK' /\ HoldInv'
      BY <2>0 DEF ProducerTypeOK, HoldInv
    <2>2. (At("library") \cup At("report") \cup Unreported)' = At("library") \cup At("report") \cup Unreported
      BY <2>0 DEF ProducerTypeOK, At, Unreported
    <2>3. Matched'
      BY <2>0, <2>1, <2>2 DEF ProducerTypeOK, HoldInv, Matched
    <2> QED BY <2>1, <2>3
  <1>3. CASE Drain(m)
    <2>1. ProducerTypeOK' /\ HoldInv'
      BY <1>3 DEF Drain, ProducerTypeOK, HoldInv
    <2>2. Matched'
      BY <1>3, <2>1 DEF Drain, ProducerTypeOK, HoldInv, Matched
    <2> QED BY <2>1, <2>2
  <1> QED BY <1>1, <1>2, <1>3

LEMMA CloseInv ==
    ASSUME ProducerInv, Exit \/ CloseProducer \/ Shutdown \/ UNCHANGED producerVars
    PROVE  ProducerInv'
  <1> USE ProducersAssumption DEF ProducerInv, Exit, CloseProducer, Shutdown, producerVars, settings
  <1>1. ProducerTypeOK' /\ HoldInv'
    BY DEF ProducerTypeOK, HoldInv
  <1>2. At("library")' = At("library") /\ At("report")' = At("report") /\ Unreported' = Unreported
    BY DEF At, Unreported
  <1>3. Matched'
    BY <1>2 DEF ProducerTypeOK, HoldInv, Matched
  <1> QED BY <1>1, <1>3

LEMMA ProducerNextInv == ProducerInv /\ [ProducerNext]_producerVars => ProducerInv'
  <1> SUFFICES ASSUME ProducerInv, [ProducerNext]_producerVars PROVE ProducerInv'
    OBVIOUS
  <1>1. CASE UNCHANGED producerVars \/ Ended \/ CloseProducer
    BY <1>1, CloseInv DEF Ended
  <1>2. CASE Wrapped
    BY <1>2, HandInv, ForwardInv, CloseInv, TakeInv, ProduceInv DEF Wrapped
  <1>3. CASE Library
    BY <1>3, CloseInv, LibraryInv DEF Library
  <1>4. ASSUME NEW m \in Messages, Input(m) \/ Produce(m) PROVE ProducerInv'
    BY <1>4, InputInv, ProduceInv
  <1> QED BY <1>1, <1>2, <1>3, <1>4 DEF ProducerNext

\* Whatever the order of inputs, reports and closing: a finished span tells what the
\* library decided about its message, the wrapper's map has exactly the spans whose
\* reports are to come and those whose failures are not reported, and no message a goroutine holds is anywhere else.
THEOREM ReportsMatched == ProducerSpec => []Matched
  <1>1. ProducerInv => Matched
    BY DEF ProducerInv
  <1> QED BY <1>1, ProducerInitInv, ProducerNextInv, PTL DEF ProducerSpec

\* Producers is type correct.
THEOREM ProducersTyped == ProducerSpec => []ProducerTypeOK
  <1>1. ProducerInv => ProducerTypeOK
    BY DEF ProducerInv
  <1> QED BY <1>1, ProducerInitInv, ProducerNextInv, PTL DEF ProducerSpec
=============================================================================

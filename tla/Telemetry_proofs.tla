--------------------------- MODULE Telemetry_proofs ---------------------------
(***************************************************************************)
(* Theorems about Telemetry, for any keys and values of metrics and any    *)
(* number of Starts, updates and heartbeats.                               *)
(***************************************************************************)
EXTENDS Telemetry, FiniteSetTheorems, SequenceTheorems, TLAPS

-----------------------------------------------------------------------------
(* The messages made so far, as a log that grows. *)

LEMMA RequestShape ==
    ASSUME NEW m \in Request
    PROVE  m.type \in Types /\ m.seq \in Nat /\ m.run \in Nat
  BY DEF Request

LEMMA LogNumbers ==
    ASSUME NEW M, NEW s \in Nat, NEW r \in Nat, Log(M, s, r), NEW m \in M
    PROVE  /\ m.seq \in Nat /\ m.run \in Nat /\ m.type \in Types
           /\ 1 <= m.seq /\ m.seq <= s /\ m.run <= r
  <1>1. m \in Request /\ m.seq \in 1 .. s /\ m.run <= r
    BY DEF Log
  <1> QED BY <1>1, RequestShape

\* The next message gets the next number and the current run, which is a new one if it
\* is an app-started; a heartbeat is of a run that is not closed.
LEMMA LogGrows ==
    ASSUME NEW M, NEW s \in Nat, NEW r \in Nat, Log(M, s, r),
           NEW x \in Request, x.seq = s + 1, r <= x.run,
           x.type = "app-started" => r < x.run,
           x.type = "app-heartbeat" => \A m \in M : m.type = "app-closing" => m.run # x.run
    PROVE  Log(M \cup {x}, s + 1, x.run) /\ x \notin M
  <1>0. x.run \in Nat
    BY RequestShape
  <1>1. \A m \in M : m.seq \in Nat /\ m.run \in Nat /\ m.seq < x.seq /\ m.run <= x.run
    BY <1>0, LogNumbers
  <1>2. x \notin M
    BY <1>1
  <1>3. IsFiniteSet(M \cup {x}) /\ Cardinality(M \cup {x}) = s + 1
    BY <1>2, FS_AddElement DEF Log
  <1>4. {m.seq : m \in M \cup {x}} = 1 .. s + 1
    <2>1. {m.seq : m \in M \cup {x}} = {m.seq : m \in M} \cup {s + 1}
      OBVIOUS
    <2>2. 1 .. s + 1 = (1 .. s) \cup {s + 1}
      OBVIOUS
    <2> QED BY <2>1, <2>2 DEF Log
  <1>5. \A m, n \in M \cup {x} : m.seq = n.seq => m = n
    BY <1>1 DEF Log
  <1>6. ASSUME NEW m \in M \cup {x}, NEW n \in M \cup {x}
        PROVE  /\ (m.type = "app-started" /\ m.run <= n.run /\ m # n) => m.seq < n.seq
               /\ (m.run < n.run) => m.seq < n.seq
               /\ (m.type = "app-closing" /\ n.type = "app-heartbeat" /\ m.run = n.run) => n.seq < m.seq
    <2>1. CASE m \in M /\ n \in M
      BY <2>1 DEF Log, Bracketed
    <2>2. CASE m \in M /\ n = x
      BY <1>1, <2>2
    <2>3. CASE m = x /\ n \in M
      <3>1. n.run <= r /\ n.run \in Nat
        BY <2>3, LogNumbers
      <3> QED BY <1>0, <1>1, <2>3, <3>1
    <2>4. CASE m = x /\ n = x
      BY <1>0, <2>4
    <2> QED BY <2>1, <2>2, <2>3, <2>4
  <1>7. \A m \in M \cup {x} : m.run <= x.run
    BY <1>0, <1>1
  <1>8. M \cup {x} \subseteq Request
    BY DEF Log
  <1>9. Bracketed(M \cup {x})
    BY <1>6 DEF Bracketed
  <1> QED BY <1>2, <1>3, <1>4, <1>5, <1>7, <1>8, <1>9 DEF Log

\* A metrics message is the latest when it is made, and stays so while others follow.
LEMMA LatestGrows ==
    ASSUME NEW M, NEW s \in Nat, NEW r \in Nat, Log(M, s, r), NEW mets, NEW x \in Request, x.seq = s + 1
    PROVE  /\ (x.type = "generate-metrics" /\ x.metrics = mets) => Latest(M \cup {x}, mets)
           /\ (x.type # "generate-metrics" /\ Latest(M, mets)) => Latest(M \cup {x}, mets)
  <1>1. \A m \in M : m.seq \in Nat /\ m.seq <= x.seq
    BY LogNumbers
  <1>2. x.seq <= x.seq
    OBVIOUS
  <1>3. ASSUME x.type = "generate-metrics", x.metrics = mets PROVE Latest(M \cup {x}, mets)
    BY <1>1, <1>2, <1>3 DEF Latest
  <1>4. ASSUME x.type # "generate-metrics", Latest(M, mets) PROVE Latest(M \cup {x}, mets)
    BY <1>4 DEF Latest
  <1> QED BY <1>3, <1>4

-----------------------------------------------------------------------------
(* What the goroutines of flush have yet to post. *)

IInv == TypeOK /\ TimerInv /\ LogInv /\ PostedOnce /\ MetricsReported

LEMMA InQueues ==
    ASSUME NEW P, NEW x
    PROVE  x \in UNION {ToSet(p) : p \in P} <=> \E p \in P : x \in ToSet(p)
  OBVIOUS

LEMMA QueuedIs ==
    /\ \A x : x \in Queued <=> \E p \in posting : x \in ToSet(p)
    /\ \A x : x \in Queued' <=> \E p \in posting' : x \in ToSet(p)
  BY InQueues, Zenon DEF Queued

LEMMA ShortSeqs ==
    ASSUME NEW S, NEW a \in S, NEW b \in S
    PROVE  /\ <<a>> \in Seq(S) \ {<<>>} /\ <<a, b>> \in Seq(S) \ {<<>>}
           /\ <<a>> \o <<b>> = <<a, b>> /\ <<>> \o <<b>> = <<b>> /\ <<a>> \o <<>> = <<a>>
           /\ <<>> \o <<>> = <<>>
  <1>1. /\ <<a>> \in Seq(S) /\ <<b>> \in Seq(S) /\ <<a, b>> \in Seq(S) /\ <<>> \in Seq(S)
        /\ Len(<<a>>) = 1 /\ Len(<<a, b>>) = 2 /\ Len(<<>>) = 0
    OBVIOUS
  <1>2. Append(<<a>>, b) = <<a>> \o <<b>>
    BY <1>1, AppendIsConcat
  <1>3. Append(<<a>>, b) = <<a, b>>
    <2>1. Append(<<a>>, b) \in Seq(S) /\ Len(Append(<<a>>, b)) = 2
      BY <1>1
    <2>2. Append(<<a>>, b)[1] = a /\ Append(<<a>>, b)[2] = b /\ <<a, b>>[1] = a /\ <<a, b>>[2] = b
      BY <1>1
    <2>3. \A i \in 1 .. 2 : i = 1 \/ i = 2
      OBVIOUS
    <2>4. \A i \in 1 .. Len(Append(<<a>>, b)) : Append(<<a>>, b)[i] = <<a, b>>[i]
      BY <2>1, <2>2, <2>3
    <2> QED BY <1>1, <2>1, <2>4, SeqEqual
  <1>4. <<>> \o <<b>> = <<b>> /\ <<a>> \o <<>> = <<a>> /\ <<>> \o <<>> = <<>>
    BY <1>1, ConcatEmptySeq
  <1>5. <<a>> # <<>> /\ <<a, b>> # <<>>
    BY <1>1
  <1> QED BY <1>1, <1>2, <1>3, <1>4, <1>5

LEMMA ShortSets ==
    ASSUME NEW a, NEW b
    PROVE  /\ ToSet(<<a>>) = {a} /\ IsInjective(<<a>>)
           /\ ToSet(<<a, b>>) = {a, b} /\ (a # b => IsInjective(<<a, b>>))
  <1>1. DOMAIN <<a>> = {1} /\ DOMAIN <<a, b>> = {1, 2}
    OBVIOUS
  <1>2. <<a>>[1] = a /\ <<a, b>>[1] = a /\ <<a, b>>[2] = b
    OBVIOUS
  <1> QED BY <1>1, <1>2 DEF ToSet, IsInjective

\* The queue q of new messages is given to a goroutine.
LEMMA Push ==
    ASSUME PostedOnce, UNCHANGED <<beating, posted>>, NEW q, posting' = posting \cup {q},
           ToSet(q) \cap Made = {}, ToSet(q) \subseteq Request, IsInjective(q)
    PROVE  Made' = Made \cup ToSet(q) /\ PostedOnce'
  <1>1. Queued' = Queued \cup ToSet(q)
    BY QueuedIs
  <1>2. Made' = Made \cup ToSet(q)
    BY <1>1 DEF Made
  <1>3. ToSet(q) \cap posted = {} /\ ToSet(q) \cap Queued = {}
    BY DEF Made
  <1>4. beating \notin ToSet(q)
    BY NilAssumption DEF Made
  <1>5. \A p \in posting : ToSet(q) \cap ToSet(p) = {}
    <2>1. \A p \in posting : ToSet(p) \subseteq Queued
      BY DEF Queued
    <2> QED BY <1>3, <2>1
  <1>6. PostedOnce'
    BY <1>3, <1>4, <1>5 DEF PostedOnce
  <1> QED BY <1>2, <1>6

\* A goroutine posts the first of its messages.
LEMMA Pop ==
    ASSUME TypeOK, PostedOnce, NEW p \in posting, Post(p)
    PROVE  Made' = Made /\ PostedOnce' /\ posted' \subseteq Request /\ posting' \subseteq Seq(Request) \ {<<>>}
  <1>1. p \in Seq(Request) /\ p # <<>>
    BY DEF TypeOK
  <1>2. /\ Len(p) \in Nat /\ Len(p) >= 1 /\ Head(p) = p[1] /\ Head(p) \in Request
        /\ Tail(p) \in Seq(Request) /\ Len(Tail(p)) = Len(p) - 1 /\ DOMAIN p = 1 .. Len(p)
        /\ DOMAIN Tail(p) = 1 .. Len(Tail(p))
        /\ \A i \in 1 .. Len(Tail(p)) : i + 1 \in 1 .. Len(p) /\ Tail(p)[i] = p[i + 1]
    BY <1>1
  <1>3. ToSet(p) = {p[i] : i \in 1 .. Len(p)} /\ ToSet(Tail(p)) = {Tail(p)[i] : i \in 1 .. Len(Tail(p))}
    BY <1>2 DEF ToSet
  <1>4. \A i, j \in 1 .. Len(p) : p[i] = p[j] => i = j
    BY <1>2 DEF PostedOnce, IsInjective
  <1>5. IsInjective(Tail(p))
    <2> SUFFICES ASSUME NEW i \in 1 .. Len(Tail(p)), NEW j \in 1 .. Len(Tail(p)), Tail(p)[i] = Tail(p)[j]
                 PROVE  i = j
      BY <1>2 DEF IsInjective
    <2>1. i + 1 \in 1 .. Len(p) /\ j + 1 \in 1 .. Len(p) /\ p[i + 1] = p[j + 1]
      BY <1>2
    <2>2. i + 1 = j + 1
      BY <1>4, <2>1
    <2> QED BY <2>2
  <1>6. ToSet(p) = {Head(p)} \cup ToSet(Tail(p))
    <2>1. ASSUME NEW i \in 1 .. Len(p) PROVE p[i] \in {Head(p)} \cup ToSet(Tail(p))
      <3>1. CASE i = 1
        BY <1>2, <3>1
      <3>2. CASE i # 1
        <4>1. i - 1 \in 1 .. Len(Tail(p)) /\ (i - 1) + 1 = i
          BY <1>2, <3>2
        <4>2. Tail(p)[i - 1] = p[i]
          BY <1>2, <4>1
        <4> QED BY <1>3, <4>1, <4>2
      <3> QED BY <3>1, <3>2
    <2>2. 1 \in 1 .. Len(p)
      BY <1>2
    <2>3. Head(p) \in ToSet(p)
      BY <1>2, <1>3, <2>2
    <2>4. ToSet(Tail(p)) \subseteq ToSet(p)
      BY <1>2, <1>3
    <2> QED BY <1>3, <2>1, <2>3, <2>4
  <1>7. Head(p) \notin ToSet(Tail(p))
    <2> SUFFICES ASSUME NEW i \in 1 .. Len(Tail(p)), Tail(p)[i] = Head(p) PROVE FALSE
      BY <1>3
    <2>1. i + 1 \in 1 .. Len(p) /\ 1 \in 1 .. Len(p) /\ p[i + 1] = p[1]
      BY <1>2
    <2>2. i + 1 = 1
      BY <1>4, <2>1
    <2> QED BY <2>2
  <1>8. /\ posted' = posted \cup {Head(p)} /\ UNCHANGED beating
        /\ posting' = (posting \ {p}) \cup (IF Len(p) = 1 THEN {} ELSE {Tail(p)})
    BY DEF Post, submit
  <1>9. Len(p) = 1 => ToSet(Tail(p)) = {}
    BY <1>2, <1>3
  <1>10. Made' = Made
    <2>1. PICK R : R = UNION {ToSet(q) : q \in posting \ {p}}
      OBVIOUS
    <2>2. \A x : x \in R <=> \E q \in posting \ {p} : x \in ToSet(q)
      BY <2>1, InQueues, Zenon
    <2>3. \A x : x \in Queued <=> \E q \in posting : x \in ToSet(q)
      BY QueuedIs
    <2>4. \A x : x \in Queued' <=> \E q \in posting' : x \in ToSet(q)
      BY QueuedIs
    <2>5. Queued = R \cup ToSet(p)
      BY <2>2, <2>3
    <2>6. Queued' = R \cup ToSet(Tail(p))
      <3>1. CASE Len(p) = 1
        BY <1>8, <1>9, <2>2, <2>4, <3>1
      <3>2. CASE Len(p) # 1
        BY <1>8, <2>2, <2>4, <3>2
      <3> QED BY <3>1, <3>2
    <2>7. posted' \cup Queued' = posted \cup Queued
      BY <1>6, <1>8, <2>5, <2>6
    <2> QED BY <1>8, <2>7 DEF Made
  <1>11. PostedOnce'
    <2>1. \A q \in posting \ {p} :
             /\ ToSet(q) \cap (posted \cup {beating}) = {} /\ IsInjective(q)
             /\ ToSet(p) \cap ToSet(q) = {} /\ ToSet(q) \cap ToSet(p) = {}
             /\ \A r \in posting \ {q} : ToSet(q) \cap ToSet(r) = {}
      BY DEF PostedOnce
    <2>2. ToSet(p) \cap (posted \cup {beating}) = {} /\ beating \notin posted
      BY DEF PostedOnce
    <2>0. beating' \notin posted'
      BY <1>6, <1>8, <2>2
    <2> SUFFICES ASSUME NEW q \in posting'
                 PROVE  /\ ToSet(q) \cap (posted' \cup {beating'}) = {} /\ IsInjective(q)
                        /\ \A r \in posting' \ {q} : ToSet(q) \cap ToSet(r) = {}
      BY <2>0 DEF PostedOnce
    <2>3. CASE q \in posting \ {p}
      <3>1. ToSet(q) \cap (posted' \cup {beating'}) = {}
        BY <1>6, <1>8, <2>1, <2>3
      <3>2. ASSUME NEW r \in posting' \ {q} PROVE ToSet(q) \cap ToSet(r) = {}
        BY <1>6, <1>8, <2>1, <2>3
      <3> QED BY <2>1, <2>3, <3>1, <3>2
    <2>4. CASE q = Tail(p) /\ q \notin posting \ {p}
      <3>1. ToSet(q) \cap (posted' \cup {beating'}) = {}
        BY <1>6, <1>7, <1>8, <2>2, <2>4
      <3>2. ASSUME NEW r \in posting' \ {q} PROVE ToSet(q) \cap ToSet(r) = {}
        BY <1>6, <1>8, <2>1, <2>4
      <3> QED BY <1>5, <2>4, <3>1, <3>2
    <2> QED BY <1>8, <2>3, <2>4
  <1>12. posted' \subseteq Request
    BY <1>2, <1>8 DEF TypeOK
  <1>13. posting' \subseteq Seq(Request) \ {<<>>}
    <2>1. Len(p) # 1 => Tail(p) # <<>>
      BY <1>2
    <2> QED BY <1>2, <1>8, <2>1 DEF TypeOK
  <1> QED BY <1>10, <1>11, <1>12, <1>13

-----------------------------------------------------------------------------
(* The messages that an operation makes. *)

\* One message x.
LEMMA OneMore ==
    ASSUME IInv, NEW x \in Request, x.seq = seqID + 1, run <= x.run,
           x.type = "app-started" => run < x.run,
           x.type = "app-heartbeat" => \A m \in Made : m.type = "app-closing" => m.run # x.run,
           seqID' = seqID + 1, run' = x.run,
           \/ UNCHANGED <<beating, posted>> /\ posting' = posting \cup {<<x>>}
           \/ UNCHANGED <<posting, posted>> /\ beating = Nil /\ beating' = x
    PROVE  /\ Made' = Made \cup {x} /\ Log(Made', seqID', run') /\ PostedOnce'
           /\ posting' \subseteq Seq(Request) \ {<<>>} /\ beating' \in Request \cup {Nil}
  <1> USE DEF IInv
  <1>0. seqID \in Nat /\ run \in Nat /\ Log(Made, seqID, run)
    BY DEF TypeOK, LogInv
  <1>1. Log(Made \cup {x}, seqID + 1, x.run) /\ x \notin Made
    BY <1>0, LogGrows
  <1>2. Made' = Made \cup {x} /\ PostedOnce'
    <2>1. CASE UNCHANGED <<beating, posted>> /\ posting' = posting \cup {<<x>>}
      <3>1. ToSet(<<x>>) = {x} /\ IsInjective(<<x>>)
        BY ShortSets
      <3>2. ToSet(<<x>>) \cap Made = {}
        BY <1>1, <3>1
      <3>3. ToSet(<<x>>) \subseteq Request
        BY <3>1
      <3> QED BY <2>1, <3>1, <3>2, <3>3, Push
    <2>2. CASE UNCHANGED <<posting, posted>> /\ beating = Nil /\ beating' = x
      <3>1. x # Nil
        BY NilAssumption
      <3>2. Made' = Made \cup {x}
        <4>1. Queued' = Queued
          BY <2>2, Zenon DEF Queued
        <4> QED BY <2>2, <3>1, <4>1 DEF Made
      <3>3. x \notin posted /\ \A p \in posting : x \notin ToSet(p)
        BY <1>1 DEF Made, Queued
      <3>4. PostedOnce'
        BY <2>2, <3>3 DEF PostedOnce
      <3> QED BY <3>2, <3>4
    <2> QED BY <2>1, <2>2
  <1>3. posting' \subseteq Seq(Request) \ {<<>>} /\ beating' \in Request \cup {Nil}
    <2>1. <<x>> \in Seq(Request) \ {<<>>}
      BY ShortSeqs, Zenon
    <2> QED BY <2>1, Zenon DEF TypeOK
  <1> QED BY <1>1, <1>2, <1>3

\* Two messages x and g of the same run; g is posted first.
LEMMA TwoMore ==
    ASSUME IInv, NEW x \in Request, NEW g \in Request, x.seq = seqID + 1, g.seq = seqID + 2,
           x.run = run, g.run = run, x.type = "app-closing", g.type = "generate-metrics",
           seqID' = seqID + 2, run' = run,
           UNCHANGED <<beating, posted>>, posting' = posting \cup {<<g, x>>}
    PROVE  /\ Made' = Made \cup {x, g} /\ Log(Made', seqID', run') /\ PostedOnce'
           /\ Log(Made \cup {x}, seqID + 1, run)
           /\ posting' \subseteq Seq(Request) \ {<<>>} /\ beating' \in Request \cup {Nil}
  <1> USE DEF IInv
  <1>0. seqID \in Nat /\ run \in Nat /\ Log(Made, seqID, run)
    BY DEF TypeOK, LogInv
  <1>1. Log(Made \cup {x}, seqID + 1, run) /\ x \notin Made
    BY <1>0, LogGrows
  <1>2. Log((Made \cup {x}) \cup {g}, (seqID + 1) + 1, run) /\ g \notin Made \cup {x}
    <2>1. seqID + 1 \in Nat /\ g.seq = (seqID + 1) + 1 /\ run <= g.run
      BY <1>0
    <2>2. g.type # "app-started" /\ g.type # "app-heartbeat"
      OBVIOUS
    <2>3. Log((Made \cup {x}) \cup {g}, (seqID + 1) + 1, g.run) /\ g \notin Made \cup {x}
      BY <1>0, <1>1, <2>1, <2>2, LogGrows, Zenon
    <2> QED BY <2>3
  <1>3. (Made \cup {x}) \cup {g} = Made \cup {x, g} /\ (seqID + 1) + 1 = seqID + 2
    BY <1>0
  <1>4. ToSet(<<g, x>>) = {g, x} /\ IsInjective(<<g, x>>)
    BY <1>2, ShortSets
  <1>5. ToSet(<<g, x>>) \cap Made = {}
    BY <1>1, <1>2, <1>4
  <1>6. Made' = Made \cup {g, x} /\ PostedOnce'
    <2>1. ToSet(<<g, x>>) \subseteq Request
      BY <1>4
    <2> QED BY <1>4, <1>5, <2>1, Push
  <1>7. posting' \subseteq Seq(Request) \ {<<>>} /\ beating' \in Request \cup {Nil}
    <2>1. <<g, x>> \in Seq(Request) \ {<<>>}
      BY ShortSeqs, Zenon
    <2> QED BY <2>1, Zenon DEF TypeOK
  <1>8. Made \cup {g, x} = Made \cup {x, g}
    OBVIOUS
  <1> QED BY <1>1, <1>2, <1>3, <1>6, <1>7, <1>8

LEMMA NoMetricsTyped == NoMetrics \in [Keys -> Metric \cup {Nil}]
  BY DEF NoMetrics

LEMMA RequestTyped ==
    ASSUME NEW t \in Types, NEW s \in Nat, NEW r \in Nat, NEW mets \in [Keys -> Metric \cup {Nil}]
    PROVE  [type |-> t, seq |-> s, run |-> r, metrics |-> mets] \in Request
  BY DEF Request

LEMMA StartStep ==
    ASSUME IInv, Start
    PROVE  IInv'
  <1> USE DEF IInv
  <1>0. ~newMetrics /\ seqID \in Nat /\ run \in Nat /\ run < MaxStarts /\ beating = Nil
    BY DEF Start, Unlocked, MetricsReported, TypeOK
  <1>1. PICK x : x = [type |-> "app-started", seq |-> seqID + 1, run |-> run + 1, metrics |-> NoMetrics]
    OBVIOUS
  <1>2. x \in Request /\ x.seq = seqID + 1 /\ x.run = run + 1 /\ x.type = "app-started"
    BY <1>0, <1>1, RequestTyped, NoMetricsTyped DEF Types
  <1>3. /\ posting' = posting \cup {<<x>>} /\ seqID' = seqID + 1 /\ newMetrics' = FALSE
        /\ run' = run + 1 /\ started' = TRUE /\ metrics' = NoMetrics /\ flushT' = TRUE /\ heartbeatT' = TRUE
        /\ UNCHANGED <<flushes, beats, beating, posted, updates, beaten>>
    BY <1>0, <1>1 DEF Start, flush, newRequest
  <1>4. /\ Made' = Made \cup {x} /\ Log(Made', seqID', run') /\ PostedOnce'
        /\ posting' \subseteq Seq(Request) \ {<<>>}
    BY <1>0, <1>2, <1>3, OneMore
  <1>5. run' \in 0 .. MaxStarts
    BY <1>0, <1>3, BoundAssumption
  <1>6. TypeOK'
    <2>1. seqID' \in Nat
      BY <1>0, <1>3
    <2>2. beating' \in Request \cup {Nil}
      BY <1>0, <1>3
    <2> QED BY <1>3, <1>4, <1>5, <2>1, <2>2, NoMetricsTyped DEF TypeOK
  <1>7. TimerInv'
    BY <1>0, <1>3 DEF TimerInv, One, TypeOK, Start
  <1>8. \A m \in Made : m.run \in Nat /\ m.run <= run
    BY <1>0, LogNumbers DEF LogInv
  <1>9. LogInv'
    <2>1. \A m \in Made' : m.type = "app-closing" => m.run # run'
      BY <1>0, <1>2, <1>3, <1>4, <1>8
    <2> QED BY <1>4, <2>1 DEF LogInv
  <1>10. MetricsReported'
    BY <1>3 DEF MetricsReported, NoMetrics
  <1> QED BY <1>4, <1>6, <1>7, <1>9, <1>10

LEMMA StopStep ==
    ASSUME IInv, Stop
    PROVE  IInv'
  <1> USE DEF IInv
  <1>0. /\ seqID \in Nat /\ run \in Nat /\ beating = Nil /\ started
        /\ metrics \in [Keys -> Metric \cup {Nil}] /\ Log(Made, seqID, run) /\ newMetrics \in BOOLEAN
    BY DEF Stop, Unlocked, TypeOK, LogInv
  <1>1. PICK x : x = [type |-> "app-closing", seq |-> seqID + 1, run |-> run, metrics |-> NoMetrics]
    OBVIOUS
  <1>2. /\ x \in Request /\ x.seq = seqID + 1 /\ x.run = run /\ x.type = "app-closing"
    BY <1>0, <1>1, RequestTyped, NoMetricsTyped DEF Types
  <1>3. PICK g : g = [type |-> "generate-metrics", seq |-> seqID + 2, run |-> run, metrics |-> metrics]
    OBVIOUS
  <1>4. g \in Request /\ g.seq = seqID + 2 /\ g.run = run /\ g.type = "generate-metrics" /\ g.metrics = metrics
    BY <1>0, <1>3, RequestTyped DEF Types
  <1>5. /\ newMetrics' = FALSE /\ run' = run /\ started' = FALSE /\ flushT' = FALSE /\ heartbeatT' = FALSE
        /\ UNCHANGED <<metrics, flushes, beats, beating, posted, updates, beaten>>
    BY DEF Stop, flush
  <1>6. /\ newMetrics => posting' = posting \cup {<<g, x>>} /\ seqID' = seqID + 2
        /\ ~newMetrics => posting' = posting \cup {<<x>>} /\ seqID' = seqID + 1
    <2>1. <<g>> \o <<x>> = <<g, x>> /\ <<>> \o <<x>> = <<x>> /\ <<g, x>> # <<>> /\ <<x>> # <<>>
      BY <1>2, <1>4, ShortSeqs
    <2>2. (seqID + 1) + 1 = seqID + 2
      BY <1>0
    <2> QED BY <1>1, <1>3, <1>5, <2>1, <2>2 DEF Stop, flush, newRequest
  <1>7. /\ Made' = Made \cup (IF newMetrics THEN {x, g} ELSE {x})
        /\ Log(Made', seqID', run') /\ PostedOnce' /\ posting' \subseteq Seq(Request) \ {<<>>}
    <2>1. CASE newMetrics
      BY <1>2, <1>4, <1>5, <1>6, <2>1, TwoMore
    <2>2. CASE ~newMetrics
      BY <1>0, <1>2, <1>5, <1>6, <2>2, OneMore
    <2> QED BY <2>1, <2>2
  <1>8. seqID' \in Nat
    BY <1>0, <1>6
  <1>9. TypeOK'
    BY <1>5, <1>7, <1>8 DEF TypeOK
  <1>10. TimerInv'
    BY <1>0, <1>5 DEF TimerInv, One, TypeOK, Unlocked
  <1>11. LogInv'
    BY <1>5, <1>7 DEF LogInv
  <1>12. MetricsReported'
    <2>1. CASE newMetrics
      <3>1. Log(Made \cup {x}, seqID + 1, run)
        BY <1>2, <1>4, <1>5, <1>6, <2>1, TwoMore
      <3>2. Latest((Made \cup {x}) \cup {g}, metrics)
        BY <1>0, <1>4, <3>1, LatestGrows
      <3>3. (Made \cup {x}) \cup {g} = Made'
        BY <1>7, <2>1
      <3> QED BY <1>5, <3>2, <3>3 DEF MetricsReported
    <2>2. CASE ~newMetrics
      <3>1. Latest(Made, metrics) => Latest(Made \cup {x}, metrics)
        BY <1>0, <1>2, LatestGrows
      <3> QED BY <1>5, <1>7, <2>2, <3>1 DEF MetricsReported
    <2> QED BY <2>1, <2>2
  <1> QED BY <1>7, <1>9, <1>10, <1>11, <1>12

\* The kind of a metric stays, its value grows or is replaced.
LEMMA UpdateStep ==
    ASSUME IInv, NEW k \in Keys, NEW kind \in Kinds, NEW v \in Nat, Update(k, kind, v)
    PROVE  IInv'
  <1> USE DEF IInv
  <1>0. /\ started /\ newMetrics' = TRUE /\ updates' = updates + 1 /\ updates < MaxUpdates
        /\ UNCHANGED <<started, seqID, timerVars, postVars, run, beaten>>
    BY DEF Update
  <1>1. metrics' \in [Keys -> Metric \cup {Nil}]
    <2>1. metrics[k] \in Metric \cup {Nil}
      BY DEF TypeOK
    <2>2. [kind |-> IF metrics[k] = Nil THEN kind ELSE metrics[k].kind, value |-> v] \in Metric
      BY <2>1 DEF Metric
    <2> QED BY <2>2 DEF TypeOK, Update
  <1>2. TypeOK'
    BY <1>0, <1>1, BoundAssumption DEF TypeOK, timerVars, postVars
  <1>3. TimerInv'
    BY <1>0 DEF TimerInv, Unlocked, timerVars, postVars
  <1>4. Made' = Made
    BY <1>0, Zenon DEF Made, Queued, postVars
  <1>5. LogInv'
    BY <1>0, <1>4 DEF LogInv
  <1>6. PostedOnce'
    BY <1>0 DEF PostedOnce, postVars
  <1>7. MetricsReported'
    BY <1>0 DEF MetricsReported
  <1> QED BY <1>2, <1>3, <1>5, <1>6, <1>7

LEMMA CountValue ==
    ASSUME IInv, NEW k \in Keys, NEW v \in Values
    PROVE  v \in Nat /\ v + (IF metrics[k] = Nil THEN 0 ELSE metrics[k].value) \in Nat
  <1>1. v \in Nat /\ metrics[k] \in Metric \cup {Nil}
    BY ValueAssumption DEF IInv, TypeOK
  <1>2. metrics[k] # Nil => metrics[k].value \in Nat
    BY <1>1 DEF Metric
  <1> QED BY <1>1, <1>2

\* Steps that make no message and update no metric.
LEMMA NothingMade ==
    ASSUME IInv, TypeOK', TimerInv', PostedOnce', Made' = Made,
           UNCHANGED <<started, seqID, metrics, newMetrics, run>>
    PROVE  IInv'
  <1>1. LogInv'
    BY DEF IInv, LogInv
  <1>2. MetricsReported'
    BY DEF IInv, MetricsReported
  <1> QED BY <1>1, <1>2 DEF IInv

LEMMA FireStep ==
    ASSUME IInv, FlushFire \/ HeartbeatFire
    PROVE  IInv'
  <1>0. /\ UNCHANGED <<started, seqID, metrics, newMetrics, postVars, countVars>>
        /\ \/ flushT /\ flushT' = FALSE /\ flushes' = flushes + 1 /\ UNCHANGED <<heartbeatT, beats>>
           \/ heartbeatT /\ heartbeatT' = FALSE /\ beats' = beats + 1 /\ UNCHANGED <<flushT, flushes>>
    BY DEF FlushFire, HeartbeatFire
  <1>1. flushes' \in Nat /\ beats' \in Nat /\ run \in Nat
    BY <1>0 DEF IInv, TypeOK
  <1>2. TimerInv'
    BY <1>0 DEF IInv, TypeOK, TimerInv, One, Unlocked, postVars, countVars
  <1>3. flushes' \in 0 .. MaxStarts /\ beats' \in 0 .. MaxStarts
    <2>1. flushes' <= run /\ beats' <= run
      <3>1. One(flushT') \in Nat /\ One(heartbeatT') \in Nat /\ One(beating' # Nil) \in Nat
        BY DEF One
      <3>2. /\ flushes' + One(flushT') <= run
            /\ beats' + One(heartbeatT') + One(beating' # Nil) <= run
        BY <1>0, <1>2 DEF TimerInv, countVars
      <3> QED BY <1>1, <3>1, <3>2
    <2> QED BY <1>1, <2>1, BoundAssumption DEF IInv, TypeOK
  <1>4. TypeOK'
    BY <1>0, <1>3 DEF IInv, TypeOK, postVars, countVars
  <1>5. Made' = Made
    BY <1>0, Zenon DEF Made, Queued, postVars
  <1>6. PostedOnce'
    BY <1>0 DEF IInv, PostedOnce, postVars
  <1> QED BY <1>0, <1>2, <1>4, <1>5, <1>6, NothingMade DEF countVars

\* A late function of the flush timer does nothing.
LEMMA FlushStep ==
    ASSUME IInv, backgroundFlush
    PROVE  IInv'
  <1> USE DEF IInv
  <1>0. /\ seqID \in Nat /\ run \in Nat /\ flushes \in Nat /\ flushes > 0 /\ beating = Nil
        /\ metrics \in [Keys -> Metric \cup {Nil}] /\ Log(Made, seqID, run) /\ newMetrics \in BOOLEAN
        /\ flushes' = flushes - 1 /\ run' = run
        /\ UNCHANGED <<started, metrics, heartbeatT, beats, beating, posted, updates, beaten>>
    BY DEF backgroundFlush, Unlocked, TypeOK, LogInv
  <1>1. flushT' = IF started THEN TRUE ELSE flushT
    BY DEF backgroundFlush
  <1>2. TimerInv'
    BY <1>0, <1>1 DEF TimerInv, One, TypeOK, Unlocked
  <1>3. ASSUME seqID' \in Nat, newMetrics' \in BOOLEAN, posting' \subseteq Seq(Request) \ {<<>>}
        PROVE  TypeOK'
    <2>1. flushes' \in 0 .. MaxStarts
      BY <1>0, BoundAssumption DEF TypeOK
    <2>2. flushT' \in BOOLEAN
      BY <1>1, Zenon DEF TypeOK
    <2> QED BY <1>0, <1>3, <2>1, <2>2 DEF TypeOK
  <1>4. CASE UNCHANGED <<seqID, newMetrics, posting>>
    <2>1. Made' = Made
      BY <1>0, <1>4, Zenon DEF Made, Queued
    <2>2. TypeOK'
      BY <1>0, <1>3, <1>4 DEF TypeOK
    <2>3. PostedOnce'
      BY <1>0, <1>4 DEF PostedOnce
    <2> QED BY <1>0, <1>2, <1>4, <2>1, <2>2, <2>3, NothingMade
  <1>5. CASE started /\ newMetrics
    <2>1. PICK g : g = [type |-> "generate-metrics", seq |-> seqID + 1, run |-> run, metrics |-> metrics]
      OBVIOUS
    <2>2. /\ g \in Request /\ g.seq = seqID + 1 /\ g.run = run /\ g.type = "generate-metrics"
          /\ g.metrics = metrics
      BY <1>0, <2>1, RequestTyped DEF Types
    <2>3. <<g>> \o <<>> = <<g>> /\ <<g>> # <<>>
      BY <2>2, ShortSeqs
    <2>4. posting' = posting \cup {<<g>>} /\ seqID' = seqID + 1 /\ newMetrics' = FALSE
      BY <1>0, <1>5, <2>1, <2>3 DEF backgroundFlush, flush, newRequest
    <2>5. /\ Made' = Made \cup {g} /\ Log(Made', seqID', run') /\ PostedOnce'
          /\ posting' \subseteq Seq(Request) \ {<<>>}
      BY <1>0, <2>2, <2>4, OneMore
    <2>6. TypeOK'
      <3>1. seqID' \in Nat
        BY <1>0, <2>4
      <3>2. newMetrics' \in BOOLEAN
        BY <2>4, Zenon
      <3> QED BY <1>3, <2>5, <3>1, <3>2
    <2>7. LogInv'
      BY <1>0, <2>2, <2>5 DEF LogInv
    <2>8. Latest(Made \cup {g}, metrics)
      BY <1>0, <2>2, LatestGrows
    <2>9. MetricsReported'
      BY <1>0, <2>4, <2>5, <2>8 DEF MetricsReported
    <2> QED BY <1>2, <2>5, <2>6, <2>7, <2>9
  <1>6. CASE started /\ ~newMetrics
    <2>1. <<>> \o <<>> = <<>>
      BY ConcatEmptySeq
    <2>2. UNCHANGED <<seqID, newMetrics, posting>>
      BY <1>0, <1>6, <2>1 DEF backgroundFlush, flush
    <2> QED BY <1>4, <2>2
  <1>7. CASE ~started
    BY <1>4, <1>7 DEF backgroundFlush
  <1> QED BY <1>0, <1>5, <1>6, <1>7

\* A late function of the heartbeat timer does nothing either.
LEMMA BeatStep ==
    ASSUME IInv, backgroundHeartbeat
    PROVE  IInv'
  <1> USE DEF IInv
  <1>0. /\ seqID \in Nat /\ run \in Nat /\ beats \in Nat /\ beats > 0 /\ beating = Nil
        /\ Log(Made, seqID, run) /\ beats' = beats - 1 /\ run' = run
        /\ UNCHANGED <<started, metrics, newMetrics, flushT, heartbeatT, flushes, posting, posted, updates>>
    BY DEF backgroundHeartbeat, Unlocked, TypeOK, LogInv
  <1>1. beats' \in 0 .. MaxStarts
    BY <1>0, BoundAssumption DEF TypeOK
  <1>2. CASE started
    <2>1. PICK x : x = [type |-> "app-heartbeat", seq |-> seqID + 1, run |-> run, metrics |-> NoMetrics]
      OBVIOUS
    <2>2. x \in Request /\ x.seq = seqID + 1 /\ x.run = run /\ x.type = "app-heartbeat"
      BY <1>0, <2>1, RequestTyped, NoMetricsTyped DEF Types
    <2>3. beating' = x /\ seqID' = seqID + 1 /\ beaten' = beaten + 1 /\ beaten < MaxBeats
      BY <1>0, <1>2, <2>1 DEF backgroundHeartbeat, newRequest
    <2>4. \A m \in Made : m.type = "app-closing" => m.run # x.run
      BY <1>2, <2>2 DEF LogInv
    <2>5. Made' = Made \cup {x} /\ Log(Made', seqID', run') /\ PostedOnce'
      BY <1>0, <2>2, <2>3, <2>4, OneMore
    <2>6. seqID' \in Nat /\ beaten' \in 0 .. MaxBeats
      BY <1>0, <2>3, BoundAssumption DEF TypeOK
    <2>7. TypeOK'
      BY <1>0, <1>1, <2>2, <2>3, <2>6 DEF TypeOK
    <2>8. x # Nil
      BY <2>2, NilAssumption
    <2>9. TimerInv'
      BY <1>0, <1>2, <2>3, <2>8 DEF TimerInv, One, TypeOK, Unlocked
    <2>10. LogInv'
      BY <1>0, <2>2, <2>5 DEF LogInv
    <2>11. Latest(Made, metrics) => Latest(Made \cup {x}, metrics)
      BY <1>0, <2>2, LatestGrows
    <2>12. MetricsReported'
      BY <1>0, <2>5, <2>11 DEF MetricsReported
    <2> QED BY <2>5, <2>7, <2>9, <2>10, <2>12
  <1>3. CASE ~started
    <2>1. UNCHANGED <<seqID, beaten, beating>>
      BY <1>3 DEF backgroundHeartbeat
    <2>2. TypeOK'
      BY <1>0, <1>1, <2>1 DEF TypeOK
    <2>3. TimerInv'
      BY <1>0, <2>1 DEF TimerInv, One, TypeOK, Unlocked
    <2>4. Made' = Made
      BY <1>0, <2>1, Zenon DEF Made, Queued
    <2>5. PostedOnce'
      BY <1>0, <2>1 DEF PostedOnce
    <2> QED BY <1>0, <2>1, <2>2, <2>3, <2>4, <2>5, NothingMade
  <1> QED BY <1>2, <1>3

LEMMA PostsStep ==
    ASSUME IInv, Posts
    PROVE  IInv'
  <1> USE DEF IInv
  <1>1. CASE HeartbeatDone
    <2>0. /\ beating # Nil /\ posted' = posted \cup {beating} /\ beating' = Nil /\ heartbeatT' = TRUE
          /\ UNCHANGED <<started, seqID, metrics, newMetrics, flushT, flushes, beats, posting, countVars>>
      BY <1>1 DEF HeartbeatDone, submit
    <2>1. TypeOK'
      BY <2>0 DEF TypeOK, countVars
    <2>2. TimerInv'
      BY <2>0 DEF TimerInv, One, TypeOK, Unlocked, countVars
    <2>3. Made' = Made
      <3>1. Queued' = Queued
        BY <2>0, Zenon DEF Queued
      <3> QED BY <2>0, <3>1 DEF Made
    <2>4. PostedOnce'
      <3>1. Nil \notin posted' /\ \A p \in posting : Nil \notin ToSet(p)
        <4>1. posted' \subseteq Request /\ posting \subseteq Seq(Request)
          BY <2>1 DEF TypeOK
        <4>2. \A p \in posting : ToSet(p) \subseteq Request
          BY <4>1 DEF ToSet
        <4> QED BY <4>1, <4>2, NilAssumption
      <3> QED BY <2>0, <3>1 DEF PostedOnce
    <2> QED BY <2>0, <2>1, <2>2, <2>3, <2>4, NothingMade DEF countVars
  <1>2. ASSUME NEW p \in posting, Post(p) PROVE IInv'
    <2>0. UNCHANGED <<started, seqID, metrics, newMetrics, timerVars, beating, countVars>>
      BY <1>2 DEF Post
    <2>1. Made' = Made /\ PostedOnce' /\ posted' \subseteq Request /\ posting' \subseteq Seq(Request) \ {<<>>}
      BY <1>2, Pop
    <2>2. TypeOK'
      BY <2>0, <2>1 DEF TypeOK, timerVars, countVars
    <2>3. TimerInv'
      BY <2>0 DEF TimerInv, Unlocked, timerVars, countVars
    <2> QED BY <2>0, <2>1, <2>2, <2>3, NothingMade DEF countVars
  <1> QED BY <1>1, <1>2 DEF Posts

-----------------------------------------------------------------------------
LEMMA InitInv == Init => IInv
  <1> SUFFICES ASSUME Init PROVE IInv
    OBVIOUS
  <1>1. /\ seqID = 0 /\ run = 0 /\ metrics = NoMetrics /\ posted = {} /\ posting = {} /\ beating = Nil
        /\ started = FALSE /\ newMetrics = FALSE /\ flushT = FALSE /\ heartbeatT = FALSE
        /\ flushes = 0 /\ beats = 0 /\ updates = 0 /\ beaten = 0
    BY DEF Init
  <1>2. TypeOK
    <2>1. /\ flushes \in 0 .. MaxStarts /\ beats \in 0 .. MaxStarts /\ run \in 0 .. MaxStarts
          /\ updates \in 0 .. MaxUpdates /\ beaten \in 0 .. MaxBeats /\ seqID \in Nat
      BY <1>1, BoundAssumption
    <2>2. posting \subseteq Seq(Request) \ {<<>>} /\ posted \subseteq Request /\ beating \in Request \cup {Nil}
      BY <1>1
    <2> QED BY <1>1, <2>1, <2>2, NoMetricsTyped, Zenon DEF TypeOK
  <1>3. TimerInv
    BY <1>1 DEF TimerInv, One, Unlocked
  <1>4. Made = {}
    <2>1. Queued = {}
      BY <1>1 DEF Queued
    <2> QED BY <1>1, <2>1 DEF Made
  <1>5. LogInv
    <2>1. IsFiniteSet(Made) /\ Cardinality(Made) = 0
      BY <1>4, FS_EmptySet
    <2>2. {m.seq : m \in Made} = 1 .. 0
      BY <1>4
    <2> QED BY <1>1, <1>4, <2>1, <2>2 DEF LogInv, Log, Bracketed
  <1>6. PostedOnce
    BY <1>1 DEF PostedOnce
  <1>7. MetricsReported
    BY <1>1 DEF MetricsReported
  <1> QED BY <1>2, <1>3, <1>5, <1>6, <1>7 DEF IInv

LEMMA InvStep == IInv /\ [Next]_vars => IInv'
  <1> SUFFICES ASSUME IInv, [Next]_vars PROVE IInv'
    OBVIOUS
  <1>1. ASSUME NEW k \in Keys, NEW v \in Values, Gauge(k, v) \/ Count(k, v) PROVE IInv'
    BY <1>1, CountValue, UpdateStep DEF Gauge, Count, Kinds
  <1>2. CASE UNCHANGED vars
    <2>1. TypeOK'
      BY <1>2 DEF IInv, TypeOK, vars, timerVars, postVars, countVars
    <2>2. TimerInv'
      BY <1>2 DEF IInv, TimerInv, Unlocked, vars, timerVars, postVars, countVars
    <2>3. Made' = Made
      BY <1>2, Zenon DEF Made, Queued, vars, postVars
    <2>4. PostedOnce'
      BY <1>2 DEF IInv, PostedOnce, vars, postVars
    <2> QED BY <1>2, <2>1, <2>2, <2>3, <2>4, NothingMade DEF vars, countVars
  <1>3. CASE Start \/ Stop \/ Timers \/ backgroundFlush \/ backgroundHeartbeat \/ Posts
    BY <1>3, StartStep, StopStep, FireStep, FlushStep, BeatStep, PostsStep DEF Timers
  <1> QED BY <1>1, <1>2, <1>3 DEF Next

LEMMA Invariance == Spec => []IInv
  BY InitInv, InvStep, PTL DEF Spec

\* Every number up to seqID was given to one message, which is in one place; the messages
\* of a run begin with app-started and no heartbeat follows app-closing, whatever timer
\* functions come late (client.go:310-350, 375, 449, 462).
THEOREM RunsAreBracketed == Spec => []RunsBracketed
  <1>1. IInv => RunsBracketed
    BY DEF IInv, LogInv, Log, RunsBracketed, MadeOnce
  <1> QED BY <1>1, Invariance, PTL

\* What is not flagged as new has been reported, and Stop leaves nothing to report
\* (client.go:218-220, 312).
THEOREM MetricsAreReported == Spec => []MetricsReported
  <1>1. IInv => MetricsReported
    BY DEF IInv
  <1> QED BY <1>1, Invariance, PTL

=============================================================================

------------------------ MODULE Concentrator_proofs ------------------------
(***************************************************************************)
(* Theorems about Concentrator, for any spans, bucket size, channel        *)
(* capacity and length of the run.                                         *)
(***************************************************************************)
EXTENDS Concentrator, FiniteSetTheorems, TLAPS

\* The channel stays within its capacity.
LEMMA InBound ==
    ASSUME NEW Q \in SUBSET Spans, NEW s \in Spans
    PROVE  /\ Cardinality(Q) < InSize => Cardinality(Q \cup {s}) <= InSize
           /\ Cardinality(Q) <= InSize => Cardinality(Q \ {s}) <= InSize
  <1>1. IsFiniteSet(Q) /\ Cardinality(Q) \in Nat
    BY SpansAssumption, FS_Subset, FS_CardinalityType
  <1>2. Cardinality(Q \cup {s}) <= Cardinality(Q) + 1 /\ Cardinality(Q \cup {s}) \in Nat
    <2>1. Cardinality(Q \cup {s}) = IF s \in Q THEN Cardinality(Q) ELSE Cardinality(Q) + 1
      BY <1>1, FS_AddElement
    <2> QED BY <1>1, <2>1
  <1>3. Cardinality(Q \ {s}) <= Cardinality(Q) /\ Cardinality(Q \ {s}) \in Nat
    <2>1. Q \ {s} \in SUBSET Q
      OBVIOUS
    <2> QED BY <1>1, <2>1, FS_Subset, FS_CardinalityType
  <1> QED BY <1>1, <1>2, <1>3, SizeAssumption

\* Adding a span puts it into the bucket of its end.
LEMMA AddMoves ==
    ASSUME TypeOK, BucketInv, NEW s \in Spans, add(s)
    PROVE  /\ buckets' \in [BucketTimes -> SUBSET Spans]
           /\ addedAt' \in [Spans -> Times]
           /\ Bucketed' = Bucketed \cup {s}
           /\ \A b \in BucketTimes : \A r \in buckets'[b] : alignTs(end[r]) = b
           /\ \A b \in BucketTimes :
                 buckets'[b] = IF b = alignTs(end[s]) THEN buckets[b] \cup {s} ELSE buckets[b]
  <1>1. alignTs(end[s]) \in BucketTimes
    BY DEF TypeOK, BucketTimes
  <1>2. \A b \in BucketTimes :
            buckets'[b] = IF b = alignTs(end[s]) THEN buckets[b] \cup {s} ELSE buckets[b]
    BY <1>1 DEF add, TypeOK
  <1>3. buckets' \in [BucketTimes -> SUBSET Spans] /\ addedAt' \in [Spans -> Times]
    BY <1>1 DEF add, TypeOK
  <1>4. Bucketed' = Bucketed \cup {s}
    <2>1. \A r : r \in Bucketed' <=> \E b \in BucketTimes : r \in buckets'[b]
      BY DEF Bucketed
    <2>2. \A r : r \in Bucketed <=> \E b \in BucketTimes : r \in buckets[b]
      BY DEF Bucketed
    <2>3. ASSUME NEW r, r \in Bucketed' PROVE r \in Bucketed \cup {s}
      <3>1. PICK b \in BucketTimes : r \in buckets'[b]
        BY <2>1, <2>3
      <3>2. r \in buckets[b] \/ r = s
        BY <1>2, <3>1
      <3> QED BY <2>2, <3>2
    <2>4. s \in Bucketed'
      <3>1. s \in buckets'[alignTs(end[s])]
        BY <1>1, <1>2
      <3> QED BY <1>1, <2>1, <3>1
    <2>5. ASSUME NEW r, r \in Bucketed PROVE r \in Bucketed'
      <3>1. PICK b \in BucketTimes : r \in buckets[b]
        BY <2>2, <2>5
      <3>2. r \in buckets'[b]
        BY <1>2, <3>1
      <3> QED BY <2>1, <3>2
    <2> QED BY <2>3, <2>4, <2>5
  <1>5. \A b \in BucketTimes : \A r \in buckets'[b] : alignTs(end[r]) = b
    <2> TAKE b \in BucketTimes
    <2>1. \A r \in buckets[b] : alignTs(end[r]) = b
      BY DEF BucketInv
    <2>2. buckets'[b] = IF b = alignTs(end[s]) THEN buckets[b] \cup {s} ELSE buckets[b]
      BY <1>2
    <2> QED BY <2>1, <2>2
  <1> QED BY <1>2, <1>3, <1>4, <1>5

\* Taking buckets moves their spans into the payload, each into one export.
LEMMA TakeMoves ==
    ASSUME TypeOK, BucketInv, NEW S \in SUBSET BucketTimes, TakeBuckets(S)
    PROVE  /\ buckets' \in [BucketTimes -> SUBSET Spans]
           /\ sending' \subseteq Exports
           /\ \A b \in BucketTimes : buckets'[b] \subseteq buckets[b]
           /\ \A e \in sending' : /\ e.start \in S /\ e.spans = buckets[e.start]
                                  /\ buckets'[e.start] = {}
           /\ \A d, e \in sending' : d.start = e.start => d = e
           /\ \A b \in S : buckets'[b] = {}
           /\ Covered(sending') \subseteq Bucketed
           /\ Bucketed' = Bucketed \ Covered(sending')
           /\ \A d, e \in sending' : d # e => d.spans \cap e.spans = {}
  <1> DEFINE full == {b \in S : buckets[b] # {}}
  <1>1. sending' = {[start |-> b, spans |-> buckets[b]] : b \in full}
    BY DEF TakeBuckets
  <1>2. buckets' = [b \in BucketTimes |-> IF b \in full THEN {} ELSE buckets[b]]
    BY DEF TakeBuckets
  <1>3. buckets' \in [BucketTimes -> SUBSET Spans] /\ sending' \subseteq Exports
    BY <1>1, <1>2 DEF TypeOK, Exports
  <1>4. /\ \A b \in BucketTimes : buckets'[b] \subseteq buckets[b]
        /\ \A b \in S : buckets'[b] = {}
    BY <1>2
  <1>5. \A e \in sending' : /\ e.start \in full /\ e.spans = buckets[e.start]
                            /\ e = [start |-> e.start, spans |-> e.spans]
    BY <1>1
  <1>6. \A d, e \in sending' : d.start = e.start => d = e
    BY <1>5
  <1>7. Covered(sending') \subseteq Bucketed
    BY <1>5 DEF Covered, Bucketed
  <1>8. \A e \in sending' : \A s \in e.spans : alignTs(end[s]) = e.start
    BY <1>5 DEF BucketInv
  <1>9. \A d, e \in sending' : d # e => d.spans \cap e.spans = {}
    BY <1>6, <1>8
  <1>10. Bucketed' = Bucketed \ Covered(sending')
    <2>1. ASSUME NEW s \in Bucketed' PROVE s \in Bucketed \ Covered(sending')
      <3>1. PICK b \in BucketTimes : s \in buckets'[b]
        BY <2>1 DEF Bucketed
      <3>2. b \notin full /\ s \in buckets[b]
        BY <3>1, <1>2
      <3>3. ASSUME NEW e \in sending', s \in e.spans PROVE FALSE
        BY <3>2, <3>3, <1>5, <1>8 DEF BucketInv
      <3> QED BY <3>2, <3>3 DEF Bucketed, Covered
    <2>2. ASSUME NEW s \in Bucketed, s \notin Covered(sending') PROVE s \in Bucketed'
      <3>1. PICK b \in BucketTimes : s \in buckets[b]
        BY <2>2 DEF Bucketed
      <3>2. b \notin full
        <4>1. SUFFICES ASSUME b \in full PROVE FALSE
          OBVIOUS
        <4>2. [start |-> b, spans |-> buckets[b]] \in sending'
          BY <4>1, <1>1
        <4> QED BY <4>2, <3>1, <2>2 DEF Covered
      <3>3. s \in buckets'[b]
        BY <3>1, <3>2, <1>2
      <3> QED BY <3>3 DEF Bucketed
    <2> QED BY <2>1, <2>2
  <1> QED BY <1>3, <1>4, <1>5, <1>6, <1>7, <1>9, <1>10

-----------------------------------------------------------------------------
(* The joint invariant. *)

BaseInv == TypeOK /\ ControlInv /\ BucketInv

LEMMA InitBase == Init => BaseInv
  <1> SUFFICES ASSUME Init PROVE BaseInv
    OBVIOUS
  <1>1. Cardinality({}) = 0
    BY FS_EmptySet
  <1>2. Bucketed = {}
    BY DEF Init, Bucketed
  <1>3. TypeOK
    <2>1. clock \in Times /\ phase \in Times /\ tick \in Times \cup {-1}
      BY DEF Init
    <2>2. addedAt \in [Spans -> Times] /\ Cardinality(in) <= InSize
      BY <1>1, SizeAssumption, TimeAssumption DEF Init, Times
    <2> QED BY <2>1, <2>2 DEF Init, TypeOK
  <1>4. ControlInv
    BY <1>2 DEF Init, ControlInv
  <1>5. BucketInv
    BY DEF Init, BucketInv, Exported
  <1> QED BY <1>3, <1>4, <1>5 DEF BaseInv

\* What a step that leaves buckets and exports alone need not show.
LEMMA SameBuckets ==
    ASSUME UNCHANGED buckets PROVE Bucketed' = Bucketed
  BY DEF Bucketed

LEMMA QuietBase ==
    ASSUME BaseInv,
           \/ Pass \/ IngestExit \/ FlushExit \/ StopSwap \/ StopClose \/ StopWait
           \/ \E s \in Spans : Producer(s) \/ Ingest(s)
    PROVE  BaseInv'
  <1> USE DEF timeVars, spanVars, ingestVars, sendVars, stopVars
  <1>1. TypeOK'
    <2> USE DEF BaseInv, TypeOK
    <2>1. CASE Pass
      BY <2>1, TimeAssumption DEF Pass, Times
    <2>2. CASE IngestExit \/ FlushExit \/ StopSwap \/ StopClose \/ StopWait
      BY <2>2 DEF IngestExit, FlushExit, StopSwap, StopClose, StopWait
    <2>3. ASSUME NEW s \in Spans, Producer(s) PROVE TypeOK'
      <3>1. in' \subseteq Spans /\ Cardinality(in') <= InSize
        BY <2>3, InBound DEF Producer, FindTracer, SendIn
      <3> QED BY <2>3, <3>1 DEF Producer, FindTracer, SendIn
    <2>4. ASSUME NEW s \in Spans, Ingest(s) PROVE TypeOK'
      <3>1. in' \subseteq Spans /\ Cardinality(in') <= InSize
        BY <2>4, InBound DEF Ingest
      <3> QED BY <2>4, <3>1 DEF Ingest
    <2> QED BY <2>1, <2>2, <2>3, <2>4
  <1>2. UNCHANGED <<buckets, sending, sent, failed, end>>
    BY DEF Pass, IngestExit, FlushExit, StopSwap, StopClose, StopWait, Producer, FindTracer,
           SendIn, Ingest
  <1>3. BucketInv'
    BY <1>2 DEF BaseInv, BucketInv, Exported, alignTs
  <1>4. Bucketed' = Bucketed
    BY <1>2, SameBuckets
  <1>5. ControlInv'
    BY <1>2, <1>4, SpansAssumption DEF BaseInv, ControlInv, TypeOK, Pass, IngestExit, FlushExit, StopSwap,
       StopClose, StopWait, Producer, FindTracer, SendIn, Ingest
  <1> QED BY <1>1, <1>3, <1>5 DEF BaseInv

LEMMA AddBase ==
    ASSUME BaseInv, IngestAdd \/ \E s \in Spans : StopDrain(s)
    PROVE  BaseInv'
  <1> USE DEF timeVars, spanVars, ingestVars, sendVars, stopVars
  <1>1. CASE IngestAdd
    <2>1. holding \in Spans /\ add(holding)
      BY <1>1, SpansAssumption DEF IngestAdd, BaseInv, TypeOK, ControlInv
    <2>2. /\ buckets' \in [BucketTimes -> SUBSET Spans] /\ addedAt' \in [Spans -> Times]
          /\ \A b \in BucketTimes : \A r \in buckets'[b] : alignTs(end[r]) = b
      BY <2>1, AddMoves DEF BaseInv
    <2>3. TypeOK'
      BY <1>1, <2>2 DEF IngestAdd, BaseInv, TypeOK
    <2>4. BucketInv'
      BY <1>1, <2>2 DEF IngestAdd, BaseInv, BucketInv, Exported, alignTs
    <2>5. ControlInv'
      BY <1>1 DEF IngestAdd, BaseInv, ControlInv
    <2> QED BY <2>3, <2>4, <2>5 DEF BaseInv
  <1>2. ASSUME NEW s \in Spans, StopDrain(s) PROVE BaseInv'
    <2>1. add(s) /\ in' = in \ {s}
      BY <1>2 DEF StopDrain
    <2>2. /\ buckets' \in [BucketTimes -> SUBSET Spans] /\ addedAt' \in [Spans -> Times]
          /\ \A b \in BucketTimes : \A r \in buckets'[b] : alignTs(end[r]) = b
      BY <2>1, AddMoves DEF BaseInv
    <2>3. in' \subseteq Spans /\ Cardinality(in') <= InSize
      BY <2>1, InBound DEF BaseInv, TypeOK
    <2>4. TypeOK'
      BY <1>2, <2>2, <2>3 DEF StopDrain, BaseInv, TypeOK
    <2>5. BucketInv'
      BY <1>2, <2>2 DEF StopDrain, BaseInv, BucketInv, Exported, alignTs
    <2>6. ControlInv'
      BY <1>2 DEF StopDrain, BaseInv, ControlInv
    <2> QED BY <2>4, <2>5, <2>6 DEF BaseInv
  <1> QED BY <1>1, <1>2

LEMMA TakeBase ==
    ASSUME BaseInv, FlushTick \/ StopFlush
    PROVE  BaseInv' /\ sending = {}
  <1> USE DEF timeVars, spanVars, ingestVars, sendVars, stopVars
  <1>0. sending = {}
    BY DEF FlushTick, StopFlush, BaseInv, ControlInv
  <1>1. PICK S \in SUBSET BucketTimes : TakeBuckets(S) /\ (StopFlush => S = BucketTimes)
    <2>1. CASE FlushTick
      <3>1. ~StopFlush
        BY <2>1 DEF FlushTick, StopFlush, BaseInv, ControlInv
      <3> QED BY <2>1, <3>1 DEF FlushTick
    <2>2. CASE StopFlush
      BY <2>2 DEF StopFlush
    <2> QED BY <2>1, <2>2
  <1>2. /\ buckets' \in [BucketTimes -> SUBSET Spans]
        /\ sending' \subseteq Exports
        /\ \A b \in BucketTimes : buckets'[b] \subseteq buckets[b]
        /\ \A e \in sending' : e.start \in S /\ e.spans = buckets[e.start]
        /\ \A b \in S : buckets'[b] = {}
    BY <1>1, TakeMoves DEF BaseInv
  <1>3. TypeOK'
    BY <1>2 DEF FlushTick, StopFlush, BaseInv, TypeOK
  <1>4. BucketInv'
    <2>1. UNCHANGED <<end, sent, failed>>
      BY DEF FlushTick, StopFlush
    <2>2. \A e \in sending' : \A s \in e.spans : alignTs(end[s]) = e.start
      BY <1>2 DEF BaseInv, BucketInv
    <2>3. \A e \in Exported' : e \in sending' \/ e \in Exported
      BY <2>1 DEF Exported
    <2>4. \A b \in BucketTimes : \A s \in buckets'[b] : alignTs(end[s]) = b
      BY <1>2 DEF BaseInv, BucketInv
    <2>5. \A e \in Exported' : \A s \in e.spans : alignTs(end[s]) = e.start
      BY <2>2, <2>3 DEF BaseInv, BucketInv
    <2> QED BY <2>1, <2>4, <2>5 DEF BucketInv, alignTs
  <1>5. ControlInv'
    <2>1. CASE FlushTick
      BY <2>1, <1>0 DEF FlushTick, BaseInv, ControlInv
    <2>2. CASE StopFlush
      <3>1. Bucketed' = {}
        BY <1>1, <1>2, <2>2 DEF Bucketed
      <3> QED BY <2>2, <3>1, <1>0 DEF StopFlush, BaseInv, ControlInv
    <2> QED BY <2>1, <2>2
  <1> QED BY <1>0, <1>3, <1>4, <1>5 DEF BaseInv

LEMMA SendBase ==
    ASSUME BaseInv, FlushSend \/ StopSend
    PROVE  BaseInv' /\ Exported' = Exported /\ UNCHANGED buckets
  <1> USE DEF timeVars, spanVars, ingestVars, sendVars, stopVars
  <1>1. UNCHANGED <<buckets, end>> /\ Exported' = Exported
    BY DEF FlushSend, StopSend, SendStats, Exported
  <1>2. TypeOK'
    BY DEF FlushSend, StopSend, SendStats, BaseInv, TypeOK
  <1>3. BucketInv'
    BY <1>1 DEF BaseInv, BucketInv, alignTs
  <1>4. Bucketed' = Bucketed
    BY <1>1, SameBuckets
  <1>5. ControlInv'
    BY <1>4 DEF FlushSend, StopSend, SendStats, BaseInv, ControlInv
  <1> QED BY <1>1, <1>2, <1>3, <1>5 DEF BaseInv

LEMMA BaseInvariance == Spec => []BaseInv
  <1>1. BaseInv /\ [Next]_vars => BaseInv'
    <2> SUFFICES ASSUME BaseInv, [Next]_vars PROVE BaseInv'
      OBVIOUS
    <2>1. CASE Next
      BY <2>1, QuietBase, AddBase, TakeBase, SendBase DEF Next, Ingester, Flusher, Stopper
    <2>2. CASE UNCHANGED vars
      BY <2>2, SameBuckets DEF vars, timeVars, spanVars, ingestVars, sendVars, stopVars, BaseInv,
         TypeOK, ControlInv, BucketInv, Exported, alignTs
    <2> QED BY <2>1, <2>2
  <1> QED BY <1>1, InitBase, PTL DEF Spec

\* The concentrator is type correct: the channel never holds more than its
\* capacity and every span is in a bucket that exists (stats.go:63-72, 137-148).
THEOREM TypeCorrect == Spec => []TypeOK
  <1>1. BaseInv => TypeOK
    BY DEF BaseInv
  <1> QED BY <1>1, BaseInvariance, PTL

-----------------------------------------------------------------------------
(* Every span is counted once. *)

LEMMA CoveredUnion ==
    ASSUME NEW A, NEW B PROVE Covered(A \cup B) = Covered(A) \cup Covered(B)
  BY DEF Covered

\* The places a span can be in partition the spans that were produced.
Partition(D, i, h, b, c, x) ==
    /\ D = i \cup h \cup b \cup c \cup x
    /\ i \cap (h \cup b \cup c \cup x) = {}
    /\ h \cap (b \cup c \cup x) = {}
    /\ b \cap (c \cup x) = {}
    /\ c \cap x = {}

LEMMA PartitionMoves ==
    ASSUME NEW D, NEW i, NEW h, NEW b, NEW c, NEW x, Partition(D, i, h, b, c, x), NEW s \in i
    PROVE  /\ h = {} => Partition(D, i \ {s}, {s}, b, c, x)
           /\ Partition(D, i \ {s}, h, b \cup {s}, c, x)
  BY DEF Partition

LEMMA CountedPartition ==
    CountedOnce <=>
        /\ Partition({s \in Spans : produce[s] = "done"}, in, Held, Bucketed,
                     Covered(sending \cup sent \cup failed), disregarded)
        /\ \A d, e \in sending \cup sent \cup failed : d # e => d.spans \cap e.spans = {}
  BY DEF CountedOnce, Partition

LEMMA NextCounts ==
    ASSUME BaseInv, CountedOnce, Next
    PROVE  CountedOnce'
  <1> USE DEF timeVars, spanVars, ingestVars, sendVars, stopVars
  <1> DEFINE Done == {s \in Spans : produce[s] = "done"}
             Cov == Covered(sending \cup sent \cup failed)
  <1>a. TypeOK /\ ControlInv /\ BucketInv
    BY DEF BaseInv
  <1>b. ASSUME UNCHANGED <<buckets, sending, sent, failed>>
        PROVE  Bucketed' = Bucketed /\ Cov' = Cov
    BY <1>b DEF Bucketed
  <1>1. ASSUME NEW s \in Spans, Producer(s) PROVE CountedOnce'
    <2>1. Bucketed' = Bucketed /\ Cov' = Cov /\ Held' = Held
      BY <1>1, <1>b DEF Producer, FindTracer, SendIn, Held
    <2>2. s \notin Done
      BY <1>1 DEF Producer, FindTracer, SendIn
    <2>3. \/ Done' = Done /\ UNCHANGED <<in, disregarded>>
          \/ Done' = Done \cup {s} /\ disregarded' = disregarded \cup {s} /\ in' = in
          \/ Done' = Done \cup {s} /\ in' = in \cup {s} /\ disregarded' = disregarded
      <3>1. CASE FindTracer(s) /\ global
        BY <3>1, <1>a DEF FindTracer, TypeOK
      <3>2. CASE FindTracer(s) /\ ~global
        BY <3>2, <1>a DEF FindTracer, TypeOK
      <3>3. CASE SendIn(s)
        BY <3>3, <1>a DEF SendIn, TypeOK
      <3> QED BY <1>1, <3>1, <3>2, <3>3 DEF Producer
    <2>4. UNCHANGED <<sending, sent, failed>>
      BY <1>1 DEF Producer, FindTracer, SendIn
    <2> QED BY <2>1, <2>2, <2>3, <2>4 DEF CountedOnce
  <1>2. ASSUME NEW s \in Spans, Ingest(s) PROVE CountedOnce'
    <2>1. Bucketed' = Bucketed /\ Cov' = Cov /\ UNCHANGED <<sending, sent, failed>>
      BY <1>2, <1>b DEF Ingest
    <2>2. Held = {} /\ Held' = {s} /\ in' = in \ {s} /\ s \in in /\ Done' = Done
          /\ disregarded' = disregarded
      BY <1>2, <1>a, SpansAssumption DEF Ingest, Held, ControlInv
    <2>3. Partition(Done, in \ {s}, {s}, Bucketed, Cov, disregarded)
      BY <2>2, CountedPartition, PartitionMoves
    <2>4. \A d, e \in (sending \cup sent \cup failed)' : d # e => d.spans \cap e.spans = {}
      BY <2>1 DEF CountedOnce
    <2> QED BY <2>1, <2>2, <2>3, <2>4 DEF CountedOnce, Partition
  <1>3. CASE IngestAdd
    <2>1. holding \in Spans /\ add(holding)
      BY <1>3, <1>a, SpansAssumption DEF IngestAdd, TypeOK, ControlInv
    <2>2. Bucketed' = Bucketed \cup Held /\ Held' = {}
      BY <1>3, <1>a, <2>1, AddMoves, SpansAssumption DEF IngestAdd, Held
    <2>3. Cov' = Cov /\ UNCHANGED <<sending, sent, failed, in, disregarded>> /\ Done' = Done
      BY <1>3 DEF IngestAdd
    <2> QED BY <2>2, <2>3 DEF CountedOnce
  <1>4. ASSUME NEW s \in Spans, StopDrain(s) PROVE CountedOnce'
    <2>1. add(s) /\ in' = in \ {s} /\ s \in in
      BY <1>4 DEF StopDrain
    <2>2. Bucketed' = Bucketed \cup {s} /\ Held' = Held
      BY <1>4, <1>a, <2>1, AddMoves DEF StopDrain, Held
    <2>3. Cov' = Cov /\ UNCHANGED <<sending, sent, failed, disregarded>> /\ Done' = Done
      BY <1>4 DEF StopDrain
    <2>4. Partition(Done, in \ {s}, Held, Bucketed \cup {s}, Cov, disregarded)
      BY <2>1, CountedPartition, PartitionMoves
    <2>5. \A d, e \in (sending \cup sent \cup failed)' : d # e => d.spans \cap e.spans = {}
      BY <2>3 DEF CountedOnce
    <2> QED BY <2>1, <2>2, <2>3, <2>4, <2>5 DEF CountedOnce, Partition
  <1>5. CASE FlushTick \/ StopFlush
    <2>1. sending = {}
      BY <1>5, TakeBase
    <2>2. PICK S \in SUBSET BucketTimes : TakeBuckets(S)
      BY <1>5 DEF FlushTick, StopFlush
    <2>3. /\ Covered(sending') \subseteq Bucketed
          /\ Bucketed' = Bucketed \ Covered(sending')
          /\ \A d, e \in sending' : d # e => d.spans \cap e.spans = {}
      BY <1>a, <2>2, TakeMoves
    <2>4. UNCHANGED <<sent, failed, in, holding, disregarded, produce>>
      BY <1>5 DEF FlushTick, StopFlush
    <2>5. Cov' = Covered(sending') \cup Cov
      <3>1. Cov' = Covered(sending' \cup (sent \cup failed))
        BY <2>4
      <3>2. Cov = Covered(sent \cup failed)
        BY <2>1
      <3> QED BY <3>1, <3>2, CoveredUnion
    <2>6. \A d, e \in (sending \cup sent \cup failed)' : d # e => d.spans \cap e.spans = {}
      <3>1. \A d \in sending' : d.spans \subseteq Bucketed
        BY <2>3 DEF Covered
      <3>2. \A e \in sent \cup failed : e.spans \subseteq Cov
        BY DEF Covered
      <3>3. Bucketed \cap Cov = {}
        BY DEF CountedOnce
      <3>4. \A d \in sending' : \A e \in sent \cup failed : d.spans \cap e.spans = {}
        BY <3>1, <3>2, <3>3
      <3> QED BY <2>3, <2>4, <3>4 DEF CountedOnce
    <2>7. Held' = Held /\ Done' = Done
      BY <2>4 DEF Held
    <2> HIDE DEF Cov, Done
    <2>8. CountedOnce'
      BY <2>3, <2>4, <2>5, <2>6, <2>7 DEF CountedOnce, Cov, Done
    <2> QED BY <2>8
  <1>6. CASE FlushSend \/ StopSend
    <2>1. Bucketed' = Bucketed /\ (sending \cup sent \cup failed)' = sending \cup sent \cup failed
      BY <1>6, SendBase DEF Exported, Bucketed
    <2>2. UNCHANGED <<in, holding, disregarded, produce>>
      BY <1>6 DEF FlushSend, StopSend
    <2> QED BY <2>1, <2>2 DEF CountedOnce, Held
  <1>7. CASE Pass \/ IngestExit \/ FlushExit \/ StopSwap \/ StopClose \/ StopWait
    <2>1. UNCHANGED <<in, holding, disregarded, produce, buckets, sending, sent, failed>>
      BY <1>7 DEF Pass, IngestExit, FlushExit, StopSwap, StopClose, StopWait
    <2> QED BY <1>b, <2>1 DEF CountedOnce, Held
  <1> QED BY <1>1, <1>2, <1>3, <1>4, <1>5, <1>6, <1>7 DEF Next, Ingester, Flusher, Stopper

\* Every span that reached the channel is counted exactly once, in one bucket of
\* one payload, for any interleaving of adds, ticks, sends and Stop
\* (stats.go:128-148, 177-210).
THEOREM SpansCountedOnce == Spec => []CountedOnce
  <1>1. Init => CountedOnce
    BY DEF Init, CountedOnce, Held, Bucketed, Covered
  <1>2. BaseInv /\ CountedOnce /\ [Next]_vars => CountedOnce'
    <2> SUFFICES ASSUME BaseInv, CountedOnce, [Next]_vars PROVE CountedOnce'
      OBVIOUS
    <2>1. CASE Next
      BY <2>1, NextCounts
    <2>2. CASE UNCHANGED vars
      <3>1. UNCHANGED <<in, holding, disregarded, produce, buckets, sending, sent, failed>>
        BY <2>2 DEF vars, spanVars, ingestVars, sendVars
      <3>2. Bucketed' = Bucketed /\ Held' = Held
        BY <3>1 DEF Bucketed, Held
      <3> QED BY <3>1, <3>2 DEF CountedOnce
    <2> QED BY <2>1, <2>2
  <1> QED BY <1>1, <1>2, BaseInvariance, PTL DEF Spec

\* Stop leaves nothing behind: both goroutines are gone, all buckets are exported
\* and every span that was in the channel before Stop began is in an export
\* (stats.go:151-168).
THEOREM StopIsClean == Spec => []StopExports
  <1>1. BaseInv /\ CountedOnce => StopExports
    <2> SUFFICES ASSUME BaseInv, CountedOnce, stopper = "returned"
                 PROVE  /\ early \subseteq Covered(sent \cup failed) \cup disregarded
                        /\ ingester = "exited" /\ flusher = "exited" /\ sending = {}
                        /\ Bucketed = {} /\ Held = {}
      BY DEF StopExports
    <2>1. /\ ingester = "exited" /\ flusher = "exited" /\ sending = {}
          /\ Bucketed = {} /\ Held = {} /\ early \cap in = {}
      BY DEF BaseInv, ControlInv, Held
    <2>2. early \subseteq {s \in Spans : produce[s] = "done"}
      BY DEF BaseInv, ControlInv, TypeOK
    <2>3. sending \cup sent \cup failed = sent \cup failed
      BY <2>1
    <2> QED BY <2>1, <2>2, <2>3 DEF CountedOnce
  <1> QED BY <1>1, BaseInvariance, SpansCountedOnce, PTL

-----------------------------------------------------------------------------
(* Buckets are exported when they are over. *)

LEMMA BucketTimesInt == \A b \in BucketTimes : b \in Int
  BY TimeAssumption, SizeAssumption DEF BucketTimes, alignTs

OverAll == OverInv /\ OnTimeTogether

\* Time, and steps that neither add nor export.
LEMMA QuietOver ==
    ASSUME BaseInv, OverAll,
           UNCHANGED <<buckets, addedAt, end>>, Exported' = Exported, clock' >= clock,
           clock' \in Times, tick' <= clock',
           stopper \in {"send", "returned"} => stopper' \in {"send", "returned"}
    PROVE  OverAll'
  <1>1. \A s \in Spans : OnTime(s)' <=> OnTime(s)
    BY DEF OnTime, alignTs
  <1>2. \A e \in Exported : e.start \in BucketTimes /\ e.start \in Int /\ e.spans \subseteq Spans
    BY BucketTimesInt DEF BaseInv, TypeOK, Exported, Exports
  <1>3. clock \in Int /\ clock' \in Int /\ BucketSize \in Int
    BY SizeAssumption, TimeAssumption DEF BaseInv, TypeOK, Times
  <1>4. OverInv'
    <2>1. \A e \in Exported : e.start + BucketSize <= clock' \/ stopper' \in {"send", "returned"}
      BY <1>2, <1>3 DEF OverAll, OverInv
    <2>2. \A e \in Exported : \A s \in buckets[e.start] : s \in Spans /\ ~OnTime(s)
      BY <1>2 DEF OverAll, OverInv, BaseInv, TypeOK
    <2> QED BY <1>1, <2>1, <2>2 DEF OverInv
  <1>5. OnTimeTogether'
    BY <1>1, <1>2 DEF OverAll, OnTimeTogether, Exported
  <1> QED BY <1>4, <1>5 DEF OverAll

\* A span that is added now is late for every bucket that was exported.
LEMMA AddOver ==
    ASSUME BaseInv, CountedOnce, OverAll, NEW s \in Spans, add(s), s \in in \/ s = holding,
           UNCHANGED <<end, sending, sent, failed, clock, tick, stopper>>,
           stopper \notin {"send", "returned"}
    PROVE  OverAll'
  <1>1. s \notin Covered(sending \cup sent \cup failed)
    BY SpansAssumption DEF CountedOnce, Held
  <1>2. \A e \in Exported : s \notin e.spans
    BY <1>1 DEF Covered, Exported
  <1>3. \A r \in Spans : r # s => (OnTime(r)' <=> OnTime(r))
    BY DEF OnTime, alignTs, add, BaseInv, TypeOK
  <1>4. \A e \in Exported : e.start \in BucketTimes /\ e.start \in Int /\ e.spans \subseteq Spans
    BY BucketTimesInt DEF BaseInv, TypeOK, Exported, Exports
  <1>5. \A b \in BucketTimes :
            buckets'[b] = IF b = alignTs(end[s]) THEN buckets[b] \cup {s} ELSE buckets[b]
    BY AddMoves DEF BaseInv
  <1>6. Exported' = Exported
    BY DEF Exported
  <1>7. ASSUME NEW e \in Exported, NEW r \in buckets'[e.start] PROVE ~OnTime(r)'
    <2>1. r \in Spans
      BY <1>4, AddMoves DEF BaseInv
    <2>2. CASE r = s
      <3>1. alignTs(end[s]) = e.start
        BY <2>2, <1>4, AddMoves DEF BaseInv
      <3>2. e.start + BucketSize <= clock
        BY DEF OverAll, OverInv
      <3>3. addedAt'[s] = clock /\ alignTs(end[s])' = e.start
        BY <3>1 DEF add, BaseInv, TypeOK, alignTs
      <3>4. clock \in Int /\ BucketSize \in Int /\ e.start \in Int
        BY <1>4, SizeAssumption, TimeAssumption DEF BaseInv, TypeOK, Times
      <3> QED BY <2>2, <3>2, <3>3, <3>4 DEF OnTime
    <2>3. CASE r # s
      <3>1. r \in buckets[e.start]
        BY <2>3, <1>4, <1>5
      <3> QED BY <2>1, <2>3, <3>1, <1>3 DEF OverAll, OverInv
    <2> QED BY <2>2, <2>3
  <1>8. OverInv'
    BY <1>6, <1>7 DEF OverAll, OverInv
  <1>9. OnTimeTogether'
    <2>1. \A e \in Exported : \A r \in e.spans : OnTime(r)' <=> OnTime(r)
      BY <1>2, <1>3, <1>4
    <2> QED BY <1>6, <2>1 DEF OverAll, OnTimeTogether, Exported
  <1> QED BY <1>8, <1>9 DEF OverAll

\* What the flusher or Stop exports are buckets that are over, or all of them.
LEMMA TakeOver ==
    ASSUME BaseInv, OverAll, FlushTick \/ StopFlush
    PROVE  OverAll'
  <1> USE DEF timeVars, spanVars, ingestVars, sendVars, stopVars
  <1>1. sending = {}
    BY TakeBase
  <1>2. PICK S \in SUBSET BucketTimes :
            /\ TakeBuckets(S)
            /\ \/ S = {b \in BucketTimes : Over(b, tick)} /\ tick # -1 /\ FlushTick
               \/ S = BucketTimes /\ StopFlush
    BY DEF FlushTick, StopFlush
  <1>3. /\ \A b \in BucketTimes : buckets'[b] \subseteq buckets[b]
        /\ sending' \subseteq Exports
        /\ \A e \in sending' : /\ e.start \in S /\ e.spans = buckets[e.start]
                               /\ buckets'[e.start] = {}
        /\ \A d, e \in sending' : d.start = e.start => d = e
        /\ \A b \in S : buckets'[b] = {}
    BY <1>2, TakeMoves DEF BaseInv
  <1>4. UNCHANGED <<end, addedAt, sent, failed, clock>>
    BY DEF FlushTick, StopFlush
  <1>5. \A s : OnTime(s)' <=> OnTime(s)
    BY <1>4 DEF OnTime, alignTs
  <1>6. Exported' = sending' \cup Exported
    BY <1>1, <1>4 DEF Exported
  <1>7. \A e \in Exported : e.start \in BucketTimes
    BY DEF BaseInv, TypeOK, Exported, Exports
  <1>8. tick' <= clock'
    BY <1>4, TimeAssumption DEF FlushTick, StopFlush, OverAll, OverInv, BaseInv, TypeOK, Times
  <1>9. \A e \in Exported' : e.start + BucketSize <= clock' \/ stopper' \in {"send", "returned"}
    <2>1. CASE StopFlush
      BY <2>1 DEF StopFlush
    <2>2. CASE FlushTick /\ S = {b \in BucketTimes : Over(b, tick)} /\ tick # -1
      <3>1. stopper' = stopper
        BY <2>2 DEF FlushTick
      <3>2. ASSUME NEW e \in sending' PROVE e.start + BucketSize <= clock
        <4>1. e.start \in BucketTimes /\ e.start <= tick - BucketSize
          BY <1>3, <2>2 DEF Over
        <4>2. tick \in Int /\ clock \in Int /\ tick <= clock /\ BucketSize \in Int /\ e.start \in Int
          BY <4>1, BucketTimesInt, SizeAssumption, TimeAssumption
             DEF OverAll, OverInv, BaseInv, TypeOK, Times
        <4> QED BY <4>1, <4>2
      <3> QED BY <1>4, <1>6, <3>1, <3>2 DEF OverAll, OverInv
    <2> QED BY <1>2, <2>1, <2>2
  <1>10. \A e \in Exported' : \A s \in buckets'[e.start] : ~OnTime(s)'
    BY <1>3, <1>5, <1>6, <1>7 DEF OverAll, OverInv
  <1>11. OnTimeTogether'
    <2> SUFFICES ASSUME NEW d \in Exported', NEW e \in Exported', d # e, d.start = e.start
                 PROVE  (\A s \in d.spans : ~OnTime(s)) \/ (\A s \in e.spans : ~OnTime(s))
      BY <1>5 DEF OnTimeTogether, Exported
    <2>1. CASE d \in Exported /\ e \in Exported
      BY <2>1 DEF OverAll, OnTimeTogether, Exported
    <2>2. CASE d \in sending' /\ e \in Exported
      BY <2>2, <1>3 DEF OverAll, OverInv
    <2>3. CASE e \in sending' /\ d \in Exported
      BY <2>3, <1>3 DEF OverAll, OverInv
    <2>4. CASE d \in sending' /\ e \in sending'
      BY <2>4, <1>3
    <2> QED BY <1>6, <2>1, <2>2, <2>3, <2>4
  <1> QED BY <1>8, <1>9, <1>10, <1>11 DEF OverAll, OverInv

LEMMA NextOver ==
    ASSUME BaseInv, CountedOnce, OverAll, Next
    PROVE  OverAll'
  <1> USE DEF timeVars, spanVars, ingestVars, sendVars, stopVars
  <1>1. CASE FlushTick \/ StopFlush
    BY <1>1, TakeOver
  <1>2. CASE IngestAdd
    <2>1. holding \in Spans /\ stopper \notin {"send", "returned"}
      BY <1>2, SpansAssumption DEF IngestAdd, BaseInv, TypeOK, ControlInv
    <2>2. add(holding) /\ UNCHANGED <<end, sending, sent, failed, clock, tick, stopper>>
      BY <1>2 DEF IngestAdd
    <2> QED BY <2>1, <2>2, AddOver
  <1>3. ASSUME NEW s \in Spans, StopDrain(s) PROVE OverAll'
    <2>1. /\ s \in in /\ add(s) /\ stopper \notin {"send", "returned"}
          /\ UNCHANGED <<end, sending, sent, failed, clock, tick, stopper>>
      BY <1>3 DEF StopDrain
    <2> QED BY <2>1, AddOver
  <1>4. CASE Pass
    <2>1. /\ UNCHANGED <<buckets, addedAt, end, stopper>> /\ Exported' = Exported
          /\ clock' = clock + 1 /\ clock' \in Times /\ tick' \in {clock', tick}
      BY <1>4, TimeAssumption DEF Pass, Exported, BaseInv, TypeOK, Times
    <2>2. clock \in Int /\ tick \in Int /\ tick <= clock
      BY TimeAssumption DEF BaseInv, TypeOK, Times, OverAll, OverInv
    <2>3. clock' >= clock /\ tick' <= clock'
      BY <2>1, <2>2
    <2> QED BY <2>1, <2>3, QuietOver
  <1>5. CASE \/ IngestExit \/ FlushExit \/ StopSwap \/ StopClose \/ StopWait \/ FlushSend \/ StopSend
             \/ \E s \in Spans : Producer(s) \/ Ingest(s)
    <2>1. UNCHANGED <<buckets, addedAt, end, clock, tick>> /\ Exported' = Exported
      BY <1>5 DEF IngestExit, FlushExit, StopSwap, StopClose, StopWait, FlushSend, StopSend,
         SendStats, Producer, FindTracer, SendIn, Ingest, Exported
    <2>2. stopper \in {"send", "returned"} => stopper' \in {"send", "returned"}
      BY <1>5 DEF IngestExit, FlushExit, StopSwap, StopClose, StopWait, FlushSend, StopSend,
         Producer, FindTracer, SendIn, Ingest
    <2>3. clock' >= clock /\ clock' \in Times /\ tick' <= clock'
      BY <2>1, TimeAssumption DEF BaseInv, TypeOK, Times, OverAll, OverInv
    <2> QED BY <2>1, <2>2, <2>3, QuietOver
  <1> QED BY <1>1, <1>2, <1>3, <1>4, <1>5 DEF Next, Ingester, Flusher, Stopper

\* No bucket is torn apart while it is filling: of all exports of a bucket at most
\* one has spans that were added on time, for any bucket size, phase of the ticker
\* and delay of its ticks (stats.go:177-210).
THEOREM BucketsExportedWhole == Spec => []OnTimeTogether
  <1>1. Init => OverAll
    <2> SUFFICES ASSUME Init PROVE OverAll
      OBVIOUS
    <2>1. Exported = {} /\ tick <= clock
      BY TimeAssumption DEF Init, Exported, Times
    <2> QED BY <2>1 DEF OverAll, OverInv, OnTimeTogether, Exported
  <1>2. BaseInv /\ CountedOnce /\ OverAll /\ [Next]_vars => OverAll'
    <2> SUFFICES ASSUME BaseInv, CountedOnce, OverAll, [Next]_vars PROVE OverAll'
      OBVIOUS
    <2>1. CASE Next
      BY <2>1, NextOver
    <2>2. CASE UNCHANGED vars
      <3>1. UNCHANGED <<buckets, addedAt, end, clock, tick, stopper>> /\ Exported' = Exported
        BY <2>2 DEF vars, timeVars, spanVars, sendVars, stopVars, Exported
      <3>2. clock' >= clock /\ clock' \in Times /\ tick' <= clock'
        BY <3>1, TimeAssumption DEF BaseInv, TypeOK, Times, OverAll, OverInv
      <3> QED BY <3>1, <3>2, QuietOver
    <2> QED BY <2>1, <2>2
  <1>3. OverAll => OnTimeTogether
    BY DEF OverAll
  <1> QED BY <1>1, <1>2, <1>3, BaseInvariance, SpansCountedOnce, PTL DEF Spec

=============================================================================

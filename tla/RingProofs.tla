------------------------------ MODULE RingProofs ------------------------------
(***************************************************************************)
(* The evidence ring transfers every record once and in order, and its     *)
(* shutdown is exact, for any number of producers and records and any      *)
(* capacity.                                                               *)
(***************************************************************************)
EXTENDS EvidenceRing, FiniteSetTheorems, TLAPS

Records == [from : Producers, seq : 0..(per_producer - 1)]

\* The records there are to send, and those pushed so far, each by producer and number.
All == Producers \X (0..(per_producer - 1))
PushedSet == {r \in All : r[2] < Pushed(r[1])}

RingTypes ==
  /\ queue \in Seq(Records) /\ taken \in Seq(Records)
  /\ sent \in [Producers -> 0..per_producer]
  /\ counting \in SUBSET Producers /\ \A p \in counting : sent[p] < per_producer
  /\ produced \in Nat /\ consumed \in Nat
  /\ consumer \in {"pop", "count", "saw_none", "stopped"}
  /\ main \in {"join_producers", "await_drain", "join_consumer", "done"}

\* Every record pushed is in the queue or was taken, and is counted once on
\* either side, now or as the next thing its thread does.
Accounts ==
  /\ Len(taken) + Len(queue) = Cardinality(PushedSet)
  /\ produced + Cardinality(counting) = Cardinality(PushedSet)
  /\ Len(taken) = consumed + (IF consumer = "count" THEN 1 ELSE 0)

\* What each thread's position says of the others.
Shutdown ==
  /\ main # "join_producers" => \A p \in Producers : sent[p] = per_producer
  /\ stop => main \in {"join_consumer", "done"} /\ consumed >= total_expected
  /\ consumer = "stopped" => stop
  /\ main = "done" => produced = consumed /\ consumer = "stopped"

RingInv == RingTypes /\ Accounts /\ Shutdown

-----------------------------------------------------------------------------
(* Counting *)

LEMMA AllFinite ==
  /\ IsFiniteSet(All) /\ Cardinality(All) = total_expected
  /\ total_expected \in Nat
<1>1. IsFiniteSet(Producers) /\ per_producer \in Nat
  BY RingAssumption
<1>2. Cardinality(Producers) \in Nat
  BY <1>1, FS_CardinalityType
<1>3. IsFiniteSet(0..(per_producer - 1)) /\ Cardinality(0..(per_producer - 1)) = per_producer
  <2>1. 0 \in Int /\ per_producer - 1 \in Int
    BY <1>1
  <2>2. IsFiniteSet(0..(per_producer - 1))
    BY <2>1, FS_Interval
  <2>3. Cardinality(0..(per_producer - 1))
          = IF 0 > per_producer - 1 THEN 0 ELSE (per_producer - 1) - 0 + 1
    BY <2>1, FS_Interval
  <2> QED
    BY <1>1, <2>2, <2>3
<1>4. IsFiniteSet(All) /\ Cardinality(All) = Cardinality(Producers) * per_producer
  BY <1>1, <1>3, FS_Product DEF All
<1>5. Cardinality(Producers) * per_producer = per_producer * Cardinality(Producers)
      /\ per_producer * Cardinality(Producers) \in Nat
  BY <1>1, <1>2
<1> QED
  BY <1>4, <1>5 DEF total_expected

\* What is pushed is part of what there is to push.
LEMMA PushedFinite ==
  /\ IsFiniteSet(PushedSet) /\ Cardinality(PushedSet) \in Nat
  /\ Cardinality(PushedSet) <= total_expected
<1>1. PushedSet \in SUBSET All
  BY DEF PushedSet
<1> QED
  BY <1>1, AllFinite, FS_Subset, FS_CardinalityType

LEMMA CountingFinite ==
  ASSUME RingTypes
  PROVE  IsFiniteSet(counting) /\ Cardinality(counting) \in Nat
<1>1. counting \in SUBSET Producers
  BY DEF RingTypes
<1> QED
  BY <1>1, RingAssumption, FS_Subset, FS_CardinalityType

\* Once every producer is done, all records are pushed and none is to be counted.
LEMMA AllPushed ==
  ASSUME RingTypes, \A p \in Producers : sent[p] = per_producer
  PROVE  counting = {} /\ PushedSet = All
<1>1. counting = {}
  BY RingAssumption DEF RingTypes
<1>2. ASSUME NEW r \in All PROVE r[2] < Pushed(r[1])
  BY <1>1, RingAssumption DEF All, Pushed
<1> QED
  BY <1>1, <1>2 DEF PushedSet

-----------------------------------------------------------------------------
(* The steps *)

LEMMA RingInit == Init => RingInv
<1> SUFFICES ASSUME Init PROVE RingInv
  OBVIOUS
<1>1. RingTypes
  BY RingAssumption DEF Init, RingTypes
<1>2. PushedSet = {}
  <2>1. ASSUME NEW r \in All PROVE ~ (r[2] < Pushed(r[1]))
    BY RingAssumption DEF Init, Pushed, All
  <2> QED
    BY <2>1 DEF PushedSet
<1>3. Accounts
  BY <1>2, FS_EmptySet DEF Init, Accounts
<1>4. Shutdown
  BY DEF Init, Shutdown
<1> QED
  BY <1>1, <1>3, <1>4 DEF RingInv

LEMMA PushStep ==
  ASSUME RingInv, NEW p \in Producers, Push(p)
  PROVE  RingInv'
<1>1. sent[p] \in Nat /\ sent[p] < per_producer /\ p \notin counting
  BY RingAssumption DEF RingInv, RingTypes, Push
<1>2. PICK r : r = <<p, sent[p]>>
  OBVIOUS
<1>3. r \in All /\ r \notin PushedSet
  BY <1>1, <1>2, RingAssumption DEF All, PushedSet, Pushed
<1>4. PushedSet' = PushedSet \cup {r}
  <2>1. ASSUME NEW q \in All, q[1] # p PROVE Pushed(q[1])' = Pushed(q[1])
    BY <2>1 DEF Push, Pushed
  <2>2. Pushed(p) = sent[p] /\ Pushed(p)' = sent[p] + 1
    BY <1>1 DEF Push, Pushed
  <2>3. ASSUME NEW q \in All
        PROVE  q \in PushedSet' <=> q \in PushedSet \/ q = r
    <3>1. q = <<q[1], q[2]>> /\ q[2] \in Nat
      BY RingAssumption DEF All
    <3>2. CASE q[1] = p
      <4>1. Pushed(q[1])' = sent[p] + 1 /\ Pushed(q[1]) = sent[p]
        BY <2>2, <3>2
      <4> QED
        BY <1>1, <1>2, <3>1, <3>2, <4>1 DEF PushedSet
    <3>3. CASE q[1] # p
      BY <1>2, <2>1, <3>1, <3>3 DEF PushedSet
    <3> QED
      BY <3>2, <3>3
  <2> QED
    BY <1>3, <2>3 DEF PushedSet
<1>5. Cardinality(PushedSet') = Cardinality(PushedSet) + 1
  BY <1>3, <1>4, PushedFinite, FS_AddElement
<1>6. Cardinality(counting') = Cardinality(counting) + 1
  BY <1>1, CountingFinite, FS_AddElement DEF RingInv, Push
<1>7. queue' \in Seq(Records) /\ Len(queue') = Len(queue) + 1
  <2>1. Evidence(p, sent[p]) \in Records
    BY <1>1, RingAssumption DEF Evidence, Records
  <2> QED
    BY <2>1 DEF RingInv, RingTypes, Push
<1>8. RingTypes'
  BY <1>1, <1>7 DEF RingInv, RingTypes, Push
<1>9. Accounts'
  <2>1. /\ Cardinality(counting) \in Nat /\ produced \in Nat
        /\ Len(queue) \in Nat /\ Len(taken) \in Nat
    BY CountingFinite DEF RingInv, RingTypes
  <2>2. /\ produced' = produced /\ taken' = taken
        /\ consumed' = consumed /\ consumer' = consumer
    BY DEF Push
  <2>3. produced' + Cardinality(counting') = (produced + Cardinality(counting)) + 1
    BY <1>6, <2>1, <2>2
  <2>4. Len(taken') + Len(queue') = (Len(taken) + Len(queue)) + 1
    BY <1>7, <2>1, <2>2
  <2> QED
    BY <1>5, <2>2, <2>3, <2>4 DEF RingInv, Accounts
<1>10. Shutdown'
  BY DEF RingInv, Shutdown, Push, total_expected
<1> QED
  BY <1>8, <1>9, <1>10 DEF RingInv

LEMMA CountProducedStep ==
  ASSUME RingInv, NEW p \in Producers, CountProduced(p)
  PROVE  RingInv'
<1>1. sent[p] \in Nat /\ sent[p] < per_producer /\ p \in counting
  BY RingAssumption DEF RingInv, RingTypes, CountProduced
<1>2. \A q \in Producers : sent'[q] = IF q = p THEN sent[q] + 1 ELSE sent[q]
  BY DEF RingInv, RingTypes, CountProduced
<1>3. \A q \in Producers : Pushed(q)' = Pushed(q)
  BY <1>1, <1>2 DEF CountProduced, Pushed
<1>4. PushedSet' = PushedSet
  BY <1>3 DEF PushedSet, All
<1>5. Cardinality(counting') = Cardinality(counting) - 1
  BY <1>1, CountingFinite, FS_RemoveElement DEF RingInv, CountProduced
<1>6. RingTypes'
  BY <1>1, <1>2, RingAssumption DEF RingInv, RingTypes, CountProduced
<1>7. Accounts'
  <2>1. Cardinality(counting) \in Nat /\ produced \in Nat /\ produced' = produced + 1
    BY CountingFinite DEF RingInv, RingTypes, CountProduced
  <2>2. produced' + Cardinality(counting') = produced + Cardinality(counting)
    BY <1>5, <2>1
  <2>3. queue' = queue /\ taken' = taken /\ consumed' = consumed /\ consumer' = consumer
    BY DEF CountProduced
  <2> QED
    BY <1>4, <2>2, <2>3 DEF RingInv, Accounts
<1>8. Shutdown'
  <2>1. main = "join_producers"
    BY <1>1, RingAssumption DEF RingInv, Shutdown
  <2> QED
    BY <2>1 DEF RingInv, RingTypes, Shutdown, CountProduced
<1> QED
  BY <1>6, <1>7, <1>8 DEF RingInv

\* The consumer's and main's steps push nothing and count nothing produced.
LEMMA PushedSame ==
  ASSUME sent' = sent, counting' = counting
  PROVE  PushedSet' = PushedSet
BY DEF PushedSet, Pushed, All

LEMMA ConsumerStep ==
  ASSUME RingInv, Consumer
  PROVE  RingInv'
<1>1. PushedSet' = PushedSet
  BY PushedSame DEF Consumer, Pop, CountConsumed, PopNone, LoadStop
<1>2. CASE Pop
  <2>1. /\ queue' \in Seq(Records) /\ Len(queue') = Len(queue) - 1
        /\ taken' \in Seq(Records) /\ Len(taken') = Len(taken) + 1
    BY <1>2 DEF RingInv, RingTypes, Pop
  <2>2. RingTypes'
    BY <1>2, <2>1 DEF RingInv, RingTypes, Pop
  <2>3. Len(queue) \in Int /\ Len(taken) \in Int /\ consumed \in Int
    BY DEF RingInv, RingTypes
  <2>4. Len(taken') + Len(queue') = Len(taken) + Len(queue)
    BY <2>1, <2>3
  <2>5. Len(taken') = consumed' + (IF consumer' = "count" THEN 1 ELSE 0)
    BY <1>2, <2>1, <2>3 DEF RingInv, Accounts, Pop
  <2>6. produced' = produced /\ counting' = counting
    BY <1>2 DEF Pop
  <2>7. Accounts'
    BY <1>1, <2>4, <2>5, <2>6 DEF RingInv, Accounts
  <2>8. Shutdown'
    BY <1>2 DEF RingInv, Shutdown, Pop, total_expected
  <2> QED
    BY <2>2, <2>7, <2>8 DEF RingInv
<1>3. CASE CountConsumed
  <2>1. RingTypes' /\ Accounts'
    BY <1>1, <1>3, SMTT(20) DEF RingInv, RingTypes, Accounts, CountConsumed
  <2>2. Shutdown'
    BY <1>3, AllFinite DEF RingInv, RingTypes, Shutdown, CountConsumed, total_expected
  <2> QED
    BY <2>1, <2>2 DEF RingInv
<1>4. CASE PopNone
  <2>1. RingTypes' /\ Accounts'
    BY <1>1, <1>4 DEF RingInv, RingTypes, Accounts, PopNone
  <2>2. Shutdown'
    BY <1>4 DEF RingInv, RingTypes, Shutdown, PopNone, total_expected
  <2> QED
    BY <2>1, <2>2 DEF RingInv
<1>5. CASE LoadStop
  <2>1. RingTypes' /\ Accounts'
    BY <1>1, <1>5 DEF RingInv, RingTypes, Accounts, LoadStop
  <2>2. Shutdown'
    BY <1>5 DEF RingInv, RingTypes, Shutdown, LoadStop, total_expected
  <2> QED
    BY <2>1, <2>2 DEF RingInv
<1> QED
  BY <1>2, <1>3, <1>4, <1>5 DEF Consumer

\* When the consumer has stopped, everything was sent, taken and counted.
LEMMA StoppedIsExact ==
  ASSUME RingInv, consumer = "stopped"
  PROVE  /\ queue = <<>> /\ counting = {}
         /\ Len(taken) = total_expected
         /\ produced = total_expected /\ consumed = total_expected
<1>1. stop /\ consumed >= total_expected /\ main # "join_producers"
  BY DEF RingInv, Shutdown
<1>2. counting = {} /\ PushedSet = All
  BY <1>1, AllPushed DEF RingInv, Shutdown
<1>3. Cardinality(counting) = 0 /\ Cardinality(PushedSet) = total_expected
  BY <1>2, AllFinite, FS_EmptySet
<1>4. Len(taken) = consumed /\ Len(queue) \in Nat
  BY DEF RingInv, RingTypes, Accounts
<1>5. Len(queue) = 0 /\ Len(taken) = total_expected /\ consumed = total_expected
  BY <1>1, <1>3, <1>4, AllFinite DEF RingInv, RingTypes, Accounts
<1>6. produced = total_expected
  BY <1>3, AllFinite DEF RingInv, RingTypes, Accounts
<1> QED
  BY <1>2, <1>5, <1>6 DEF RingInv, RingTypes

LEMMA MainStep ==
  ASSUME RingInv, Main
  PROVE  RingInv'
<1>1. PushedSet' = PushedSet
  BY PushedSame DEF Main, JoinProducers, StopWhenDrained, JoinConsumer
<1>2. CASE JoinProducers
  <2>1. RingTypes' /\ Accounts'
    BY <1>1, <1>2 DEF RingInv, RingTypes, Accounts, JoinProducers
  <2>2. Shutdown'
    BY <1>2 DEF RingInv, RingTypes, Shutdown, JoinProducers, total_expected
  <2> QED
    BY <2>1, <2>2 DEF RingInv
<1>3. CASE StopWhenDrained
  <2>1. RingTypes' /\ Accounts'
    BY <1>1, <1>3 DEF RingInv, RingTypes, Accounts, StopWhenDrained
  <2>2. Shutdown'
    BY <1>3 DEF RingInv, RingTypes, Shutdown, StopWhenDrained, total_expected
  <2> QED
    BY <2>1, <2>2 DEF RingInv
<1>4. CASE JoinConsumer
  <2>1. produced = total_expected /\ consumed = total_expected /\ main' = "done"
    BY <1>4, StoppedIsExact DEF JoinConsumer
  <2>2. RingTypes' /\ Accounts'
    BY <1>1, <1>4, <2>1 DEF RingInv, RingTypes, Accounts, JoinConsumer
  <2>3. Shutdown'
    BY <1>4, <2>1 DEF RingInv, RingTypes, Shutdown, JoinConsumer, total_expected
  <2> QED
    BY <2>2, <2>3 DEF RingInv
<1> QED
  BY <1>2, <1>3, <1>4 DEF Main

\* The invariant of every interleaving.
THEOREM RingInvariant == Spec => []RingInv
<1>1. RingInv /\ [Next]_vars => RingInv'
  <2> SUFFICES ASSUME RingInv, [Next]_vars PROVE RingInv'
    OBVIOUS
  <2>1. CASE UNCHANGED vars
    <3>1. PushedSet' = PushedSet
      BY <2>1, PushedSame DEF vars
    <3> QED
      BY <2>1, <3>1 DEF vars, RingInv, RingTypes, Accounts, Shutdown, total_expected
  <2>2. CASE \E p \in Producers : Producer(p)
    BY <2>2, PushStep, CountProducedStep DEF Producer
  <2>3. CASE Consumer
    BY <2>3, ConsumerStep
  <2>4. CASE Main
    BY <2>4, MainStep
  <2> QED
    BY <2>1, <2>2, <2>3, <2>4 DEF Next, Finished
<1> QED
  BY <1>1, RingInit, PTL DEF Spec

\* The consumer leaves only when nothing is queued and nothing will be, whatever it
\* saw when: the None it acts on may be older than stop.
THEOREM ShutdownIsExact == Spec => []StopsOnlyWhenDrained
<1>1. RingInv => StopsOnlyWhenDrained
  BY StoppedIsExact DEF StopsOnlyWhenDrained
<1> QED
  BY <1>1, RingInvariant, PTL

\* main's asserts on the two counters never fail, and where they pass the counters
\* tell how many records were taken.
THEOREM AssertsHold == Spec => []CountersAreTruthful
<1>1. RingInv => CountersAreTruthful
  BY StoppedIsExact DEF RingInv, RingTypes, Shutdown, CountersAreTruthful
<1> QED
  BY <1>1, RingInvariant, PTL

-----------------------------------------------------------------------------
(* What is under way *)

\* Taking a record off the queue changes nothing of what is under way in all.
LEMMA PopMoves ==
  ASSUME NEW S, NEW s \in Seq(S), NEW t \in Seq(S), t # <<>>
  PROVE  Append(s, Head(t)) \o Tail(t) = s \o t
<1>1. /\ Append(s, Head(t)) \o Tail(t) \in Seq(S) /\ s \o t \in Seq(S)
      /\ Len(Append(s, Head(t)) \o Tail(t)) = Len(s \o t)
  OBVIOUS
<1>2. \A k \in 1..Len(s \o t) : (Append(s, Head(t)) \o Tail(t))[k] = (s \o t)[k]
  OBVIOUS
<1> QED
  BY <1>1, <1>2

\* The flow is left alone by every step that pushes nothing.
LEMMA FlowSame ==
  ASSUME NoneLostOrDuplicated, taken' \o queue' = taken \o queue,
         \A p \in Producers : Pushed(p)' = Pushed(p)
  PROVE  NoneLostOrDuplicated'
BY DEF NoneLostOrDuplicated

LEMMA FlowPush ==
  ASSUME RingInv, NoneLostOrDuplicated, NEW p \in Producers, Push(p)
  PROVE  NoneLostOrDuplicated'
<1>1. PICK all : all = taken \o queue
  OBVIOUS
<1>2. PICK n \in Nat : n = Len(all)
  BY <1>1 DEF RingInv, RingTypes
<1>3. PICK e : e = Evidence(p, sent[p])
  OBVIOUS
<1>4. e.from = p /\ e.seq = sent[p]
  BY <1>3 DEF Evidence
<1>5. sent[p] \in Nat /\ Pushed(p) = sent[p] /\ Pushed(p)' = sent[p] + 1 /\ sent[p] < per_producer
  BY RingAssumption DEF RingInv, RingTypes, Push, Pushed
<1>6. \A q \in Producers \ {p} : Pushed(q)' = Pushed(q)
  BY DEF Push, Pushed
<1>7. /\ Len(taken' \o queue') = n + 1 /\ (taken' \o queue')[n + 1] = e
      /\ \A k \in 1..n : (taken' \o queue')[k] = all[k]
  <2>1. queue' = Append(queue, e) /\ taken' = taken
    BY <1>3 DEF Push
  <2>2. PICK R : taken \in Seq(R) /\ queue \in Seq(R)
    BY DEF RingInv, RingTypes
  <2> QED
    BY <1>1, <1>2, <2>1, <2>2
<1>8. ASSUME NEW k \in 1..n PROVE all[k].from \in Producers /\ all[k].seq \in 0..(per_producer - 1)
                                   /\ all[k] = Evidence(all[k].from, all[k].seq)
  <2>1. all \in Seq(Records)
    BY <1>1 DEF RingInv, RingTypes
  <2>2. all[k] \in Records
    BY <1>2, <2>1
  <2> QED
    BY <2>2 DEF Records, Evidence
<1>9. ASSUME NEW k \in 1..n PROVE all[k].seq < Pushed(all[k].from)
  BY <1>1, <1>2, <1>8 DEF NoneLostOrDuplicated
<1>10. ASSUME NEW q \in Producers, NEW i \in 0..(per_producer - 1)
       PROVE  i < Pushed(q)' <=> \E k \in 1..(n + 1) : (taken' \o queue')[k] = Evidence(q, i)
  <2>1. i < Pushed(q) <=> \E k \in 1..n : all[k] = Evidence(q, i)
    BY <1>1, <1>2 DEF NoneLostOrDuplicated
  <2>2. (\E k \in 1..(n + 1) : (taken' \o queue')[k] = Evidence(q, i))
          <=> (\E k \in 1..n : all[k] = Evidence(q, i)) \/ e = Evidence(q, i)
    BY <1>7, SMTT(30)
  <2>3. e = Evidence(q, i) <=> q = p /\ i = sent[p]
    BY <1>3 DEF Evidence
  <2>4. i < Pushed(q)' <=> i < Pushed(q) \/ (q = p /\ i = sent[p])
    <3>1. CASE q = p
      BY <1>5, <3>1
    <3>2. CASE q # p
      BY <1>6, <3>2
    <3> QED
      BY <3>1, <3>2
  <2> QED
    BY <2>1, <2>2, <2>3, <2>4
<1>11. ASSUME NEW j \in 1..(n + 1), NEW k \in 1..(n + 1), j < k,
              (taken' \o queue')[j].from = (taken' \o queue')[k].from
       PROVE  (taken' \o queue')[j].seq < (taken' \o queue')[k].seq
  <2>1. j \in 1..n /\ (taken' \o queue')[j] = all[j]
    BY <1>7, <1>11
  <2>2. CASE k = n + 1
    <3>1. (taken' \o queue')[k] = e
      BY <1>7, <2>2
    <3>2. all[j].from = p
      BY <1>4, <1>11, <2>1, <3>1
    <3> QED
      BY <1>4, <1>5, <1>9, <2>1, <3>1, <3>2
  <2>3. CASE k # n + 1
    <3>1. k \in 1..n /\ (taken' \o queue')[k] = all[k]
      BY <1>7, <2>3
    <3> QED
      BY <1>1, <1>2, <1>11, <2>1, <3>1 DEF NoneLostOrDuplicated
  <2> QED
    BY <2>2, <2>3
<1> QED
  BY <1>7, <1>10, <1>11 DEF NoneLostOrDuplicated

\* Every record is transferred once and in its producer's order, whoever waits for whom.
THEOREM TransferIsExact == Spec => []NoneLostOrDuplicated
<1>1. Init => NoneLostOrDuplicated
  <2> SUFFICES ASSUME Init PROVE NoneLostOrDuplicated
    OBVIOUS
  <2>1. Len(taken \o queue) = 0
    BY DEF Init
  <2>2. \A p \in Producers : Pushed(p) = 0
    BY DEF Init, Pushed
  <2> QED
    BY <2>1, <2>2 DEF NoneLostOrDuplicated
<1>2. RingInv /\ NoneLostOrDuplicated /\ [Next]_vars => NoneLostOrDuplicated'
  <2> SUFFICES ASSUME RingInv, NoneLostOrDuplicated, [Next]_vars PROVE NoneLostOrDuplicated'
    OBVIOUS
  <2>1. ASSUME NEW p \in Producers, Push(p) PROVE NoneLostOrDuplicated'
    BY <2>1, FlowPush
  <2>2. ASSUME NEW p \in Producers, CountProduced(p) PROVE NoneLostOrDuplicated'
    <3>1. p \in counting /\ taken' = taken /\ queue' = queue
      BY <2>2 DEF CountProduced
    <3>2. \A q \in Producers : Pushed(q)' = Pushed(q)
      BY <2>2, RingAssumption DEF RingInv, RingTypes, CountProduced, Pushed
    <3> QED
      BY <3>1, <3>2, FlowSame
  <2>3. CASE Pop
    <3>1. taken' \o queue' = taken \o queue
      BY <2>3, PopMoves DEF RingInv, RingTypes, Pop
    <3>2. \A q \in Producers : Pushed(q)' = Pushed(q)
      BY <2>3 DEF Pop, Pushed
    <3> QED
      BY <3>1, <3>2, FlowSame
  <2>4. CASE CountConsumed \/ PopNone \/ LoadStop \/ Main \/ Finished \/ UNCHANGED vars
    <3>1. taken' = taken /\ queue' = queue /\ sent' = sent /\ counting' = counting
      BY <2>4 DEF CountConsumed, PopNone, LoadStop, Main, JoinProducers, StopWhenDrained,
                  JoinConsumer, Finished, vars
    <3> QED
      BY <3>1, FlowSame DEF Pushed
  <2> QED
    BY <2>1, <2>2, <2>3, <2>4 DEF Next, Producer, Consumer
<1> QED
  BY <1>1, <1>2, RingInvariant, PTL DEF Spec
=============================================================================

----------------------------- MODULE EvidenceRing -----------------------------
(***************************************************************************)
(* tap_reader/src/ring.rs and its use in src/bin/bench_ring.rs: tap workers *)
(* hand evidence records to one consumer through a bounded queue, and main *)
(* tells the consumer to stop.                                             *)
(*                                                                         *)
(* One action per atomic operation of a thread.  A failed push, a load that *)
(* keeps a spin loop going and a join that is not over change nothing and  *)
(* are stuttering steps.  The counters and the flag are Relaxed atomics:   *)
(* consumed only grows and stop is set once, so a stale load is the same   *)
(* as a load made earlier.  The queue (crossbeam's ArrayQueue, external)   *)
(* is a linearizable bounded FIFO.                                         *)
(***************************************************************************)
EXTENDS Integers, Sequences, FiniteSets

CONSTANTS Producers, per_producer, capacity

ASSUME RingAssumption ==
  IsFiniteSet(Producers) /\ per_producer \in Nat /\ capacity \in Nat \ {0}

VARIABLES queue,      \* Evidence in the ArrayQueue
          sent,       \* sent[p]: index i of the for loop of producer p
          counting,   \* producers between a push and its fetch_add
          produced, consumed, stop,   \* the atomics
          consumer,   \* where the consumer thread is
          last_seen, reordered,       \* its locals: every record has the same key
          main,       \* where the main thread is
          taken       \* history: records popped

flow == <<last_seen, reordered>>
vars == <<queue, sent, counting, produced, consumed, stop, consumer, last_seen,
          reordered, main, taken>>

total_expected == per_producer * Cardinality(Producers)

\* dummy_evidence(i): the producer's identity is ours, no field carries it.
Evidence(p, i) == [from |-> p, seq |-> i]

Init ==
  /\ queue = <<>>
  /\ sent = [p \in Producers |-> 0]
  /\ counting = {}
  /\ produced = 0 /\ consumed = 0 /\ stop = FALSE
  /\ consumer = "pop"
  /\ last_seen = -1 /\ reordered = 0
  /\ main = "join_producers"
  /\ taken = <<>>

-----------------------------------------------------------------------------
(* A producer *)

\* One push, its Err ignored: the record is gone when the queue is full.
PushOrDrop(p) ==
  /\ sent[p] < per_producer /\ p \notin counting
  /\ queue' = IF Len(queue) < capacity THEN Append(queue, Evidence(p, sent[p])) ELSE queue
  /\ counting' = counting \cup {p}
  /\ UNCHANGED <<sent, produced, consumed, stop, consumer, flow, main, taken>>

\* The push that ends `while q.push(ev).is_err()`.
Push(p) ==
  /\ sent[p] < per_producer /\ p \notin counting
  /\ Len(queue) < capacity
  /\ queue' = Append(queue, Evidence(p, sent[p]))
  /\ counting' = counting \cup {p}
  /\ UNCHANGED <<sent, produced, consumed, stop, consumer, flow, main, taken>>

CountProduced(p) ==
  /\ p \in counting
  /\ produced' = produced + 1
  /\ counting' = counting \ {p}
  /\ sent' = [sent EXCEPT ![p] = @ + 1]
  /\ UNCHANGED <<queue, consumed, stop, consumer, flow, main, taken>>

-----------------------------------------------------------------------------
(* The consumer *)

Pop ==
  /\ consumer = "pop" /\ queue # <<>>
  /\ queue' = Tail(queue)
  /\ taken' = Append(taken, Head(queue))
  /\ consumer' = "count"
  /\ reordered' = IF Head(queue).seq < last_seen THEN reordered + 1 ELSE reordered
  /\ last_seen' = Head(queue).seq
  /\ UNCHANGED <<sent, counting, produced, consumed, stop, main>>

\* The fetch_add forgotten.
CountNothing ==
  /\ consumer = "count"
  /\ consumer' = "pop"
  /\ UNCHANGED <<queue, sent, counting, produced, consumed, stop, flow, main, taken>>

CountConsumed ==
  /\ consumer = "count"
  /\ consumed' = consumed + 1
  /\ consumer' = "pop"
  /\ UNCHANGED <<queue, sent, counting, produced, stop, flow, main, taken>>

PopNone ==
  /\ consumer = "pop" /\ queue = <<>>
  /\ consumer' = "saw_none"
  /\ UNCHANGED <<queue, sent, counting, produced, consumed, stop, flow, main, taken>>

\* After the pop that returned None, however long ago: load stop.
LoadStop ==
  /\ consumer = "saw_none"
  /\ consumer' = IF stop THEN "stopped" ELSE "pop"
  /\ UNCHANGED <<queue, sent, counting, produced, consumed, stop, flow, main, taken>>

-----------------------------------------------------------------------------
(* main *)

\* The producers' handles dropped instead of joined.
DetachProducers ==
  /\ main = "join_producers"
  /\ main' = "await_drain"
  /\ UNCHANGED <<queue, sent, counting, produced, consumed, stop, consumer, flow, taken>>

JoinProducers ==
  /\ main = "join_producers"
  /\ \A p \in Producers : sent[p] = per_producer
  /\ main' = "await_drain"
  /\ UNCHANGED <<queue, sent, counting, produced, consumed, stop, consumer, flow, taken>>

\* Stop once the producers are done, without waiting for the queue to drain.
StopAtOnce ==
  /\ main = "await_drain"
  /\ stop' = TRUE
  /\ main' = "join_consumer"
  /\ UNCHANGED <<queue, sent, counting, produced, consumed, consumer, flow, taken>>

\* The load that ends the spin on consumed, and the store that follows it.
StopWhenDrained ==
  /\ main = "await_drain"
  /\ consumed >= total_expected
  /\ stop' = TRUE
  /\ main' = "join_consumer"
  /\ UNCHANGED <<queue, sent, counting, produced, consumed, consumer, flow, taken>>

\* Join, then the two asserts.
JoinConsumer ==
  /\ main = "join_consumer"
  /\ consumer = "stopped"
  /\ main' = IF produced = total_expected /\ consumed = total_expected
             THEN "done" ELSE "panicked"
  /\ UNCHANGED <<queue, sent, counting, produced, consumed, stop, consumer, flow, taken>>

-----------------------------------------------------------------------------

Producer(p) == Push(p) \/ CountProduced(p)
Consumer == Pop \/ CountConsumed \/ PopNone \/ LoadStop
Main == JoinProducers \/ StopWhenDrained \/ JoinConsumer

Finished == main \in {"done", "panicked"} /\ UNCHANGED vars

Next == (\E p \in Producers : Producer(p)) \/ Consumer \/ Main \/ Finished

\* The operating system runs every thread again and again.
Fairness == (\A p \in Producers : WF_vars(Producer(p))) /\ WF_vars(Consumer) /\ WF_vars(Main)

Spec == Init /\ [][Next]_vars /\ Fairness

-----------------------------------------------------------------------------
(* Properties *)

\* How many records of p have been pushed.
Pushed(p) == IF p \in counting THEN sent[p] + 1 ELSE sent[p]

\* No record is lost, duplicated or overtaken by a later one of its producer
\* between push and pop, with the queue full or empty.
NoneLostOrDuplicated ==
  LET all == taken \o queue
  IN  /\ \A p \in Producers, i \in 0..(per_producer - 1) :
           i < Pushed(p) <=> \E k \in 1..Len(all) : all[k] = Evidence(p, i)
      /\ \A j, k \in 1..Len(all) :
           j < k /\ all[j].from = all[k].from => all[j].seq < all[k].seq

\* The consumer leaves only when nothing is queued and nothing will be: its None
\* may be older than the last push and older than stop.
StopsOnlyWhenDrained ==
  consumer = "stopped" =>
    queue = <<>> /\ counting = {} /\ Len(taken) = total_expected

\* The two counters agree with what happened, so the asserts on them at the
\* end verify the transfer ("verified by atomic counters matching").
CountersAreTruthful ==
  /\ main # "panicked"
  /\ main = "done" => Len(taken) = consumed /\ consumed = produced

\* Every thread ends: no producer spins for ever on a full queue, the consumer
\* is told to stop, and main joins it.
Terminates == <>(main = "done")
=============================================================================

---------------------------- MODULE ReorderBuffer ----------------------------
(***************************************************************************)
(* tap_reader/src/reorder.rs: ReorderBuffer, the layer of the tap that     *)
(* restores the order of one TCP stream from the sequence numbers of the   *)
(* segments it captures, and the fiber it listens to.                      *)
(*                                                                         *)
(* A payload byte is abstracted to its offset in the stream, so that a     *)
(* byte delivered twice, late, or in the wrong place is visible.  Sequence *)
(* numbers keep their modulus W (2^32 in the code).                        *)
(***************************************************************************)
EXTENDS Integers, Sequences, FiniteSets

CONSTANTS W,          \* the size of the sequence-number space
          ISN,        \* initial_seq: the sequence number of offset 0
          N,          \* length of the stream
          Segments,   \* segments the sender may emit
          MaxCopies   \* bound: how many times one segment crosses the fiber

ASSUME BufferAssumption ==
  /\ W \in Nat \ {0}
  /\ ISN \in 0..(W-1)
  /\ MaxCopies \in Nat
  /\ N \in Nat
  /\ Segments \subseteq [off : Nat, len : Nat]
  /\ \A s \in Segments : s.off + s.len <= N

VARIABLES next_expected,       \* the fields of the struct
          pending,             \* the BTreeMap: seq -> payload
          delivered,
          duplicates_dropped,
          reordered_count,
          copies,              \* copies of a segment that may still cross the fiber
          seen,                \* history: segments captured so far
          dropped              \* history: segments the stale branch discarded

buffer == <<next_expected, pending, delivered, duplicates_dropped, reordered_count>>
vars == <<next_expected, pending, delivered, duplicates_dropped, reordered_count,
          copies, seen, dropped>>

Payload(s) == [i \in 1..s.len |-> s.off + i - 1]
wrapping_add(a, n) == (a + n) % W
SeqNo(s) == wrapping_add(ISN, s.off)

Empty == [k \in {} |-> <<>>]
RemoveKey(p, k) == [j \in DOMAIN p \ {k} |-> p[j]]
Insert(p, k, v) == [j \in DOMAIN p \cup {k} |-> IF j = k THEN v ELSE p[j]]

-----------------------------------------------------------------------------
(* drain_ready: one turn of the while loop, and the loop run to its end.  A *)
(* turn removes a key of pending, so the loop ends within that many turns.  *)

\* A turn that leaves the buffered payload in place (get instead of remove).
DrainStepKeeps(b) ==
  IF b.next \in DOMAIN b.pend
  THEN [b EXCEPT !.out = @ \o b.pend[b.next],
                 !.next = wrapping_add(@, Len(b.pend[b.next]))]
  ELSE b

DrainStep(b) ==
  IF b.next \in DOMAIN b.pend
  THEN [out  |-> b.out \o b.pend[b.next],
        next |-> wrapping_add(b.next, Len(b.pend[b.next])),
        pend |-> RemoveKey(b.pend, b.next)]
  ELSE b

DrainTurns(b) ==
  LET after[k \in 0..Cardinality(DOMAIN b.pend)] ==
        IF k = 0 THEN b ELSE DrainStep(after[k-1])
  IN  after

drain_ready(b) == DrainTurns(b)[Cardinality(DOMAIN b.pend)]

-----------------------------------------------------------------------------
(* feed, one disjunct per path through it *)

\* The early return on an empty payload forgotten: an ACK is buffered as data.
FeedEmptyBuffers(s) ==
  /\ s.len = 0
  /\ IF SeqNo(s) >= next_expected
     THEN pending' = Insert(pending, SeqNo(s), Payload(s))
     ELSE UNCHANGED pending
  /\ UNCHANGED <<next_expected, delivered, duplicates_dropped, reordered_count, dropped>>

FeedEmpty(s) ==
  /\ s.len = 0
  /\ UNCHANGED <<buffer, dropped>>

FeedStale(s) ==
  /\ s.len > 0
  /\ SeqNo(s) < next_expected
  /\ duplicates_dropped' = duplicates_dropped + 1
  /\ dropped' = dropped \cup {s}
  /\ UNCHANGED <<next_expected, pending, delivered, reordered_count>>

FeedInOrder(s) ==
  /\ s.len > 0
  /\ SeqNo(s) = next_expected
  /\ LET b == drain_ready([out  |-> delivered \o Payload(s),
                           next |-> wrapping_add(next_expected, s.len),
                           pend |-> pending])
     IN  /\ delivered' = b.out
         /\ next_expected' = b.next
         /\ pending' = b.pend
  /\ UNCHANGED <<duplicates_dropped, reordered_count, dropped>>

\* An early segment handed on at once.
FeedAheadDelivers(s) ==
  /\ s.len > 0
  /\ SeqNo(s) > next_expected
  /\ delivered' = delivered \o Payload(s)
  /\ next_expected' = wrapping_add(SeqNo(s), s.len)
  /\ UNCHANGED <<pending, duplicates_dropped, reordered_count, dropped>>

FeedAhead(s) ==
  /\ s.len > 0
  /\ SeqNo(s) > next_expected
  /\ reordered_count' = reordered_count + 1
  /\ pending' = Insert(pending, SeqNo(s), Payload(s))
  /\ UNCHANGED <<next_expected, delivered, duplicates_dropped, dropped>>

feed(s) == FeedEmpty(s) \/ FeedStale(s) \/ FeedInOrder(s) \/ FeedAhead(s)

gap_open == DOMAIN pending # {}

-----------------------------------------------------------------------------
(* The fiber: every segment crosses it up to MaxCopies times (the original  *)
(* and its retransmissions), in any order; the tap captures a copy or       *)
(* misses it.                                                               *)

Init ==
  /\ next_expected = ISN
  /\ pending = Empty
  /\ delivered = <<>>
  /\ duplicates_dropped = 0
  /\ reordered_count = 0
  /\ copies = [s \in Segments |-> MaxCopies]
  /\ seen = {}
  /\ dropped = {}

Cross(s) ==
  /\ copies[s] > 0
  /\ copies' = [copies EXCEPT ![s] = @ - 1]

Capture(s) == Cross(s) /\ seen' = seen \cup {s} /\ feed(s)

Miss(s) == Cross(s) /\ UNCHANGED <<buffer, seen, dropped>>

Next == \E s \in Segments : Capture(s) \/ Miss(s)

Spec == Init /\ [][Next]_vars

-----------------------------------------------------------------------------
(* Properties *)

\* The fields keep their types: the sequence number its width, the map its
\* keys, and no payload in the map is empty (feed returns before it buffers one).
TypeOK ==
  /\ next_expected \in 0..(W-1)
  /\ DOMAIN pending \subseteq 0..(W-1)
  /\ pending \in [DOMAIN pending -> Seq(0..(N-1)) \ {<<>>}]
  /\ delivered \in Seq(0..(N-1))
  /\ duplicates_dropped \in Nat
  /\ reordered_count \in Nat
  /\ copies \in [Segments -> 0..MaxCopies]
  /\ seen \subseteq Segments
  /\ dropped \subseteq Segments

\* Bytes are delivered in stream order, each exactly once and none skipped,
\* whatever order the tap saw the segments in, however often a segment was
\* retransmitted and however the sender cut it.
DeliveredInOrder == delivered = [i \in 1..Len(delivered) |-> i - 1]

\* A segment that feed counts as a duplicate and discards holds only bytes
\* that were delivered before ("a retransmission of data we already have").
DroppedWasDelivered == \A s \in dropped : s.off + s.len <= Len(delivered)

\* Once every segment has been captured at least once the stream is complete
\* and nothing is left in the map, regardless of arrival order.
CompleteOnceAllSeen == seen = Segments => Len(delivered) = N /\ ~ gap_open

\* gap_open() tells the truth about the capture: the map is nonempty exactly
\* when a captured byte lies beyond one that was never captured.
GapOpenIsAHole ==
  gap_open <=> \E s \in seen : s.off + s.len > Len(delivered) /\ s.len > 0

-----------------------------------------------------------------------------
(* The promise, and what it takes to keep it *)

\* The buffer implements the layer's promise: what it has delivered is a
\* function of the set of segments captured, regardless of arrival order.
Promise == INSTANCE TapStream
             WITH N <- N, Segments <- Segments, seen <- seen, delivered <- delivered
ImplementsTapStream == Promise!Spec

\* The sender cuts the stream once: segments with payload tile it, and a
\* retransmission has the boundaries of the original.
OneCut ==
  /\ \A s, t \in Segments :
       s.len > 0 /\ t.len > 0 /\ s.off <= t.off => s = t \/ s.off + s.len <= t.off
  /\ \A x \in 0..(N-1) : \E s \in Segments : Promise!Covers(s, x)

\* The stream and the number after it fit below the wraparound.
NoWrap == ISN + N < W
=============================================================================

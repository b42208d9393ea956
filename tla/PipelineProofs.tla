--------------------------- MODULE PipelineProofs ---------------------------
(***************************************************************************)
(* Theorems about ReorderBuffer for every stream, cut and number of        *)
(* retransmissions, and about the pipeline behind it.  The drain loop is   *)
(* handled by induction over its turns; what remains is one step per path  *)
(* through feed.  What the layers behind it make of a response does not    *)
(* depend on how it is cut, so the events do not depend on how the buffer  *)
(* came by it.                                                             *)
(***************************************************************************)
EXTENDS TapPipeline, ReassemblyProofs

-----------------------------------------------------------------------------
(* The drain loop *)

\* The function that unrolls the loop exists, so it obeys its own equation.
LEMMA DrainTurnsDef ==
  ASSUME NEW b, IsFiniteSet(DOMAIN b.pend)
  PROVE  DrainTurns(b) = [k \in 0..Cardinality(DOMAIN b.pend) |->
                            IF k = 0 THEN b ELSE DrainStep(DrainTurns(b)[k-1])]
<1> DEFINE C == Cardinality(DOMAIN b.pend)
           Unrolls(f, n) == f = [k \in 0..n |-> IF k = 0 THEN b ELSE DrainStep(f[k-1])]
           P == {n \in 0..C : \E f : Unrolls(f, n)}
<1>1. C \in Nat
  BY FS_CardinalityType
<1>2. 0 \in P
  <2> DEFINE g == [k \in 0..0 |-> b]
  <2>1. Unrolls(g, 0)
    OBVIOUS
  <2>2. 0 \in 0..C
    BY <1>1
  <2> HIDE DEF g, Unrolls, C
  <2> QED
    BY <2>1, <2>2
<1>3. ASSUME NEW n \in 0..(C-1), n \in P PROVE n+1 \in P
  <2>1. PICK f : Unrolls(f, n)
    BY <1>3
  <2> DEFINE g == [k \in 0..(n+1) |-> IF k <= n THEN f[k] ELSE DrainStep(f[n])]
  <2> HIDE DEF C
  <2>2. ASSUME NEW k \in 0..(n+1)
        PROVE  g[k] = IF k = 0 THEN b ELSE DrainStep(g[k-1])
    <3>1. CASE k = n+1
      BY <3>1, <1>1
    <3>2. CASE k <= n
      <4>1. f[k] = IF k = 0 THEN b ELSE DrainStep(f[k-1])
        BY <2>1, <3>2, <1>1
      <4> QED
        BY <4>1, <3>2, <1>1
    <3> QED
      BY <3>1, <3>2, <1>1
  <2>3. Unrolls(g, n+1)
    BY <2>2
  <2>4. n+1 \in 0..C
    BY <1>1, <1>3
  <2> HIDE DEF g, Unrolls
  <2> QED
    BY <2>3, <2>4
<1>4. C \in P
  <2> HIDE DEF P, C
  <2> QED
    BY <1>1, <1>2, <1>3, IntervalInduction, C \in 0..C
<1>5. \E f : Unrolls(f, C)
  BY <1>4
<1> QED
  BY <1>5, Zenon DEF DrainTurns

\* What one turn preserves, the loop preserves.
LEMMA DrainKeeps ==
  ASSUME NEW b, IsFiniteSet(DOMAIN b.pend),
         NEW S, b \in S, \A c \in S : DrainStep(c) \in S
  PROVE  drain_ready(b) \in S
<1> DEFINE C == Cardinality(DOMAIN b.pend)
           after == DrainTurns(b)
           P == {k \in 0..C : after[k] \in S}
<1>1. C \in Nat
  BY FS_CardinalityType
<1>2. after = [k \in 0..C |-> IF k = 0 THEN b ELSE DrainStep(after[k-1])]
  BY DrainTurnsDef
<1> HIDE DEF C, after
<1>3. 0 \in P
  BY <1>1, <1>2
<1>4. ASSUME NEW k \in 0..(C-1), k \in P PROVE k+1 \in P
  <2>1. after[k+1] = DrainStep(after[k])
    BY <1>1, <1>2
  <2> QED
    BY <1>1, <1>4, <2>1
<1>5. C \in P
  <2> HIDE DEF P
  <2> QED
    BY <1>1, <1>3, <1>4, IntervalInduction, C \in 0..C
<1> QED
  BY <1>5 DEF drain_ready, C, after

\* The loop ends because its condition fails, not because turns ran out: each
\* turn removes a key, and there are as many turns as keys.
LEMMA DrainEnds ==
  ASSUME NEW b, IsFiniteSet(DOMAIN b.pend)
  PROVE  drain_ready(b).next \notin DOMAIN drain_ready(b).pend
<1> DEFINE C == Cardinality(DOMAIN b.pend)
           after == DrainTurns(b)
           Ended(c) == c.next \notin DOMAIN c.pend
           Left(c, n) == IsFiniteSet(DOMAIN c.pend) /\ Cardinality(DOMAIN c.pend) = n
           P == {k \in 0..C : Ended(after[k]) \/ Left(after[k], C - k)}
<1>1. C \in Nat
  BY FS_CardinalityType
<1>2. after = [k \in 0..C |-> IF k = 0 THEN b ELSE DrainStep(after[k-1])]
  BY DrainTurnsDef
<1>3. Left(b, C)
  OBVIOUS
<1>4. ASSUME NEW c, NEW n \in Nat, Left(c, n+1), ~ Ended(c)
      PROVE  Left(DrainStep(c), n)
  <2>1. DrainStep(c).pend = RemoveKey(c.pend, c.next)
    BY <1>4 DEF DrainStep
  <2>2. DOMAIN DrainStep(c).pend = DOMAIN c.pend \ {c.next}
    BY <2>1 DEF RemoveKey
  <2>3. /\ IsFiniteSet(DOMAIN c.pend)
        /\ Cardinality(DOMAIN c.pend) = n+1
        /\ c.next \in DOMAIN c.pend
    BY <1>4
  <2> DEFINE D == DOMAIN c.pend
  <2> HIDE DEF D
  <2>4. IsFiniteSet(D \ {c.next}) /\ Cardinality(D \ {c.next}) = n
    <3>1. IsFiniteSet(D) /\ Cardinality(D) = n+1 /\ c.next \in D
      BY <2>3 DEF D
    <3>2. /\ IsFiniteSet(D \ {c.next})
          /\ Cardinality(D \ {c.next}) =
               IF c.next \in D THEN Cardinality(D) - 1 ELSE Cardinality(D)
      BY <3>1, FS_RemoveElement, Zenon
    <3> QED
      BY <3>1, <3>2
  <2> QED
    BY <2>2, <2>4 DEF D
<1>5. ASSUME NEW c, Ended(c) PROVE Ended(DrainStep(c))
  BY <1>5 DEF DrainStep
<1>6. ASSUME NEW c, Left(c, 0) PROVE Ended(c)
  BY <1>6, FS_EmptySet
<1> HIDE DEF C, after, Left, Ended
<1>7. 0 \in P
  <2>1. after[0] = b /\ 0 \in 0..C /\ C - 0 = C
    BY <1>1, <1>2
  <2> QED
    BY <1>3, <2>1
<1>8. ASSUME NEW k \in 0..(C-1), k \in P PROVE k+1 \in P
  <2>1. after[k+1] = DrainStep(after[k]) /\ k+1 \in 0..C
    BY <1>1, <1>2
  <2>2. CASE Ended(after[k])
    BY <2>1, <2>2, <1>5
  <2>3. CASE ~ Ended(after[k])
    <3>1. C - (k+1) \in Nat /\ C - k = (C - (k+1)) + 1
      BY <1>1
    <3>2. Left(after[k], (C - (k+1)) + 1)
      BY <1>8, <2>3, <3>1
    <3> QED
      BY <2>1, <2>3, <3>1, <3>2, <1>4
  <2> QED
    BY <2>2, <2>3
<1>9. C \in P
  <2> HIDE DEF P
  <2> QED
    BY <1>1, <1>7, <1>8, IntervalInduction, C \in 0..C
<1>10. Ended(after[C])
  BY <1>9, <1>6, <1>1, C - C = 0
<1> QED
  BY <1>10 DEF drain_ready, C, after, Ended

-----------------------------------------------------------------------------
(* Sequence numbers *)

LEMMA ConstantTypes ==
  /\ W \in Nat /\ W > 0
  /\ ISN \in Nat /\ ISN < W
  /\ N \in Nat
  BY BufferAssumption

LEMMA SegmentType ==
  ASSUME NEW s \in Segments
  PROVE  s.off \in Nat /\ s.len \in Nat /\ s.off + s.len <= N
  BY BufferAssumption

\* A sum that wraps at most once.
LEMMA WrapOnce ==
  ASSUME NEW a \in Nat, NEW n \in Nat, a + n < 2 * W
  PROVE  wrapping_add(a, n) = IF a + n < W THEN a + n ELSE a + n - W
<1> W \in Nat \ {0}
  BY BufferAssumption
<1> QED
  BY DEF wrapping_add

LEMMA WrapRange ==
  ASSUME NEW a \in Nat, NEW n \in Nat
  PROVE  wrapping_add(a, n) \in 0..(W-1)
  BY BufferAssumption DEF wrapping_add

\* Offsets below the modulus have different sequence numbers.
LEMMA WrapInjective ==
  ASSUME NEW m \in Nat, m < W, NEW n \in Nat, n < W,
         wrapping_add(ISN, m) = wrapping_add(ISN, n)
  PROVE  m = n
<1>1. wrapping_add(ISN, m) = IF ISN + m < W THEN ISN + m ELSE ISN + m - W
  BY ConstantTypes, WrapOnce
<1>2. wrapping_add(ISN, n) = IF ISN + n < W THEN ISN + n ELSE ISN + n - W
  BY ConstantTypes, WrapOnce
<1>3. (IF ISN + m < W THEN ISN + m ELSE ISN + m - W)
        = (IF ISN + n < W THEN ISN + n ELSE ISN + n - W)
  BY <1>1, <1>2, Zenon
<1> QED
  BY <1>3, ConstantTypes

LEMMA WrapTwice ==
  ASSUME NEW m \in Nat, NEW n \in Nat, m + n < W
  PROVE  wrapping_add(wrapping_add(ISN, m), n) = wrapping_add(ISN, m + n)
<1> DEFINE a == wrapping_add(ISN, m)
<1>1. a = IF ISN + m < W THEN ISN + m ELSE ISN + m - W
  BY ConstantTypes, WrapOnce
<1>2. wrapping_add(ISN, m + n) = IF ISN + (m + n) < W THEN ISN + (m + n) ELSE ISN + (m + n) - W
  <2> DEFINE e == m + n
  <2>1. e \in Nat /\ ISN + e < 2 * W
    BY ConstantTypes
  <2> HIDE DEF e
  <2>2. wrapping_add(ISN, e) = IF ISN + e < W THEN ISN + e ELSE ISN + e - W
    BY <2>1, ConstantTypes, WrapOnce
  <2> QED
    BY <2>2 DEF e
<1>3. a \in Nat /\ a + n < 2 * W
  BY <1>1, ConstantTypes
<1> HIDE DEF a
<1>4. wrapping_add(a, n) = IF a + n < W THEN a + n ELSE a + n - W
  BY <1>3, WrapOnce
<1>5. wrapping_add(a, n) = wrapping_add(ISN, m + n)
  BY <1>1, <1>2, <1>4, ConstantTypes
<1> QED
  BY <1>5 DEF a

-----------------------------------------------------------------------------
(* Type correctness *)

Offsets == 0..(N-1)
Maps == UNION {[K -> Seq(Offsets) \ {<<>>}] : K \in SUBSET (0..(W-1))}
Loops == [out : Seq(Offsets), next : 0..(W-1), pend : Maps]

LEMMA MapsAreFinite ==
  ASSUME NEW p \in Maps
  PROVE  /\ IsFiniteSet(DOMAIN p)
         /\ DOMAIN p \subseteq 0..(W-1)
         /\ \A k \in DOMAIN p : p[k] \in Seq(Offsets) /\ p[k] # <<>>
<1>1. PICK K \in SUBSET (0..(W-1)) : p \in [K -> Seq(Offsets) \ {<<>>}]
  BY DEF Maps
<1>2. IsFiniteSet(0..(W-1))
  BY BufferAssumption, FS_Interval, 0 \in Int, W-1 \in Int
<1>3. IsFiniteSet(K)
  BY <1>1, <1>2, FS_Subset
<1> QED
  BY <1>1, <1>3

LEMMA RemoveType ==
  ASSUME NEW p \in Maps, NEW k
  PROVE  /\ RemoveKey(p, k) \in Maps
         /\ DOMAIN RemoveKey(p, k) = DOMAIN p \ {k}
         /\ \A j \in DOMAIN p \ {k} : RemoveKey(p, k)[j] = p[j]
<1>1. RemoveKey(p, k) \in [DOMAIN p \ {k} -> Seq(Offsets) \ {<<>>}]
  BY MapsAreFinite DEF RemoveKey
<1>2. DOMAIN p \ {k} \in SUBSET (0..(W-1))
  BY MapsAreFinite
<1> QED
  BY <1>1, <1>2 DEF RemoveKey, Maps

LEMMA InsertType ==
  ASSUME NEW p \in Maps, NEW k \in 0..(W-1), NEW v \in Seq(Offsets), v # <<>>
  PROVE  /\ Insert(p, k, v) \in Maps
         /\ DOMAIN Insert(p, k, v) = DOMAIN p \cup {k}
         /\ Insert(p, k, v)[k] = v
         /\ \A j \in DOMAIN p \ {k} : Insert(p, k, v)[j] = p[j]
<1>1. Insert(p, k, v) \in [DOMAIN p \cup {k} -> Seq(Offsets) \ {<<>>}]
  BY MapsAreFinite DEF Insert
<1>2. DOMAIN p \cup {k} \in SUBSET (0..(W-1))
  BY MapsAreFinite
<1> QED
  BY <1>1, <1>2 DEF Insert, Maps

LEMMA PayloadType ==
  ASSUME NEW s \in Segments
  PROVE  /\ Payload(s) \in Seq(Offsets)
         /\ Len(Payload(s)) = s.len
         /\ s.len > 0 => Payload(s) # <<>>
         /\ SeqNo(s) \in 0..(W-1)
<1>1. s.off \in Nat /\ s.len \in Nat /\ s.off + s.len <= N /\ N \in Nat
  BY BufferAssumption
<1>2. ASSUME NEW i \in 1..s.len PROVE s.off + i - 1 \in Offsets
  BY <1>1 DEF Offsets
<1>3. Payload(s) \in Seq(Offsets) /\ Len(Payload(s)) = s.len
  BY <1>1, <1>2 DEF Payload
<1>4. SeqNo(s) \in 0..(W-1)
  BY <1>1, WrapRange, ConstantTypes DEF SeqNo
<1> QED
  BY <1>1, <1>3, <1>4

LEMMA DrainStepType ==
  ASSUME NEW b \in Loops
  PROVE  DrainStep(b) \in Loops
<1>1. CASE b.next \in DOMAIN b.pend
  <2>1. b.pend \in Maps /\ b.out \in Seq(Offsets) /\ b.next \in 0..(W-1)
    BY DEF Loops
  <2>2. b.pend[b.next] \in Seq(Offsets)
    BY <1>1, <2>1, MapsAreFinite
  <2>3. b.out \o b.pend[b.next] \in Seq(Offsets)
    BY <2>1, <2>2, ConcatProperties
  <2>4. b.next \in Nat /\ Len(b.pend[b.next]) \in Nat
    BY <2>1, <2>2, LenProperties
  <2>5. wrapping_add(b.next, Len(b.pend[b.next])) \in 0..(W-1)
    BY <2>4, WrapRange
  <2>6. RemoveKey(b.pend, b.next) \in Maps
    BY <2>1, RemoveType
  <2> QED
    BY <1>1, <2>3, <2>5, <2>6 DEF DrainStep, Loops
<1>2. CASE b.next \notin DOMAIN b.pend
  BY <1>2 DEF DrainStep
<1> QED
  BY <1>1, <1>2

LEMMA DrainType ==
  ASSUME NEW b \in Loops
  PROVE  /\ drain_ready(b) \in Loops
         /\ drain_ready(b).next \notin DOMAIN drain_ready(b).pend
<1>1. IsFiniteSet(DOMAIN b.pend)
  BY MapsAreFinite DEF Loops
<1> QED
  BY <1>1, DrainEnds, DrainKeeps, DrainStepType

Buf == [out |-> delivered, next |-> next_expected, pend |-> pending]

\* The record the in-order path hands to the drain loop.
Extended(s) == [out  |-> delivered \o Payload(s),
                next |-> wrapping_add(next_expected, s.len),
                pend |-> pending]

LEMMA ExtendedType ==
  ASSUME NEW s \in Segments, Buf \in Loops
  PROVE  Extended(s) \in Loops
<1>1. delivered \in Seq(Offsets) /\ next_expected \in 0..(W-1) /\ pending \in Maps
  BY DEF Buf, Loops
<1>2. delivered \o Payload(s) \in Seq(Offsets)
  BY <1>1, PayloadType, ConcatProperties
<1>3. next_expected \in Nat /\ s.len \in Nat
  BY <1>1, BufferAssumption
<1>4. wrapping_add(next_expected, s.len) \in 0..(W-1)
  BY <1>3, WrapRange
<1> QED
  BY <1>1, <1>2, <1>4 DEF Extended, Loops

LEMMA TypeIsLoop == TypeOK => Buf \in Loops
<1> SUFFICES ASSUME TypeOK PROVE Buf \in Loops
  OBVIOUS
<1>1. pending \in Maps
  BY DEF TypeOK, Maps, Offsets
<1> QED
  BY <1>1 DEF TypeOK, Buf, Loops, Offsets

LEMMA LoopTypes ==
  ASSUME NEW b \in Loops
  PROVE  /\ b.next \in 0..(W-1)
         /\ DOMAIN b.pend \subseteq 0..(W-1)
         /\ b.pend \in [DOMAIN b.pend -> Seq(0..(N-1)) \ {<<>>}]
         /\ b.out \in Seq(0..(N-1))
<1>1. PICK K \in SUBSET (0..(W-1)) : b.pend \in [K -> Seq(Offsets) \ {<<>>}]
  BY DEF Loops, Maps
<1> QED
  BY <1>1 DEF Loops, Offsets

\* feed keeps the types of the struct's fields on every path.
LEMMA FeedType ==
  ASSUME TypeOK, NEW s \in Segments, feed(s)
  PROVE  /\ Buf' \in Loops
         /\ duplicates_dropped' \in Nat
         /\ reordered_count' \in Nat
         /\ dropped' \subseteq Segments
<1>1. Buf \in Loops
  BY TypeIsLoop
<1>2. CASE FeedEmpty(s)
  BY <1>1, <1>2 DEF FeedEmpty, buffer, TypeOK, Buf
<1>3. CASE FeedStale(s)
  BY <1>1, <1>3 DEF FeedStale, TypeOK, Buf
<1>4. CASE FeedInOrder(s)
  <2>1. drain_ready(Extended(s)) \in Loops
    BY <1>1, ExtendedType, DrainType
  <2>2. Buf' = drain_ready(Extended(s))
    BY <1>4, <2>1 DEF FeedInOrder, Extended, Buf, Loops
  <2> QED
    BY <1>4, <2>1, <2>2 DEF FeedInOrder, TypeOK
<1>5. CASE FeedAhead(s)
  <2>1. Insert(pending, SeqNo(s), Payload(s)) \in Maps
    BY <1>1, <1>5, PayloadType, InsertType DEF FeedAhead, Buf, Loops
  <2> QED
    BY <1>1, <1>5, <2>1 DEF FeedAhead, Buf, Loops, TypeOK
<1> QED
  BY <1>2, <1>3, <1>4, <1>5 DEF feed

\* Every step of the buffer and of the fiber keeps the types.
LEMMA TypeStep == ASSUME TypeOK, [Next]_vars PROVE TypeOK'
<1>1. ASSUME NEW s \in Segments, Cross(s) PROVE copies' \in [Segments -> 0..MaxCopies]
  BY <1>1, BufferAssumption, SMTT(20) DEF Cross, TypeOK
<1>2. ASSUME NEW s \in Segments, Capture(s) PROVE TypeOK'
  <2>1. copies' \in [Segments -> 0..MaxCopies] /\ seen' \subseteq Segments
    BY <1>1, <1>2 DEF Capture, TypeOK
  <2>2. /\ Buf' \in Loops
        /\ duplicates_dropped' \in Nat
        /\ reordered_count' \in Nat
        /\ dropped' \subseteq Segments
    BY <1>2, FeedType DEF Capture
  <2>3. /\ next_expected' \in 0..(W-1)
        /\ DOMAIN pending' \subseteq 0..(W-1)
        /\ pending' \in [DOMAIN pending' -> Seq(0..(N-1)) \ {<<>>}]
        /\ delivered' \in Seq(0..(N-1))
    <3> DEFINE b == Buf'
    <3>1. b \in Loops
      BY <2>2
    <3>2. b.next = next_expected' /\ b.pend = pending' /\ b.out = delivered'
      BY DEF Buf
    <3> HIDE DEF b
    <3> QED
      BY <3>1, <3>2, LoopTypes
  <2> QED
    BY <2>1, <2>2, <2>3 DEF TypeOK
<1>3. ASSUME NEW s \in Segments, Miss(s) PROVE TypeOK'
  BY <1>1, <1>3 DEF Miss, TypeOK, buffer
<1>4. CASE UNCHANGED vars
  BY <1>4 DEF vars, TypeOK
<1> QED
  BY <1>2, <1>3, <1>4 DEF Next

\* The fields keep their types through every run of the buffer, for every
\* stream, cut, retransmission and modulus.
THEOREM TypeCorrect == Spec => []TypeOK
<1>1. Init => TypeOK
  BY BufferAssumption, EmptySeq DEF Init, TypeOK, Empty
<1>2. TypeOK /\ [Next]_vars => TypeOK'
  BY TypeStep
<1> QED
  BY <1>1, <1>2, PTL DEF Spec

-----------------------------------------------------------------------------
(* Offsets are delivered in order *)

\* Loop states in which the segments of A, and only they, account for the map,
\* and the bytes handed on are a prefix that ends where next points.
Ordered(A) ==
  {b \in Loops :
     /\ b.out = [i \in 1..Len(b.out) |-> i - 1]
     /\ b.next = wrapping_add(ISN, Len(b.out))
     /\ \A k \in DOMAIN b.pend :
          \E s \in A : s.len > 0 /\ k = SeqNo(s) /\ b.pend[k] = Payload(s)}

LEMMA PrefixFits ==
  ASSUME NEW q \in Seq(Offsets), q = [i \in 1..Len(q) |-> i - 1]
  PROVE  Len(q) \in 0..N
<1>1. Len(q) \in Nat /\ N \in Nat
  BY LenProperties, BufferAssumption
<1>2. CASE Len(q) > 0
  <2>1. q[Len(q)] \in Offsets
    BY <1>1, <1>2, ElementOfSeq
  <2>2. q[Len(q)] = Len(q) - 1
    BY <1>1, <1>2
  <2> QED
    BY <1>1, <2>1, <2>2 DEF Offsets
<1> QED
  BY <1>1, <1>2

\* In a stream shorter than the sequence space, a segment whose number is the
\* one that is due starts where the delivered prefix ends.
LEMMA DueIsNext ==
  ASSUME N < W, NEW s \in Segments, s.len > 0, NEW n \in 0..N,
         SeqNo(s) = wrapping_add(ISN, n)
  PROVE  s.off = n
<1>1. s.off \in Nat /\ s.off < W /\ n \in Nat /\ n < W
  BY SegmentType, ConstantTypes
<1> QED
  BY <1>1, WrapInjective DEF SeqNo

\* Handing on a payload that starts where the prefix ends gives a prefix.
LEMMA Handed ==
  ASSUME N < W, NEW q \in Seq(Offsets), q = [i \in 1..Len(q) |-> i - 1],
         NEW s \in Segments, s.off = Len(q)
  PROVE  LET r == q \o Payload(s)
         IN  /\ r \in Seq(Offsets)
             /\ Len(r) = Len(q) + s.len
             /\ r = [i \in 1..Len(r) |-> i - 1]
             /\ wrapping_add(wrapping_add(ISN, Len(q)), s.len) = wrapping_add(ISN, Len(r))
<1> DEFINE r == q \o Payload(s)
<1>1. /\ W \in Nat \ {0} /\ ISN \in 0..(W-1) /\ N \in Nat
      /\ s.off \in Nat /\ s.len \in Nat /\ s.off + s.len <= N
      /\ Payload(s) \in Seq(Offsets) /\ Len(Payload(s)) = s.len
      /\ Len(q) \in Nat
  BY BufferAssumption, PayloadType, LenProperties
<1>2. /\ r \in Seq(Offsets)
      /\ Len(r) = Len(q) + s.len
      /\ \A i \in 1..Len(r) : r[i] = IF i <= Len(q) THEN q[i] ELSE Payload(s)[i - Len(q)]
  BY <1>1, ConcatProperties, SMTT(20)
<1>3. ASSUME NEW i \in 1..Len(r) PROVE r[i] = i - 1
  <2>1. CASE i <= Len(q)
    BY <1>1, <1>2, <2>1
  <2>2. CASE i > Len(q)
    <3>1. i - Len(q) \in 1..s.len
      BY <1>1, <1>2, <2>2
    <3>2. Payload(s)[i - Len(q)] = s.off + (i - Len(q)) - 1
      BY <3>1 DEF Payload
    <3> QED
      BY <1>1, <1>2, <2>2, <3>2
  <2> QED
    BY <1>1, <1>2, <2>1, <2>2
<1>4. r = [i \in 1..Len(r) |-> r[i]]
  <2> HIDE DEF r
  <2> QED
    BY <1>2, SeqDef
<1>5. r = [i \in 1..Len(r) |-> i - 1]
  <2> HIDE DEF r
  <2> QED
    BY <1>3, <1>4
<1>6. wrapping_add(wrapping_add(ISN, Len(q)), s.len) = wrapping_add(ISN, Len(r))
  <2>1. Len(q) + s.len < W /\ Len(r) = Len(q) + s.len
    BY <1>1, <1>2
  <2> QED
    BY <1>1, <2>1, WrapTwice
<1> QED
  BY <1>2, <1>5, <1>6

LEMMA DrainStepOrdered ==
  ASSUME N < W, NEW A \in SUBSET Segments, NEW b \in Ordered(A)
  PROVE  DrainStep(b) \in Ordered(A)
<1>1. b \in Loops
  BY DEF Ordered
<1>2. CASE b.next \notin DOMAIN b.pend
  BY <1>2 DEF DrainStep
<1>3. CASE b.next \in DOMAIN b.pend
  <2>1. /\ b.out \in Seq(Offsets) /\ b.pend \in Maps
        /\ b.out = [i \in 1..Len(b.out) |-> i - 1]
        /\ b.next = wrapping_add(ISN, Len(b.out))
    BY DEF Ordered, Loops
  <2>2. PICK s \in A : s.len > 0 /\ b.next = SeqNo(s) /\ b.pend[b.next] = Payload(s)
    BY <1>3 DEF Ordered
  <2>3. s.off = Len(b.out)
    BY <2>1, <2>2, DueIsNext, PrefixFits
  <2>4. /\ DrainStep(b).out = b.out \o Payload(s)
        /\ DrainStep(b).next = wrapping_add(b.next, s.len)
        /\ DrainStep(b).pend = RemoveKey(b.pend, b.next)
    BY <1>3, <2>2, PayloadType DEF DrainStep
  <2>5. /\ DrainStep(b).out = [i \in 1..Len(DrainStep(b).out) |-> i - 1]
        /\ DrainStep(b).next = wrapping_add(ISN, Len(DrainStep(b).out))
    BY <2>1, <2>3, <2>4, Handed, ZenonT(40)
  <2>6. ASSUME NEW k \in DOMAIN DrainStep(b).pend
        PROVE  \E t \in A : t.len > 0 /\ k = SeqNo(t) /\ DrainStep(b).pend[k] = Payload(t)
    <3> DEFINE p == b.pend
               d == b.next
    <3>1. p \in Maps /\ DrainStep(b).pend = RemoveKey(p, d) /\ k \in DOMAIN RemoveKey(p, d)
      BY <2>1, <2>4
    <3> HIDE DEF p, d
    <3>2. /\ DOMAIN RemoveKey(p, d) = DOMAIN p \ {d}
          /\ \A j \in DOMAIN p \ {d} : RemoveKey(p, d)[j] = p[j]
      BY <3>1, RemoveType
    <3>3. k \in DOMAIN p /\ DrainStep(b).pend[k] = p[k]
      BY <3>1, <3>2
    <3> QED
      BY <3>3 DEF Ordered, p
  <2>7. DrainStep(b) \in Loops
    BY <1>1, DrainStepType
  <2> QED
    BY <2>5, <2>6, <2>7 DEF Ordered
<1> QED
  BY <1>2, <1>3

LEMMA OrderedGrows ==
  ASSUME NEW A \in SUBSET Segments, NEW s \in Segments, NEW b \in Ordered(A)
  PROVE  b \in Ordered(A \cup {s})
  BY DEF Ordered

\* The record the in-order path starts the drain loop from is ordered.
LEMMA ExtendedOrdered ==
  ASSUME N < W, NEW A \in SUBSET Segments, Buf \in Ordered(A),
         NEW s \in Segments, s.len > 0, SeqNo(s) = next_expected
  PROVE  /\ Extended(s) \in Ordered(A \cup {s})
         /\ s.off = Len(delivered)
         /\ Len(Extended(s).out) = Len(delivered) + s.len
<1>1. /\ Buf \in Loops /\ delivered \in Seq(Offsets)
      /\ delivered = [i \in 1..Len(delivered) |-> i - 1]
      /\ next_expected = wrapping_add(ISN, Len(delivered))
  BY DEF Ordered, Loops, Buf
<1>2. s.off = Len(delivered)
  BY <1>1, DueIsNext, PrefixFits
<1>3. /\ Len(Extended(s).out) = Len(delivered) + s.len
      /\ Extended(s).out = [i \in 1..Len(Extended(s).out) |-> i - 1]
      /\ Extended(s).next = wrapping_add(ISN, Len(Extended(s).out))
  BY <1>1, <1>2, Handed DEF Extended
<1>4. Extended(s) \in Loops
  BY <1>1, ExtendedType
<1>5. ASSUME NEW k \in DOMAIN Extended(s).pend
      PROVE  \E t \in A \cup {s} : /\ t.len > 0 /\ k = SeqNo(t)
                                   /\ Extended(s).pend[k] = Payload(t)
  BY DEF Ordered, Extended, Buf
<1> QED
  BY <1>2, <1>3, <1>4, <1>5 DEF Ordered

\* feed keeps the delivered bytes a prefix and the map honest, on every path.
LEMMA FeedOrdered ==
  ASSUME N < W, TypeOK, Buf \in Ordered(seen), NEW s \in Segments, feed(s)
  PROVE  Buf' \in Ordered(seen \cup {s})
<1>0. seen \in SUBSET Segments
  BY DEF TypeOK
<1>1. Buf \in Ordered(seen \cup {s})
  BY <1>0, OrderedGrows
<1>2. CASE FeedEmpty(s) \/ FeedStale(s)
  <2>1. Buf' = Buf
    BY <1>2 DEF FeedEmpty, FeedStale, buffer, Buf
  <2> QED
    BY <1>1, <2>1
<1>3. CASE FeedInOrder(s)
  <2>1. s.len > 0 /\ SeqNo(s) = next_expected
    BY <1>3 DEF FeedInOrder
  <2>2. Extended(s) \in Ordered(seen \cup {s})
    BY <1>0, <2>1, ExtendedOrdered
  <2>3. Extended(s) \in Loops /\ IsFiniteSet(DOMAIN Extended(s).pend)
    BY <2>2, MapsAreFinite DEF Ordered, Loops
  <2>4. seen \cup {s} \in SUBSET Segments
    BY <1>0
  <2>5. drain_ready(Extended(s)) \in Ordered(seen \cup {s})
    BY <2>2, <2>3, <2>4, DrainKeeps, DrainStepOrdered
  <2>6. drain_ready(Extended(s)) \in Loops
    BY <2>3, DrainType
  <2>7. Buf' = drain_ready(Extended(s))
    BY <1>3, <2>6 DEF FeedInOrder, Extended, Buf, Loops
  <2> QED
    BY <2>5, <2>7
<1>4. CASE FeedAhead(s)
  <2>1. /\ pending \in Maps
        /\ SeqNo(s) \in 0..(W-1)
        /\ Payload(s) \in Seq(Offsets) /\ Payload(s) # <<>>
    BY <1>1, <1>4, PayloadType DEF FeedAhead, Ordered, Loops, Buf
  <2> DEFINE q == Insert(pending, SeqNo(s), Payload(s))
  <2>2. /\ q \in Maps
        /\ DOMAIN q = DOMAIN pending \cup {SeqNo(s)}
        /\ q[SeqNo(s)] = Payload(s)
        /\ \A j \in DOMAIN pending \ {SeqNo(s)} : q[j] = pending[j]
    BY <2>1, InsertType, ZenonT(40)
  <2> HIDE DEF q
  <2>3. Buf' = [Buf EXCEPT !.pend = q]
    BY <1>4 DEF FeedAhead, Buf, q
  <2>4. Buf' \in Loops
    BY <1>1, <2>2, <2>3 DEF Ordered, Loops, Buf
  <2>5. ASSUME NEW k \in DOMAIN q
        PROVE  \E t \in seen \cup {s} : t.len > 0 /\ k = SeqNo(t) /\ q[k] = Payload(t)
    <3>1. CASE k = SeqNo(s)
      BY <1>4, <2>2, <3>1 DEF FeedAhead
    <3>2. CASE k # SeqNo(s)
      BY <1>1, <2>2, <3>2 DEF Ordered, Buf
    <3> QED
      BY <3>1, <3>2
  <2> QED
    BY <1>1, <2>3, <2>4, <2>5 DEF Ordered, Buf
<1> QED
  BY <1>2, <1>3, <1>4 DEF feed

\* In a stream shorter than the sequence space (4 GiB in the code) bytes are
\* delivered in stream order, each once and none skipped, for every cut, every
\* retransmission and every initial sequence number, wraparound included.
THEOREM InOrder == ASSUME N < W PROVE Spec => []DeliveredInOrder
<1> DEFINE Inv == TypeOK /\ Buf \in Ordered(seen)
<1>1. Init => Inv
  <2> SUFFICES ASSUME Init PROVE Inv
    OBVIOUS
  <2>1. TypeOK
    BY BufferAssumption, EmptySeq DEF Init, TypeOK, Empty
  <2>2. wrapping_add(ISN, 0) = ISN
    BY ConstantTypes, WrapOnce
  <2>3. Buf \in Loops /\ Len(delivered) = 0 /\ DOMAIN pending = {}
    BY <2>1, TypeIsLoop, EmptySeq DEF Init, Empty
  <2>4. delivered = [i \in 1..0 |-> i - 1]
    BY DEF Init
  <2> QED
    BY <2>1, <2>2, <2>3, <2>4 DEF Init, Buf, Ordered
<1>2. Inv /\ [Next]_vars => Inv'
  <2> SUFFICES ASSUME Inv, [Next]_vars PROVE Inv'
    OBVIOUS
  <2>1. TypeOK'
    BY TypeStep
  <2>2. ASSUME NEW s \in Segments, Capture(s) PROVE Buf' \in Ordered(seen')
    BY <2>2, FeedOrdered DEF Capture
  <2>3. CASE seen' = seen /\ Buf' = Buf
    BY <2>1, <2>3
  <2>4. (\E s \in Segments : Miss(s)) \/ UNCHANGED vars => seen' = seen /\ Buf' = Buf
    BY DEF Miss, buffer, vars, Buf
  <2> QED
    BY <2>1, <2>2, <2>3, <2>4 DEF Next
<1>3. Inv => DeliveredInOrder
  BY DEF Ordered, Buf, DeliveredInOrder
<1> QED
  BY <1>1, <1>2, <1>3, PTL DEF Spec

-----------------------------------------------------------------------------
(* One cut, no wraparound: the promise is kept *)

\* Loop states in which every segment of A is either handed on or in the map,
\* nothing in the map has been handed on, and the prefix ends at a boundary.
Settled(A) ==
  {b \in Ordered(A) :
     /\ \A s \in Segments : s.len > 0 =>
          s.off + s.len <= Len(b.out) \/ s.off >= Len(b.out)
     /\ \A x \in 0..(Len(b.out)-1) : \E s \in A : Promise!Covers(s, x)
     /\ \A s \in A : s.len > 0 =>
          s.off + s.len <= Len(b.out) \/ SeqNo(s) \in DOMAIN b.pend
     /\ \A s \in Segments : s.len > 0 /\ SeqNo(s) \in DOMAIN b.pend =>
          s.off >= Len(b.out)}

\* The inductive invariant: the buffer is settled between calls of feed, the
\* next byte is not in the map, and what was dropped had been handed on.
Inv ==
  /\ TypeOK
  /\ Buf \in Settled(seen)
  /\ next_expected \notin DOMAIN pending
  /\ DroppedWasDelivered

LEMMA SettledGrows ==
  ASSUME NEW A \in SUBSET Segments, NEW s \in Segments, NEW b \in Settled(A),
         s.len > 0 => s.off + s.len <= Len(b.out) \/ SeqNo(s) \in DOMAIN b.pend
  PROVE  b \in Settled(A \cup {s})
<1>1. b \in Ordered(A \cup {s})
  BY OrderedGrows DEF Settled
<1> QED
  BY <1>1 DEF Settled

LEMMA SeqNoPlain ==
  ASSUME NoWrap, NEW s \in Segments
  PROVE  SeqNo(s) = ISN + s.off
  BY SegmentType, ConstantTypes, WrapOnce DEF NoWrap, SeqNo

\* Handing on the segment that is due keeps a loop state settled.
LEMMA SettledExtends ==
  ASSUME NoWrap, OneCut, NEW A \in SUBSET Segments,
         NEW b \in Settled(A),
         NEW s \in Segments, s.len > 0, s.off = Len(b.out),
         NEW c \in Ordered(A \cup {s}),
         Len(c.out) = Len(b.out) + s.len,
         SeqNo(s) \notin DOMAIN c.pend,
         DOMAIN c.pend \subseteq DOMAIN b.pend,
         DOMAIN b.pend \subseteq DOMAIN c.pend \cup {SeqNo(s)}
  PROVE  c \in Settled(A \cup {s})
<1> DEFINE n == Len(b.out)
<1>0. n \in Nat /\ s.off = n /\ s.len \in Nat /\ Len(c.out) = n + s.len
  BY SegmentType, LenProperties DEF Settled, Ordered, Loops
<1> HIDE DEF n
<1>1. ASSUME NEW t \in Segments, t.len > 0
      PROVE  \/ t.off + t.len <= n + s.len
             \/ t.off >= n + s.len
  <2>1. t.off + t.len <= n \/ t.off >= n
    BY <1>1 DEF Settled, n
  <2>2. t.off \in Nat /\ t.len \in Nat
    BY SegmentType
  <2>3. t.off >= n => t = s \/ s.off + s.len <= t.off
    BY <1>0, <1>1, <2>2 DEF OneCut
  <2> QED
    BY <1>0, <2>1, <2>2, <2>3
<1>2. ASSUME NEW x \in 0..(n + s.len - 1) PROVE \E t \in A \cup {s} : Promise!Covers(t, x)
  <2>1. CASE x < n
    BY <1>0, <2>1 DEF Settled, n
  <2>2. CASE x >= n
    BY <1>0, <2>2 DEF Promise!Covers
  <2> QED
    BY <1>0, <2>1, <2>2
<1>3. ASSUME NEW t \in A \cup {s}, t.len > 0
      PROVE  t.off + t.len <= n + s.len \/ SeqNo(t) \in DOMAIN c.pend
  <2>1. t = s \/ t.off + t.len <= n \/ SeqNo(t) \in DOMAIN b.pend
    BY <1>3 DEF Settled, n
  <2>2. t.off \in Nat /\ t.len \in Nat /\ s.off \in Nat
    BY SegmentType
  <2>3. SeqNo(t) = SeqNo(s) => t.off = s.off
    BY <2>2, SeqNoPlain, ConstantTypes
  <2>4. t.off = s.off => t = s
    BY <1>0, <1>3, <2>2 DEF OneCut
  <2> QED
    BY <1>0, <2>1, <2>2, <2>3, <2>4
<1>4. ASSUME NEW t \in Segments, t.len > 0, SeqNo(t) \in DOMAIN c.pend
      PROVE  t.off >= n + s.len
  <2>1. t.off >= n
    BY <1>4 DEF Settled, n
  <2>2. t # s
    BY <1>4
  <2>3. t.off \in Nat /\ t.len \in Nat
    BY SegmentType
  <2> QED
    BY <1>0, <1>4, <2>1, <2>2, <2>3 DEF OneCut
<1> QED
  BY <1>0, <1>1, <1>2, <1>3, <1>4 DEF Settled

LEMMA NoWrapIsShort == NoWrap => N < W
  BY ConstantTypes DEF NoWrap

LEMMA DrainStepSettled ==
  ASSUME NoWrap, OneCut, NEW A \in SUBSET Segments, NEW b \in Settled(A)
  PROVE  DrainStep(b) \in Settled(A) /\ Len(DrainStep(b).out) >= Len(b.out)
<1>1. b \in Ordered(A) /\ b \in Loops
  BY DEF Settled, Ordered
<1>2. CASE b.next \notin DOMAIN b.pend
  BY <1>1, <1>2, LenProperties DEF DrainStep, Loops
<1>3. CASE b.next \in DOMAIN b.pend
  <2>1. /\ b.out \in Seq(Offsets) /\ b.pend \in Maps
        /\ b.out = [i \in 1..Len(b.out) |-> i - 1]
        /\ b.next = wrapping_add(ISN, Len(b.out))
    BY <1>1 DEF Ordered, Loops
  <2>2. PICK s \in A : s.len > 0 /\ b.next = SeqNo(s) /\ b.pend[b.next] = Payload(s)
    BY <1>1, <1>3 DEF Ordered
  <2>3. s.off = Len(b.out)
    BY <2>1, <2>2, DueIsNext, PrefixFits, NoWrapIsShort
  <2>4. /\ DrainStep(b).out = b.out \o Payload(s)
        /\ DrainStep(b).pend = RemoveKey(b.pend, b.next)
    BY <1>3, <2>2 DEF DrainStep
  <2>5. Len(DrainStep(b).out) = Len(b.out) + s.len
    BY <2>1, <2>3, <2>4, Handed, NoWrapIsShort
  <2>6. DOMAIN DrainStep(b).pend = DOMAIN b.pend \ {SeqNo(s)}
    BY <2>2, <2>4 DEF RemoveKey
  <2>7. DrainStep(b) \in Ordered(A)
    BY <1>1, DrainStepOrdered, NoWrapIsShort
  <2>8. DrainStep(b) \in Settled(A)
    <3>1. A \cup {s} = A
      OBVIOUS
    <3> QED
      BY <2>2, <2>3, <2>5, <2>6, <2>7, <3>1, SettledExtends
  <2> QED
    BY <2>1, <2>2, <2>5, <2>8, SegmentType, LenProperties
<1> QED
  BY <1>2, <1>3

\* feed keeps the invariant on every path.
LEMMA FeedSettled ==
  ASSUME NoWrap, OneCut, Inv, NEW s \in Segments, feed(s)
  PROVE  /\ Buf' \in Settled(seen \cup {s})
         /\ next_expected' \notin DOMAIN pending'
         /\ DroppedWasDelivered'
<1> DEFINE A == seen \cup {s}
           n == Len(delivered)
<1>0. /\ seen \in SUBSET Segments /\ A \in SUBSET Segments
      /\ s.off \in Nat /\ s.len \in Nat
      /\ dropped \subseteq Segments
      /\ n \in Nat
  BY SegmentType, LenProperties DEF Inv, TypeOK
<1>1. /\ TypeOK /\ Buf \in Settled(seen) /\ Buf \in Ordered(seen)
      /\ next_expected = wrapping_add(ISN, n)
      /\ Buf.out = delivered /\ Buf.pend = pending
  BY DEF Inv, Settled, Ordered, Buf
<1>2. n \in 0..N /\ next_expected = ISN + n
  <2>1. n \in 0..N
    BY <1>1, PrefixFits DEF Ordered, Loops, Buf
  <2> QED
    BY <1>1, <2>1, ConstantTypes, WrapOnce DEF NoWrap
<1>3. SeqNo(s) = ISN + s.off
  BY SeqNoPlain
<1>4. Buf' \in Ordered(A)
  BY <1>1, FeedOrdered, NoWrapIsShort
<1> HIDE DEF A, n
<1>5. CASE FeedEmpty(s)
  <2>1. Buf' = Buf /\ dropped' = dropped /\ UNCHANGED <<next_expected, pending, delivered>>
    BY <1>5 DEF FeedEmpty, buffer, Buf
  <2>2. Buf \in Settled(A)
    BY <1>0, <1>1, <1>5, SettledGrows DEF FeedEmpty, A
  <2> QED
    BY <2>1, <2>2 DEF Inv, DroppedWasDelivered, A
<1>6. CASE FeedStale(s)
  <2>1. /\ Buf' = Buf /\ dropped' = dropped \cup {s}
        /\ UNCHANGED <<next_expected, pending, delivered>>
        /\ s.len > 0 /\ SeqNo(s) < next_expected
    BY <1>6 DEF FeedStale, Buf
  <2>2. s.off < n
    BY <1>0, <1>2, <1>3, <2>1, ConstantTypes
  <2>3. s.off + s.len <= n
    BY <1>0, <1>1, <2>1, <2>2 DEF Settled, n
  <2>4. Buf \in Settled(A)
    BY <1>0, <1>1, <2>3, SettledGrows DEF n, A
  <2> QED
    BY <2>1, <2>3, <2>4 DEF Inv, DroppedWasDelivered, A, n
<1>7. CASE FeedInOrder(s)
  <2>1. s.len > 0 /\ SeqNo(s) = next_expected /\ dropped' = dropped
    BY <1>7 DEF FeedInOrder
  <2> DEFINE c == Extended(s)
             d == drain_ready(c)
  <2>2. /\ c \in Ordered(A)
        /\ s.off = n
        /\ Len(c.out) = n + s.len
        /\ c.pend = pending
    BY <1>0, <1>1, <2>1, ExtendedOrdered, NoWrapIsShort DEF A, n, Extended
  <2> HIDE DEF c
  <2>3. c \in Settled(A)
    <3>1. SeqNo(s) \notin DOMAIN pending
      BY <2>1 DEF Inv
    <3>2. /\ s.off = Len(Buf.out)
          /\ Len(c.out) = Len(Buf.out) + s.len
      BY <1>1, <2>2 DEF n
    <3> QED
      BY <1>0, <1>1, <2>1, <2>2, <3>1, <3>2, SettledExtends DEF A
  <2> DEFINE G == {b \in Settled(A) : Len(b.out) >= n}
  <2>4. c \in G
    BY <1>0, <2>2, <2>3
  <2>5. ASSUME NEW b \in G PROVE DrainStep(b) \in G
    <3>1. b \in Settled(A) /\ Len(b.out) >= n /\ Len(b.out) \in Nat
      BY LenProperties DEF Settled, Ordered, Loops
    <3>2. DrainStep(b) \in Settled(A) /\ Len(DrainStep(b).out) >= Len(b.out)
      BY <1>0, <3>1, DrainStepSettled
    <3>3. Len(DrainStep(b).out) \in Nat
      BY <3>2, LenProperties DEF Settled, Ordered, Loops
    <3> QED
      BY <1>0, <3>1, <3>2, <3>3
  <2>6. c \in Loops
    BY <2>2 DEF Ordered
  <2>7. d \in G
    <3> HIDE DEF G
    <3>1. IsFiniteSet(DOMAIN c.pend)
      BY <2>6, MapsAreFinite DEF Loops
    <3> QED
      BY <2>4, <2>5, <3>1, DrainKeeps
  <2>8. d \in Loops /\ d.next \notin DOMAIN d.pend
    BY <2>6, DrainType
  <2>9. Buf' = d /\ next_expected' = d.next /\ pending' = d.pend /\ delivered' = d.out
    BY <1>7, <2>8 DEF FeedInOrder, Extended, Buf, Loops, c
  <2> HIDE DEF d
  <2>10. DroppedWasDelivered'
    <3>1. Len(delivered') \in Nat /\ Len(delivered') >= n
      BY <2>7, <2>8, <2>9, LenProperties DEF Loops
    <3>2. ASSUME NEW t \in dropped PROVE t.off + t.len <= Len(delivered')
      <4>1. t.off + t.len <= n /\ t \in Segments
        BY <1>0 DEF Inv, DroppedWasDelivered, n
      <4> QED
        BY <1>0, <3>1, <4>1, SegmentType
    <3> QED
      BY <2>1, <3>2 DEF DroppedWasDelivered
  <2> QED
    BY <2>7, <2>8, <2>9, <2>10 DEF A
<1>8. CASE FeedAhead(s)
  <2>1. /\ s.len > 0 /\ SeqNo(s) > next_expected
        /\ UNCHANGED <<next_expected, delivered, dropped>>
        /\ DOMAIN pending' = DOMAIN pending \cup {SeqNo(s)}
    BY <1>8 DEF FeedAhead, Insert
  <2>2. Buf'.out = delivered /\ Buf'.pend = pending'
    BY <2>1 DEF Buf
  <2>3. s.off > n
    BY <1>0, <1>2, <1>3, <2>1, ConstantTypes
  <2>4. ASSUME NEW t \in Segments, t.len > 0, SeqNo(t) \in DOMAIN pending'
        PROVE  t.off >= n
    <3>1. CASE SeqNo(t) \in DOMAIN pending
      BY <1>1, <2>4, <3>1 DEF Settled, n
    <3>2. CASE SeqNo(t) = SeqNo(s)
      BY <1>0, <1>3, <2>3, <3>2, SeqNoPlain, SegmentType, ConstantTypes
    <3> QED
      BY <2>1, <2>4, <3>1, <3>2
  <2>5. ASSUME NEW t \in A, t.len > 0
        PROVE  t.off + t.len <= n \/ SeqNo(t) \in DOMAIN pending'
    BY <1>1, <2>1, <2>5 DEF Settled, n, A
  <2>6. \A x \in 0..(n-1) : \E t \in A : Promise!Covers(t, x)
    BY <1>1 DEF Settled, n, A
  <2>7. Buf' \in Settled(A)
    BY <1>1, <1>4, <2>2, <2>4, <2>5, <2>6 DEF Settled, n
  <2>8. next_expected \notin DOMAIN pending'
    BY <1>2, <2>1, <1>0, <1>3, <2>3, ConstantTypes DEF Inv
  <2> QED
    BY <2>1, <2>7, <2>8 DEF Inv, DroppedWasDelivered, A
<1> QED
  BY <1>5, <1>6, <1>7, <1>8 DEF feed

LEMMA InvHolds == ASSUME NoWrap, OneCut PROVE Spec => []Inv
<1>1. Init => Inv
  <2> SUFFICES ASSUME Init PROVE Inv
    OBVIOUS
  <2>1. TypeOK
    BY BufferAssumption, EmptySeq DEF Init, TypeOK, Empty
  <2>2. wrapping_add(ISN, 0) = ISN
    BY ConstantTypes, WrapOnce
  <2>3. Buf \in Loops /\ Len(delivered) = 0 /\ DOMAIN pending = {}
    BY <2>1, TypeIsLoop, EmptySeq DEF Init, Empty
  <2>4. delivered = [i \in 1..0 |-> i - 1]
    BY DEF Init
  <2>5. Buf \in Ordered(seen)
    BY <2>2, <2>3, <2>4 DEF Init, Buf, Ordered
  <2>6. Buf \in Settled(seen)
    BY <2>3, <2>5, SegmentType DEF Init, Buf, Settled
  <2> QED
    BY <2>1, <2>3, <2>6 DEF Init, Inv, DroppedWasDelivered
<1>2. Inv /\ [Next]_vars => Inv'
  <2> SUFFICES ASSUME Inv, [Next]_vars PROVE Inv'
    OBVIOUS
  <2>1. TypeOK'
    BY TypeStep DEF Inv
  <2>2. ASSUME NEW s \in Segments, Capture(s) PROVE Inv'
    <3>1. seen' = seen \cup {s} /\ feed(s)
      BY <2>2 DEF Capture
    <3>2. /\ Buf' \in Settled(seen \cup {s})
          /\ next_expected' \notin DOMAIN pending'
          /\ DroppedWasDelivered'
      BY <3>1, FeedSettled
    <3> QED
      BY <2>1, <3>1, <3>2 DEF Inv
  <2>3. CASE (\E s \in Segments : Miss(s)) \/ UNCHANGED vars
    <3>1. /\ seen' = seen /\ Buf' = Buf /\ dropped' = dropped
          /\ UNCHANGED <<next_expected, pending, delivered>>
      BY <2>3 DEF Miss, buffer, vars, Buf
    <3> QED
      BY <2>1, <3>1 DEF Inv, DroppedWasDelivered
  <2> QED
    BY <2>2, <2>3 DEF Next
<1> QED
  BY <1>1, <1>2, PTL DEF Spec

\* What the invariant says of a state between two calls of feed.
LEMMA InvMeans ==
  ASSUME OneCut, NoWrap, Inv
  PROVE  /\ delivered = Promise!Prefix(Len(delivered))
         /\ Len(delivered) \in 0..N
         /\ Promise!IsFrontier(seen, Len(delivered))
         /\ GapOpenIsAHole
<1> DEFINE n == Len(delivered)
<1>1. /\ Buf \in Settled(seen) /\ Buf \in Ordered(seen) /\ delivered \in Seq(Offsets)
      /\ Buf.out = delivered /\ Buf.pend = pending
      /\ delivered = [i \in 1..n |-> i - 1]
      /\ next_expected = wrapping_add(ISN, n)
      /\ next_expected \notin DOMAIN pending
      /\ seen \subseteq Segments
  BY DEF Inv, Settled, Ordered, Loops, Buf, TypeOK
<1>2. n \in 0..N
  BY <1>1, PrefixFits
<1> HIDE DEF n
<1>3. next_expected = ISN + n
  BY <1>1, <1>2, ConstantTypes, WrapOnce DEF NoWrap
\* A captured segment that reaches past the prefix is in the map, beyond the hole.
<1>4. ASSUME NEW s \in seen, s.len > 0, s.off + s.len > n
      PROVE  SeqNo(s) \in DOMAIN pending /\ s.off > n
  <2>1. s.off \in Nat /\ s.len \in Nat /\ s \in Segments
    BY <1>1, SegmentType
  <2>2. s.off >= n /\ SeqNo(s) \in DOMAIN pending
    BY <1>1, <1>2, <1>4, <2>1 DEF Settled, n
  <2>3. s.off # n
    BY <1>1, <1>3, <2>1, <2>2, SeqNoPlain
  <2> QED
    BY <1>2, <2>1, <2>2, <2>3
<1>5. ASSUME NEW s \in seen PROVE ~ Promise!Covers(s, n)
  <2>1. s.off \in Nat /\ s.len \in Nat
    BY <1>1, SegmentType
  <2> QED
    BY <1>2, <1>4, <2>1 DEF Promise!Covers
<1>6. \A x \in 0..(n-1) : \E s \in seen : Promise!Covers(s, x)
  BY <1>1 DEF Settled, n
<1>7. GapOpenIsAHole
  <2>1. ASSUME NEW k \in DOMAIN pending
        PROVE  \E s \in seen : s.off + s.len > n /\ s.len > 0
    <3>1. PICK s \in seen : s.len > 0 /\ k = SeqNo(s)
      BY <1>1 DEF Ordered
    <3>2. s.off >= n /\ s.off \in Nat /\ s.len \in Nat
      BY <1>1, <3>1, SegmentType DEF Settled, n
    <3> QED
      BY <1>2, <3>1, <3>2
  <2> QED
    BY <1>4, <2>1 DEF GapOpenIsAHole, gap_open, n
<1> QED
  BY <1>1, <1>2, <1>5, <1>6, <1>7 DEF Promise!Prefix, Promise!IsFrontier, n

\* What feed counts as a duplicate and discards had been delivered before.
THEOREM DropsAreDuplicates == ASSUME NoWrap, OneCut PROVE Spec => []DroppedWasDelivered
<1>1. Inv => DroppedWasDelivered
  BY DEF Inv
<1> QED
  BY <1>1, InvHolds, PTL

\* gap_open() reports a hole in the capture, and only a hole in the capture.
THEOREM GapIsTold == ASSUME NoWrap, OneCut PROVE Spec => []GapOpenIsAHole
<1>1. Inv => GapOpenIsAHole
  BY InvMeans
<1> QED
  BY <1>1, InvHolds, PTL

\* When every segment has been captured, in whatever order, the stream is
\* complete and the map is empty.
THEOREM Complete == ASSUME NoWrap, OneCut PROVE Spec => []CompleteOnceAllSeen
<1>1. ASSUME Inv, seen = Segments PROVE Len(delivered) = N /\ ~ gap_open
  <2>1. /\ Len(delivered) \in 0..N
        /\ Promise!IsFrontier(Segments, Len(delivered))
        /\ GapOpenIsAHole
    BY <1>1, InvMeans
  <2>2. N \in Nat
    BY ConstantTypes
  <2>3. Len(delivered) = N
    <3>1. SUFFICES ASSUME Len(delivered) < N PROVE FALSE
      BY <2>1, <2>2
    <3>2. Len(delivered) \in 0..(N-1)
      BY <2>1, <2>2, <3>1
    <3> QED
      BY <2>1, <3>1, <3>2 DEF OneCut, Promise!IsFrontier
  <2>4. \A s \in Segments : ~ (s.off + s.len > N)
    BY SegmentType, ConstantTypes
  <2> QED
    BY <1>1, <2>1, <2>3, <2>4 DEF GapOpenIsAHole
<1>2. Inv => CompleteOnceAllSeen
  BY <1>1 DEF CompleteOnceAllSeen
<1> QED
  BY <1>2, InvHolds, PTL

\* The buffer implements TapStream: each captured segment moves the delivered
\* prefix to the frontier of what has been captured, each missed one nothing.
THEOREM Implements == ASSUME NoWrap, OneCut PROVE Spec => ImplementsTapStream
<1> DEFINE AtFrontier == /\ delivered = Promise!Prefix(Len(delivered))
                         /\ Len(delivered) \in 0..N
                         /\ Promise!IsFrontier(seen, Len(delivered))
<1>1. Init => Promise!Init
  BY DEF Init, Promise!Init, Promise!Prefix
<1>2. Inv => AtFrontier
  BY InvMeans
<1>3. AtFrontier' /\ [Next]_vars => [Promise!Next]_(Promise!tapVars)
  <2> SUFFICES ASSUME AtFrontier', [Next]_vars PROVE [Promise!Next]_(Promise!tapVars)
    OBVIOUS
  <2>1. ASSUME NEW s \in Segments, Capture(s) PROVE Promise!Observe(s)
    BY <2>1 DEF Capture, Promise!Observe
  <2>2. CASE (\E s \in Segments : Miss(s)) \/ UNCHANGED vars
    BY <2>2 DEF Miss, buffer, vars, Promise!tapVars
  <2> QED
    BY <2>1, <2>2 DEF Next, Promise!Next
<1> HIDE DEF AtFrontier
<1> QED
  BY <1>1, <1>2, <1>3, InvHolds, PTL DEF Spec, ImplementsTapStream, Promise!Spec

-----------------------------------------------------------------------------
(* The pipeline *)

\* The pipeline is the reorder buffer with the decoders behind it: every
\* property of the buffer is one of the pipeline.
LEMMA PipelineIsABuffer == PipelineSpec => Spec
<1>1. PipelineInit => Init
  BY DEF PipelineInit
<1>2. [PipelineNext]_pipelineVars => [Next]_vars
  <2> SUFFICES ASSUME [PipelineNext]_pipelineVars PROVE [Next]_vars
    OBVIOUS
  <2>1. ASSUME NEW s \in Segments, Feed(s) PROVE Next
    BY <2>1 DEF Feed, Next
  <2>2. ASSUME NEW s \in Segments, Pass(s) PROVE Next
    BY <2>2 DEF Pass, Next
  <2>3. CASE Finish \/ UNCHANGED pipelineVars
    BY <2>3 DEF Finish, pipelineVars
  <2> QED
    BY <2>1, <2>2, <2>3 DEF PipelineNext
<1> QED
  BY <1>1, <1>2, PTL DEF PipelineSpec, Spec

-----------------------------------------------------------------------------
(* What the pipeline has made of the capture so far *)

AtFrontier ==
  /\ delivered = Promise!Prefix(Len(delivered))
  /\ Len(delivered) \in 0..N
  /\ Promise!IsFrontier(seen, Len(delivered))

\* The decoder was given the delivered prefix of the response, and in the end
\* the reader all of it that was decoded.
TapInv ==
  /\ Carried(Response, Wire, Len(delivered))
  /\ chunked = After(NewDecoder, Wire, Len(delivered))
  /\ ~ finished => sse = NewSse /\ collected = <<>>
  /\ finished => Hears(sse, collected, chunked.decoded)

\* The delivered prefix never shrinks: what is captured stays captured.
LEMMA FrontierGrows ==
  ASSUME AtFrontier, AtFrontier', seen \subseteq seen'
  PROVE  Len(delivered') \in Len(delivered)..N
<1> PICK m, n : m = Len(delivered) /\ n = Len(delivered')
  OBVIOUS
<1>1. m \in 0..N /\ n \in 0..N /\ N \in Nat
  BY BufferAssumption DEF AtFrontier
<1>2. \A x \in 0..(m-1) : \E s \in seen : Promise!Covers(s, x)
  BY DEF AtFrontier, Promise!IsFrontier
<1>3. n < N => \A s \in seen' : ~ Promise!Covers(s, n)
  BY DEF AtFrontier, Promise!IsFrontier
<1>4. ~ n < m
  <2> SUFFICES ASSUME n < m PROVE FALSE
    OBVIOUS
  <2>1. n \in 0..(m-1) /\ n < N
    BY <1>1
  <2> QED
    BY <1>2, <1>3, <2>1
<1> QED
  BY <1>1, <1>4

LEMMA NextTokens ==
  ASSUME NEW w \in Seq(Mark), NEW m \in Nat, NEW n \in Nat, m <= n, n <= Len(w)
  PROVE  Tokens(SubSeq(w, m+1, n)) = [i \in 1..(n - m) |-> w[m + i].tok]
<1>1. Len(SubSeq(w, m+1, n)) = n - m /\ \A i \in 1..(n - m) : SubSeq(w, m+1, n)[i] = w[m + i]
  OBVIOUS
<1> QED
  BY <1>1 DEF Tokens

LEMMA TapStep ==
  ASSUME OneResponse, AtFrontier, AtFrontier', TapInv, [PipelineNext]_pipelineVars
  PROVE  TapInv'
<1>1. ASSUME NEW s \in Segments, Feed(s) PROVE TapInv'
  <2>1. /\ ~ finished /\ ~ finished' /\ sse' = sse /\ collected' = collected
        /\ seen \subseteq seen'
        /\ chunked' = IF Len(delivered') > Len(delivered)
                      THEN ChunkedFeed(chunked, Released) ELSE chunked
    BY <1>1 DEF Feed, Capture
  <2> PICK w, m, n, d : w = Wire /\ m = Len(delivered) /\ n = Len(delivered') /\ d = delivered'
    OBVIOUS
  <2>2. Carried(Response, w, m) /\ chunked = After(NewDecoder, w, m)
    BY Zenon DEF TapInv
  <2>3. Response \in Responses /\ w = encode_chunked_sse(Response) /\ m \in 0..Len(w)
    BY <2>2, Zenon DEF Carried
  <2>4. w \in Seq(Mark) /\ Len(w) = N
    BY <2>3, DecodesTheBody DEF OneResponse
  <2>5. m \in 0..N /\ n \in m..N /\ N \in Nat
    BY <2>1, FrontierGrows, BufferAssumption DEF AtFrontier
  <2>6. m \in Nat /\ n \in Nat /\ m <= n /\ n <= Len(w) /\ n \in 0..Len(w)
    BY <2>4, <2>5
  <2>7. Carried(Response, w, n)
    BY <2>3, <2>6, Zenon DEF Carried
  <2>8. Released = Tokens(SubSeq(w, m+1, n))
    <3>1. d = [i \in 1..n |-> i - 1]
      BY DEF AtFrontier, Promise!Prefix
    <3>2. \A i \in 1..(n - m) : d[m + i] + 1 = m + i
      BY <2>5, <3>1
    <3>3. Released = [i \in 1..(n - m) |-> w[d[m + i] + 1].tok]
      BY Zenon DEF Released
    <3>4. Tokens(SubSeq(w, m+1, n)) = [i \in 1..(n - m) |-> w[m + i].tok]
      BY <2>4, <2>6, NextTokens
    <3> QED
      BY <3>2, <3>3, <3>4
  <2>9. chunked' = After(NewDecoder, w, n)
    <3>1. CASE n > m
      <4>1. AlongTheWire(w, m, n)
        BY <2>2, <2>6, <2>7, NextBytes
      <4> QED
        BY <2>1, <2>2, <2>8, <3>1, <4>1, Zenon DEF AlongTheWire
    <3>2. CASE n = m
      <4>1. ~ n > m
        BY <2>6, <3>2
      <4> QED
        BY <2>1, <2>2, <3>2, <4>1, Zenon
    <3> QED
      BY <2>6, <3>1, <3>2
  <2>10. Wire' = w
    BY DEF Wire
  <2> QED
    BY <2>1, <2>7, <2>9, <2>10, Zenon DEF TapInv
<1>2. CASE Finish
  <2>1. /\ ~ finished /\ finished' /\ delivered' = delivered /\ chunked' = chunked
        /\ sse' = SseFeed(sse, chunked.decoded)
        /\ collected' = collected \o sse'.events
    BY <1>2 DEF Finish, vars
  <2>2. sse = NewSse /\ collected = <<>>
    BY <2>1, Zenon DEF TapInv
  <2> PICK w, m : w = Wire /\ m = Len(delivered)
    OBVIOUS
  <2>3. Carried(Response, w, m) /\ chunked = After(NewDecoder, w, m)
    BY Zenon DEF TapInv
  <2> PICK c \in Seq(Bytes) : c = chunked.decoded
    <3>1. Continues(chunked.decoded, chunked.decoded)
      <4>1. m <= m
        BY <2>3 DEF AtFrontier
      <4> QED
        BY <2>3, <4>1, BodyComes
    <3> QED
      BY <3>1, Zenon DEF Continues
  <2> PICK whole : whole = SseFeed(NewSse, c)
    OBVIOUS
  <2>4. <<>> \o whole.events = whole.events
    <3>1. whole \in Readers
      BY NewReader
    <3>2. whole.events \in Seq(Text)
      BY <3>1, ReaderIs
    <3> QED
      BY <3>2, NoEvents, Zenon
  <2>5. Hears(sse', collected', chunked'.decoded)
    BY <2>1, <2>2, <2>4, Zenon DEF Hears
  <2> QED
    BY <2>1, <2>3, <2>5, Zenon DEF TapInv, Wire
<1>3. CASE (\E s \in Segments : Pass(s)) \/ UNCHANGED pipelineVars
  <2>1. UNCHANGED <<delivered, layers, finished>>
    BY <1>3 DEF Pass, Miss, buffer, pipelineVars, vars
  <2>2. /\ delivered' = delivered /\ chunked' = chunked /\ sse' = sse /\ collected' = collected
        /\ finished' = finished
    BY <2>1 DEF layers
  <2> QED
    BY <2>2, Zenon DEF TapInv, Wire
<1> QED
  BY <1>1, <1>2, <1>3 DEF PipelineNext

LEMMA TapHolds ==
  ASSUME OneResponse PROVE PipelineSpec => [](AtFrontier /\ TapInv)
<1>1. Inv => AtFrontier
  BY InvMeans DEF OneResponse, AtFrontier
<1>2. Spec => []Inv
  BY InvHolds DEF OneResponse
<1>3. PipelineInit => TapInv
  <2> SUFFICES ASSUME PipelineInit PROVE TapInv
    OBVIOUS
  <2>1. chunked = NewDecoder /\ sse = NewSse /\ collected = <<>> /\ finished = FALSE
        /\ delivered = <<>>
    BY DEF PipelineInit, ReassemblyInit, Init
  <2>2. Carried(Response, Wire, 0) /\ After(NewDecoder, Wire, 0) = NewDecoder
    BY PipelineAssumption, LayersStart DEF Wire
  <2>3. Len(delivered) = 0 /\ ~ finished
    BY <2>1
  <2> QED
    BY <2>1, <2>2, <2>3, Zenon DEF TapInv
<1>4. AtFrontier /\ AtFrontier' /\ TapInv /\ [PipelineNext]_pipelineVars => TapInv'
  BY TapStep
<1> QED
  BY <1>1, <1>2, <1>3, <1>4, PipelineIsABuffer, PTL DEF PipelineSpec

\* In the end the caller has heard the events complete in the delivered prefix.
LEMMA TapMeans ==
  ASSUME OneResponse, AtFrontier, TapInv
  PROVE  /\ NeverPanics
         /\ finished => LET c == BodyIn(SubSeq(Wire, 1, Len(delivered)))
                        IN  /\ collected = EventsWithin(Response, c)
                            /\ sse.done <=> Closed(c) > Len(Response.events)
<1> PICK w, m, c : w = Wire /\ m = Len(delivered) /\ c = BodyIn(SubSeq(w, 1, m))
  OBVIOUS
<1>1. Carried(Response, w, m) /\ chunked = After(NewDecoder, w, m)
  BY Zenon DEF TapInv
<1>2. chunked.decoded = c /\ chunked.state # "Panicked"
  BY <1>1, DecodesTheBody, Zenon DEF Carried
<1>3. Exact(Response, c)
  BY <1>1, HearsTheEvents
<1>4. ASSUME finished
      PROVE  collected = EventsWithin(Response, c) /\ (sse.done <=> Closed(c) > Len(Response.events))
  BY <1>2, <1>3, <1>4, Zenon DEF TapInv, Hears, Exact
<1> QED
  BY <1>2, <1>4, Zenon DEF NeverPanics

\* All of a body is all of its events and the sentinel.
LEMMA WholeBody ==
  ASSUME NEW r \in Responses
  PROVE  EventsWithin(r, Body(r)) = NonEmpty(r.events) /\ Closed(Body(r)) > Len(r.events)
<1> PICK n \in Nat : n = Len(r.events)
  BY ResponseTyped
<1>1. FirstEvents(r, n + 1) = Body(r)
  BY FirstEventsGrow
<1>2. n + 1 \in 0..(n + 1) /\ ~ n + 1 <= n /\ n + 1 > n
  OBVIOUS
<1>3. Closed(Body(r)) = n + 1
  BY <1>1, <1>2, ReaderOfEvents
<1>4. EventsWithin(r, Body(r)) = HeardOf(r, n + 1)
  BY <1>2, <1>3, EventsWithinIs
<1>5. HeardOf(r, n + 1) = NonEmpty(SubSeq(r.events, 1, n))
  BY <1>2, Zenon DEF HeardOf
<1>6. SubSeq(r.events, 1, n) = r.events
  <2>1. r.events \in Seq(Seq(Bytes))
    BY ResponsesAssumption
  <2> QED
    BY <2>1, WholePrefix
<1> QED
  BY <1>2, <1>3, <1>4, <1>5, <1>6, Zenon

\* The pipeline's buffer keeps its types.
THEOREM PipelineTypes == PipelineSpec => []TypeOK
BY TypeCorrect, PipelineIsABuffer, PTL

\* What the pipeline's buffer reports as a hole is a hole in the capture.
THEOREM PipelineTellsGaps == ASSUME OneResponse PROVE PipelineSpec => []GapOpenIsAHole
<1>1. Spec => []GapOpenIsAHole
  BY GapIsTold DEF OneResponse
<1> QED
  BY <1>1, PipelineIsABuffer, PTL

\* The pipeline's buffer implements the abstract promise of its layer.
THEOREM PipelineImplements == ASSUME OneResponse PROVE PipelineSpec => ImplementsTapStream
<1>1. Spec => ImplementsTapStream
  BY Implements DEF OneResponse
<1> QED
  BY <1>1, PipelineIsABuffer, PTL

\* The decoder meets no malformed size line, whatever order, duplication and
\* loss the segments of the response went through.
THEOREM NoPanic == ASSUME OneResponse PROVE PipelineSpec => []NeverPanics
<1>1. AtFrontier /\ TapInv => NeverPanics
  BY TapMeans
<1> QED
  BY <1>1, TapHolds, PTL

\* With every segment captured all events come out, in order, with their end.
THEOREM Reconstructs ==
  ASSUME OneResponse PROVE PipelineSpec => []ReconstructionIsCorrect
<1>1. ASSUME AtFrontier, TapInv, finished, seen = Segments
      PROVE  sse.done /\ collected = NonEmpty(Response.events)
  <2>1. Len(delivered) \in 0..N /\ N \in Nat /\ Promise!IsFrontier(Segments, Len(delivered))
    BY <1>1, BufferAssumption DEF AtFrontier
  <2>2. \A x \in 0..(N-1) : \E s \in Segments : Promise!Covers(s, x)
    BY DEF OneResponse, OneCut
  <2>3. Len(delivered) = N
    <3> SUFFICES ASSUME Len(delivered) < N PROVE FALSE
      BY <2>1
    <3>1. Len(delivered) \in 0..(N-1)
      BY <2>1
    <3> QED
      BY <2>1, <2>2, <3>1 DEF Promise!IsFrontier
  <2>4. BodyIn(SubSeq(Wire, 1, Len(delivered))) = Body(Response)
    <3> PICK w : w = Wire
      OBVIOUS
    <3>1. Carried(Response, w, Len(delivered))
      BY <1>1, Zenon DEF TapInv
    <3>2. w \in Seq(Mark) /\ BodyIn(w) = Body(Response)
      BY <3>1, DecodesTheBody DEF Carried
    <3>3. Len(w) = N
      BY DEF OneResponse
    <3>4. SubSeq(w, 1, Len(w)) = w
      BY <3>2, WholePrefix
    <3> QED
      BY <2>3, <3>2, <3>3, <3>4
  <2>5. /\ collected = EventsWithin(Response, Body(Response))
        /\ sse.done <=> Closed(Body(Response)) > Len(Response.events)
    BY <1>1, <2>4, TapMeans, Zenon
  <2> QED
    BY <2>5, PipelineAssumption, WholeBody, Zenon
<1>2. AtFrontier /\ TapInv => ReconstructionIsCorrect
  BY <1>1, Zenon DEF ReconstructionIsCorrect
<1> QED
  BY <1>2, TapHolds, PTL

\* With holes, exactly the events that were complete before the first one.
THEOREM PartialIsExact ==
  ASSUME OneResponse PROVE PipelineSpec => []PartialCaptureIsExact
<1> DEFINE covered(x) == \E s \in seen : s.off <= x /\ x < s.off + s.len
           whole == {n \in 0..N : \A x \in 0..(n-1) : covered(x)}
           most == CHOOSE n \in whole : \A m \in whole : m <= n
<1>1. ASSUME AtFrontier PROVE most = Len(delivered)
  <2> PICK l : l = Len(delivered)
    OBVIOUS
  <2>1. l \in 0..N /\ N \in Nat
    BY <1>1, BufferAssumption DEF AtFrontier
  <2>2. \A x \in 0..(l-1) : covered(x)
    BY <1>1 DEF AtFrontier, Promise!IsFrontier, Promise!Covers
  <2>3. l < N => ~ covered(l)
    BY <1>1 DEF AtFrontier, Promise!IsFrontier, Promise!Covers
  <2>4. l \in whole
    BY <2>1, <2>2
  <2>5. \A n \in whole : n <= l
    <3> SUFFICES ASSUME NEW n \in whole, n > l PROVE FALSE
      BY <2>1
    <3>1. n \in 0..N /\ \A x \in 0..(n-1) : covered(x)
      OBVIOUS
    <3> HIDE DEF covered, whole
    <3>2. l \in 0..(n-1) /\ l < N
      BY <2>1, <3>1
    <3> QED
      BY <2>3, <3>1, <3>2
  <2>6. \A n \in whole : n \in Nat
    BY <2>1
  <2> HIDE DEF whole
  <2>7. most \in whole /\ \A m \in whole : m <= most
    BY <2>4, <2>5
  <2> HIDE DEF most
  <2> QED
    BY <2>1, <2>4, <2>5, <2>6, <2>7
<1>2. ASSUME AtFrontier, TapInv, finished
      PROVE  collected = EventsWithin(Response, BodyIn(SubSeq(Wire, 1, most)))
  <2>1. most = Len(delivered)
    BY <1>1, <1>2
  <2> HIDE DEF most
  <2>2. collected = EventsWithin(Response, BodyIn(SubSeq(Wire, 1, Len(delivered))))
    BY <1>2, TapMeans
  <2> QED
    BY <2>1, <2>2, Zenon
<1>3. AtFrontier /\ TapInv => PartialCaptureIsExact
  BY <1>2, Zenon DEF PartialCaptureIsExact
<1> QED
  BY <1>3, TapHolds, PTL
=============================================================================

-------------------------- MODULE ReassemblyProofs --------------------------
(***************************************************************************)
(* What the two layers of the reassembly make of a response: neither sees  *)
(* how its input is cut, and what a server encodes they decode, for every  *)
(* response of any length, cut into chunks and into calls anywhere.        *)
(***************************************************************************)
EXTENDS Reassembly, SetInduction, SequenceTheorems, TLAPS

-----------------------------------------------------------------------------
(* The decoder's turns *)

States == {"ReadingSize", "ReadingData", "ReadingDataTrailer", "Done", "Panicked"}
Decoders(S) == [state : States, remaining : Nat, pending : Seq(S), decoded : Seq(S)]

\* A decoder between two turns; S are the bytes.
Sound(d, S) == d \in Decoders(S) /\ (d.state = "ReadingData" => d.remaining > 0)

More(d, b) == Decoder(d.state, d.remaining, d.pending \o b, d.decoded)

LEMMA LeastIs ==
  ASSUME NEW T, T \subseteq Nat, T # {}
  PROVE  Min(T) \in T /\ \A x \in T : Min(T) <= x
<1>1. \E n \in T : \A x \in T : n <= x
  BY LeastNatural
<1> QED
  BY <1>1 DEF Min

\* The first place of a pair of bytes stays the first when more arrives.
LEMMA FirstPlace ==
  ASSUME NEW S, NEW s \in Seq(S), NEW b \in Seq(S), NEW pair, Len(pair) = 2
  PROVE  LET p == find_subslice(s, pair)
         IN  /\ p \in Nat
             /\ p # 0 => p + 1 <= Len(s) /\ find_subslice(s \o b, pair) = p
<1> DEFINE At(h) == {i \in 1..(Len(h) - 2 + 1) : SubSeq(h, i, i + 2 - 1) = pair}
<1>2. ASSUME NEW h PROVE find_subslice(h, pair) = IF At(h) = {} THEN 0 ELSE Min(At(h))
  BY DEF find_subslice
<1>3. At(s) \subseteq Nat /\ At(s \o b) \subseteq Nat
  OBVIOUS
<1>4. \A i \in 1..(Len(s) - 1) : i \in At(s \o b) <=> i \in At(s)
  <2> SUFFICES ASSUME NEW i \in 1..(Len(s) - 1) PROVE i \in At(s \o b) <=> i \in At(s)
    OBVIOUS
  <2>1. SubSeq(s \o b, i, i + 1) = SubSeq(s, i, i + 1)
    OBVIOUS
  <2>2. i + 2 - 1 = i + 1 /\ i \in 1..(Len(s) - 2 + 1) /\ i \in 1..(Len(s \o b) - 2 + 1)
    OBVIOUS
  <2> QED
    BY <2>1, <2>2
<1>5. \A i \in At(s) : i \in 1..(Len(s) - 1)
  OBVIOUS
<1> HIDE DEF At
<1>6. CASE At(s) = {}
  BY <1>2, <1>6
<1>7. CASE At(s) # {}
  <2> DEFINE p == Min(At(s))
             q == Min(At(s \o b))
  <2>1. p \in At(s) /\ \A x \in At(s) : p <= x
    BY <1>3, <1>7, LeastIs
  <2>2. At(s \o b) # {}
    BY <1>4, <1>5, <2>1
  <2>3. q \in At(s \o b) /\ \A x \in At(s \o b) : q <= x
    BY <1>3, <2>2, LeastIs
  <2> HIDE DEF p, q
  <2>4. p \in 1..(Len(s) - 1) /\ q \in Nat /\ q # 0
    <3>1. \A i \in At(s \o b) : i > 0
      BY DEF At
    <3> QED
      BY <1>3, <1>5, <2>1, <2>3, <3>1
  <2>5. q <= p
    BY <1>4, <1>5, <2>1, <2>3
  <2>6. q \in 1..(Len(s) - 1)
    BY <2>4, <2>5
  <2>7. p <= q
    BY <1>4, <2>1, <2>3, <2>6
  <2>8. p = q
    BY <2>4, <2>5, <2>7
  <2> QED
    BY <1>2, <1>7, <2>2, <2>4, <2>8 DEF p, q
<1> QED
  BY <1>6, <1>7

LEMMA FirstLineEnd ==
  ASSUME NEW S, NEW s \in Seq(S), NEW b \in Seq(S)
  PROVE  LET p == find_subslice(s, CRLF)
         IN  /\ p \in Nat
             /\ p # 0 => p + 1 <= Len(s) /\ find_subslice(s \o b, CRLF) = p
<1>1. Len(CRLF) = 2
  BY DEF CRLF
<1> QED
  BY <1>1, FirstPlace

LEMMA SizeIsANumber ==
  ASSUME NEW S, NEW line \in Seq(S)
  PROVE  ParseSize(line) \in Int
<1> DEFINE semi == find_subslice(line, <<"SEMI">>)
           digits == IF semi = 0 THEN line ELSE SubSeq(line, 1, semi - 1)
           value(t) == CHOOSE v \in 0..(Base-1) : DigitToken[v+1] = t
           known == {DigitToken[v] : v \in 1..Base}
           n == Len(digits)
           Unrolls(f, m) == f = [k \in 0..m |-> IF k = 0 THEN 0 ELSE f[k-1] * Base + value(digits[k])]
           number == CHOOSE f : Unrolls(f, n)
<1>1. Base \in 2..16
  BY RadixAssumption
<1>2. semi = 0 \/ semi \in 1..Len(line)
  <2> DEFINE at == {i \in 1..(Len(line) - 1 + 1) : SubSeq(line, i, i + 1 - 1) = <<"SEMI">>}
  <2>1. semi = IF at = {} THEN 0 ELSE Min(at)
    BY DEF find_subslice
  <2>2. at \subseteq Nat /\ at \subseteq 1..Len(line)
    <3>1. Len(line) \in Nat
      OBVIOUS
    <3>2. Len(line) - 1 + 1 = Len(line) /\ 1..Len(line) \subseteq Nat
      BY <3>1
    <3>3. at \subseteq 1..(Len(line) - 1 + 1)
      OBVIOUS
    <3> HIDE DEF at
    <3> QED
      BY <3>2, <3>3
  <2> HIDE DEF at, semi
  <2> QED
    BY <2>1, <2>2, LeastIs
<1>3. digits \in Seq(S)
  <2> HIDE DEF semi
  <2> QED
    BY <1>2
<1> HIDE DEF semi
<1>4. n \in Nat
  BY <1>3
<1>5. ParseSize(line) =
        IF digits = <<>> \/ ~ Range(digits) \subseteq known THEN -1 ELSE number[n]
  BY Zenon DEF ParseSize, semi
<1>6. CASE Range(digits) \subseteq known
  <2>1. ASSUME NEW k \in 1..n PROVE value(digits[k]) \in Nat
    <3>1. digits[k] \in known
      <4> HIDE DEF digits, known
      <4> QED
        BY <1>3, <1>6 DEF Range
    <3>2. PICK v \in 1..Base : digits[k] = DigitToken[v]
      BY <3>1
    <3>3. v - 1 \in 0..(Base-1) /\ (v - 1) + 1 = v
      BY <1>1
    <3>4. \E u \in 0..(Base-1) : DigitToken[u+1] = digits[k]
      BY <3>2, <3>3
    <3>5. value(digits[k]) \in 0..(Base-1)
      BY <3>4
    <3> HIDE DEF digits, value
    <3> QED
      BY <1>1, <3>5
  <2> HIDE DEF digits, value
  <2> DEFINE P == {m \in 0..n : \E f : Unrolls(f, m)}
  <2>2. 0 \in P
    <3> DEFINE g == [k \in 0..0 |-> 0]
    <3>1. Unrolls(g, 0)
      OBVIOUS
    <3> HIDE DEF g, Unrolls
    <3> QED
      BY <1>4, <3>1, 0 \in 0..n
  <2>3. ASSUME NEW m \in 0..(n-1), m \in P PROVE m+1 \in P
    <3>1. PICK f : Unrolls(f, m)
      BY <2>3
    <3> DEFINE g == [k \in 0..(m+1) |-> IF k <= m THEN f[k] ELSE f[m] * Base + value(digits[m+1])]
    <3>2. ASSUME NEW k \in 0..(m+1)
          PROVE  g[k] = IF k = 0 THEN 0 ELSE g[k-1] * Base + value(digits[k])
      <4>1. CASE k = m+1
        BY <4>1
      <4>2. CASE k <= m
        <5>1. f[k] = IF k = 0 THEN 0 ELSE f[k-1] * Base + value(digits[k])
          BY <3>1, <4>2
        <5> QED
          BY <4>2, <5>1
      <4> QED
        BY <4>1, <4>2
    <3>3. Unrolls(g, m+1)
      BY <3>2
    <3>4. m+1 \in 0..n
      BY <1>4, <2>3
    <3> HIDE DEF g, Unrolls
    <3> QED
      BY <3>3, <3>4
  <2>4. \E f : Unrolls(f, n)
    <3>1. n \in P
      <4> HIDE DEF P, n
      <4> QED
        BY <1>4, <2>2, <2>3, IntervalInduction, n \in 0..n
    <3> QED
      BY <3>1
  <2>5. Unrolls(number, n)
    <3> HIDE DEF Unrolls
    <3> QED
      BY <2>4
  <2> HIDE DEF number
  <2> DEFINE Q == {k \in 0..n : number[k] \in Nat}
  <2>6. 0 \in Q
    BY <1>4, <2>5
  <2>7. ASSUME NEW k \in 0..(n-1), k \in Q PROVE k+1 \in Q
    <3>1. k+1 \in 1..n /\ k+1 \in 0..n /\ (k+1) - 1 = k
      BY <1>4
    <3>2. number[k+1] = number[k] * Base + value(digits[k+1])
      BY <2>5, <3>1
    <3>3. number[k] \in Nat /\ value(digits[k+1]) \in Nat /\ Base \in Nat
      BY <1>1, <2>1, <2>7, <3>1
    <3>4. PICK x \in Nat, v \in Nat, b \in Nat : x = number[k] /\ v = value(digits[k+1]) /\ b = Base
      BY <3>3, Zenon
    <3>5. number[k+1] = x * b + v
      BY <3>2, <3>4, Zenon
    <3>6. number[k+1] \in Nat
      <4>1. x * b + v \in Nat
        OBVIOUS
      <4> QED
        BY <3>5, <4>1, Zenon
    <3> QED
      BY <3>1, <3>6
  <2>8. n \in Q
    <3> HIDE DEF Q, n
    <3> QED
      BY <1>4, <2>6, <2>7, IntervalInduction, n \in 0..n
  <2> QED
    BY <1>5, <2>8
<1>7. CASE ~ Range(digits) \subseteq known
  BY <1>5, <1>7
<1> QED
  BY <1>6, <1>7

LEMMA StateOfSize ==
  ASSUME NEW size \in Int
  PROVE  /\ Max({size, 0}) = IF size > 0 THEN size ELSE 0
         /\ (CASE size = 0 -> "Done" [] size > 0 -> "ReadingData" [] size < 0 -> "Panicked")
              = IF size = 0 THEN "Done" ELSE IF size > 0 THEN "ReadingData" ELSE "Panicked"
<1>1. Max({size, 0}) = IF size > 0 THEN size ELSE 0
  BY DEF Max
<1>2. CASE size = 0
  BY <1>1, <1>2
<1>3. CASE size > 0
  BY <1>1, <1>3
<1>4. CASE size < 0
  BY <1>1, <1>4
<1> QED
  BY <1>2, <1>3, <1>4

LEMMA Fields ==
  ASSUME NEW st, NEW rem, NEW pend, NEW dec
  PROVE  LET d == Decoder(st, rem, pend, dec)
         IN  d.state = st /\ d.remaining = rem /\ d.pending = pend /\ d.decoded = dec
BY DEF Decoder

LEMMA DecoderIs ==
  ASSUME NEW S, NEW d, Sound(d, S)
  PROVE  /\ d = Decoder(d.state, d.remaining, d.pending, d.decoded)
         /\ d.state \in States /\ d.remaining \in Nat
         /\ d.pending \in Seq(S) /\ d.decoded \in Seq(S)
         /\ d.state = "ReadingData" => d.remaining > 0
BY DEF Sound, Decoders, Decoder

LEMMA SoundIs ==
  ASSUME NEW S, NEW st \in States, NEW rem \in Nat, NEW pend \in Seq(S), NEW dec \in Seq(S),
         st = "ReadingData" => rem > 0
  PROVE  Sound(Decoder(st, rem, pend, dec), S)
BY DEF Sound, Decoders, Decoder

LEMMA TurnOf ==
  ASSUME NEW rem, NEW pend, NEW dec
  PROVE  /\ Turn(Decoder("ReadingSize", rem, pend, dec)) =
              ReadSize(Decoder("ReadingSize", rem, pend, dec))
         /\ Turn(Decoder("ReadingData", rem, pend, dec)) =
              ReadData(Decoder("ReadingData", rem, pend, dec))
         /\ Turn(Decoder("ReadingDataTrailer", rem, pend, dec)) =
              ReadTrailer(Decoder("ReadingDataTrailer", rem, pend, dec))
         /\ \A st \in {"Done", "Panicked"} :
              Turn(Decoder(st, rem, pend, dec)) = Decoder(st, rem, pend, dec)
BY Fields DEF Turn

\* A turn that looks for a size line.
LEMMA SizeTurn ==
  ASSUME NEW S, NEW rem, NEW pend \in Seq(S), NEW dec
  PROVE  LET p == find_subslice(pend, CRLF)
             size == ParseSize(SubSeq(pend, 1, p - 1))
         IN  Turn(Decoder("ReadingSize", rem, pend, dec)) =
               IF p = 0 THEN Decoder("ReadingSize", rem, pend, dec)
               ELSE Decoder(
                      IF size = 0 THEN "Done" ELSE IF size > 0 THEN "ReadingData" ELSE "Panicked",
                      IF size > 0 THEN size ELSE 0, Drop(pend, p + 1), dec)
<1> DEFINE p == find_subslice(pend, CRLF)
           size == ParseSize(SubSeq(pend, 1, p - 1))
           st == CASE size = 0 -> "Done" [] size > 0 -> "ReadingData" [] size < 0 -> "Panicked"
<1> PICK d : d = Decoder("ReadingSize", rem, pend, dec)
  OBVIOUS
<1>1. Turn(d) = ReadSize(d)
  BY TurnOf
<1>2. d.pending = pend /\ d.decoded = dec
  BY Fields
<1>3. ReadSize(d) =
        IF p = 0 THEN d
        ELSE Decoder(st, Max({size, 0}), Drop(pend, p + 1), dec)
  <2> DEFINE Pos(x) == find_subslice(x, CRLF)
             Size(x) == ParseSize(SubSeq(x, 1, Pos(x) - 1))
             Out(x, c) == Decoder(
               CASE Size(x) = 0 -> "Done" [] Size(x) > 0 -> "ReadingData" [] Size(x) < 0 -> "Panicked",
               Max({Size(x), 0}), Drop(x, Pos(x) + 1), c)
  <2>1. ReadSize(d) = IF Pos(d.pending) = 0 THEN d ELSE Out(d.pending, d.decoded)
    BY Zenon DEF ReadSize
  <2> HIDE DEF Pos, Out
  <2>2. ReadSize(d) = IF Pos(pend) = 0 THEN d ELSE Out(pend, dec)
    BY <1>2, <2>1, Zenon
  <2> QED
    BY <2>2, Zenon DEF Pos, Out
<1>4. p # 0 => size \in Int
  <2>1. p \in Nat /\ (p # 0 => p + 1 <= Len(pend))
    BY FirstLineEnd, EmptySeq
  <2> HIDE DEF p
  <2>2. p # 0 => SubSeq(pend, 1, p - 1) \in Seq(S)
    BY <2>1
  <2> QED
    BY <2>2, SizeIsANumber
<1> HIDE DEF size, p
<1>5. p # 0 => /\ Max({size, 0}) = IF size > 0 THEN size ELSE 0
               /\ st = IF size = 0 THEN "Done" ELSE IF size > 0 THEN "ReadingData" ELSE "Panicked"
  BY <1>4, StateOfSize
<1> HIDE DEF st
<1> QED
  BY <1>1, <1>3, <1>5, Zenon DEF p, size

\* The state behind a size line.
BehindSize(n) == IF n = 0 THEN "Done" ELSE "ReadingData"

\* A size line ends at p of the pending bytes, and says n.
SizeAt(pend, p, n) ==
  p = find_subslice(pend, CRLF) /\ p # 0 /\ n \in Nat /\ ParseSize(SubSeq(pend, 1, p - 1)) = n

LEMMA SizeTurnAt ==
  ASSUME NEW rem, NEW pend \in Seq(Bytes), NEW dec, NEW p, NEW n, SizeAt(pend, p, n)
  PROVE  Turn(Decoder("ReadingSize", rem, pend, dec)) =
           Decoder(BehindSize(n), n, Drop(pend, p + 1), dec)
<1> DEFINE q == find_subslice(pend, CRLF)
           size == ParseSize(SubSeq(pend, 1, q - 1))
           Out(x, z) == Decoder(
             IF z = 0 THEN "Done" ELSE IF z > 0 THEN "ReadingData" ELSE "Panicked",
             IF z > 0 THEN z ELSE 0, Drop(pend, x + 1), dec)
<1>1. Turn(Decoder("ReadingSize", rem, pend, dec)) =
        IF q = 0 THEN Decoder("ReadingSize", rem, pend, dec) ELSE Out(q, size)
  BY SizeTurn
<1>2. q = p /\ p # 0 /\ n \in Nat
  BY Zenon DEF SizeAt
<1>3. size = n
  BY <1>2, Zenon DEF SizeAt
<1>4. Out(p, n) = Decoder(BehindSize(n), n, Drop(pend, p + 1), dec)
  BY <1>2 DEF BehindSize
<1> HIDE DEF q, size, Out
<1> QED
  BY <1>1, <1>2, <1>3, <1>4, Zenon

\* A turn that hands on chunk data.
LEMMA DataTurn ==
  ASSUME NEW S, NEW rem \in Nat, NEW pend \in Seq(S), NEW dec
  PROVE  /\ Len(pend) < rem => Turn(Decoder("ReadingData", rem, pend, dec)) =
              Decoder("ReadingData", rem - Len(pend), <<>>, dec \o pend)
         /\ Len(pend) >= rem => Turn(Decoder("ReadingData", rem, pend, dec)) =
              Decoder("ReadingDataTrailer", 0, Drop(pend, rem), dec \o SubSeq(pend, 1, rem))
<1> DEFINE n == Min({Len(pend), rem})
<1> PICK d : d = Decoder("ReadingData", rem, pend, dec)
  OBVIOUS
<1>1. Turn(d) = ReadData(d)
  BY TurnOf
<1>2. n = IF Len(pend) < rem THEN Len(pend) ELSE rem
  <2>1. Len(pend) \in Nat
    OBVIOUS
  <2>2. n \in {Len(pend), rem} /\ \A x \in {Len(pend), rem} : n <= x
    BY <2>1, LeastIs
  <2> HIDE DEF n
  <2> QED
    BY <2>1, <2>2
<1>3. ReadData(d) =
        Decoder(IF n = rem THEN "ReadingDataTrailer" ELSE "ReadingData", rem - n,
                       Drop(pend, n), dec \o SubSeq(pend, 1, n))
  <2>1. d.pending = pend /\ d.decoded = dec /\ d.remaining = rem
    BY Fields
  <2> QED
    BY <2>1, Zenon DEF ReadData
<1> HIDE DEF n
<1>4. Drop(pend, Len(pend)) = <<>> /\ SubSeq(pend, 1, Len(pend)) = pend
  BY DEF Drop
<1>5. Len(pend) \in Nat /\ rem - rem = 0
  OBVIOUS
<1>6. CASE Len(pend) < rem
  <2>1. n = Len(pend) /\ n # rem /\ ~ Len(pend) >= rem
    BY <1>2, <1>5, <1>6
  <2> QED
    BY <1>1, <1>3, <1>4, <1>6, <2>1, Zenon
<1>7. CASE Len(pend) >= rem
  <2>1. n = rem /\ ~ Len(pend) < rem
    BY <1>2, <1>5, <1>7
  <2> QED
    BY <1>1, <1>3, <1>5, <1>7, <2>1, Zenon
<1> QED
  BY <1>5, <1>6, <1>7

\* A turn over the line end behind a chunk.
LEMMA TrailerTurn ==
  ASSUME NEW S, NEW rem, NEW pend \in Seq(S), NEW dec
  PROVE  Turn(Decoder("ReadingDataTrailer", rem, pend, dec)) =
           IF Len(pend) < 2 THEN Decoder("ReadingDataTrailer", rem, pend, dec)
           ELSE Decoder("ReadingSize", rem, Drop(pend, 2), dec)
<1> PICK d : d = Decoder("ReadingDataTrailer", rem, pend, dec)
  OBVIOUS
<1>1. Turn(d) = ReadTrailer(d)
  BY TurnOf
<1>2. d.pending = pend /\ d.decoded = dec /\ d.remaining = rem
  BY Fields
<1>3. ReadTrailer(d) =
        IF Len(pend) < 2 THEN d ELSE Decoder("ReadingSize", rem, Drop(pend, 2), dec)
  BY <1>2, Zenon DEF ReadTrailer
<1> QED
  BY <1>1, <1>3, Zenon

LEMMA CutWithin ==
  ASSUME NEW S, NEW s \in Seq(S), NEW b \in Seq(S), NEW n \in 0..Len(s)
  PROVE  /\ Drop(s, n) \in Seq(S) /\ Len(Drop(s, n)) = Len(s) - n
         /\ SubSeq(s, 1, n) \in Seq(S)
         /\ Drop(s \o b, n) = Drop(s, n) \o b
         /\ SubSeq(s \o b, 1, n) = SubSeq(s, 1, n)
<1>1. Drop(s, n) \in Seq(S) /\ Len(Drop(s, n)) = Len(s) - n
  BY DEF Drop
<1>2. SubSeq(s, 1, n) \in Seq(S)
  OBVIOUS
<1>3. Drop(s \o b, n) = Drop(s, n) \o b
  <2>1. Len(s \o b) = Len(s) + Len(b) /\ Len(s) \in Nat /\ Len(b) \in Nat
    OBVIOUS
  <2>2. SubSeq(s \o b, n + 1, Len(s) + Len(b)) = SubSeq(s, n + 1, Len(s)) \o b
    <3> DEFINE l == SubSeq(s \o b, n + 1, Len(s) + Len(b))
               k == SubSeq(s, n + 1, Len(s))
               r == k \o b
    <3>1. s \o b \in Seq(S) /\ k \in Seq(S) /\ Len(k) = Len(s) - n
      OBVIOUS
    <3>2. l \in Seq(S) /\ r \in Seq(S) /\ Len(l) = Len(s) + Len(b) - n /\ Len(r) = Len(k) + Len(b)
      BY <2>1, <3>1
    <3>3. Len(l) = Len(r)
      BY <2>1, <3>1, <3>2
    <3>4. ASSUME NEW i \in 1..Len(l) PROVE l[i] = r[i]
      <4>1. l[i] = (s \o b)[n + i]
        BY <2>1, <3>1, <3>2
      <4>2. CASE i <= Len(s) - n
        BY <2>1, <3>1, <3>2, <4>1, <4>2
      <4>3. CASE i > Len(s) - n
        <5>1. (s \o b)[n + i] = b[n + i - Len(s)]
          <6> PICK j : j = n + i
            OBVIOUS
          <6>1. j \in (Len(s) + 1)..(Len(s) + Len(b))
            <7> HIDE DEF l
            <7> QED
              BY <2>1, <3>2, <4>3
          <6>2. (s \o b)[j] = b[j - Len(s)]
            BY <2>1, <6>1
          <6> QED
            BY <6>2, SMTT(20)
        <5>2. r[i] = b[i - (Len(s) - n)]
          <6> HIDE DEF k
          <6> QED
            BY <2>1, <3>1, <3>2, <4>3, SMTT(20)
        <5> QED
          BY <2>1, <4>1, <5>1, <5>2, n + i - Len(s) = i - (Len(s) - n)
      <4> QED
        BY <2>1, <4>2, <4>3
    <3> HIDE DEF l, r
    <3>5. l = r
      BY <3>2, <3>3, <3>4, SeqEqual
    <3> QED
      BY <3>5 DEF l, r
  <2> QED
    BY <2>1, <2>2 DEF Drop
<1>4. SubSeq(s \o b, 1, n) = SubSeq(s, 1, n)
  OBVIOUS
<1> QED
  BY <1>1, <1>2, <1>3, <1>4

LEMMA CutPast ==
  ASSUME NEW S, NEW s \in Seq(S), NEW b \in Seq(S), NEW n \in Len(s)..(Len(s) + Len(b))
  PROVE  /\ Drop(s \o b, n) = Drop(b, n - Len(s))
         /\ SubSeq(s \o b, 1, n) = s \o SubSeq(b, 1, n - Len(s))
<1>1. Drop(s \o b, n) = Drop(b, n - Len(s))
  <2>1. Len(s \o b) = Len(s) + Len(b) /\ Len(s) \in Nat /\ Len(b) \in Nat
    OBVIOUS
  <2>2. SubSeq(s \o b, n + 1, Len(s) + Len(b)) = SubSeq(b, (n - Len(s)) + 1, Len(b))
    OBVIOUS
  <2> QED
    BY <2>1, <2>2 DEF Drop
<1>2. SubSeq(s \o b, 1, n) = s \o SubSeq(b, 1, n - Len(s))
  OBVIOUS
<1> QED
  BY <1>1, <1>2

LEMMA Associates ==
  ASSUME NEW S, NEW a \in Seq(S), NEW b \in Seq(S), NEW c \in Seq(S)
  PROVE  (a \o b) \o c = a \o (b \o c) /\ a \o b \in Seq(S)
OBVIOUS


LEMMA MoreIs ==
  ASSUME NEW st, NEW rem, NEW pend, NEW dec, NEW b
  PROVE  More(Decoder(st, rem, pend, dec), b) = Decoder(st, rem, pend \o b, dec)
BY Fields DEF More

LEMMA MoreSound ==
  ASSUME NEW S, NEW d, Sound(d, S), NEW b \in Seq(S)
  PROVE  Sound(More(d, b), S) /\ More(d, b).pending = d.pending \o b
<1>1. PICK st \in States, rem \in Nat, pend \in Seq(S), dec \in Seq(S) :
        d = Decoder(st, rem, pend, dec) /\ (st = "ReadingData" => rem > 0)
  BY DecoderIs
<1>p. pend \o b \in Seq(S)
  OBVIOUS
<1>2. PICK long \in Seq(S) : long = pend \o b
  BY <1>p
<1>3. More(d, b) = Decoder(st, rem, long, dec)
  BY <1>1, <1>2, MoreIs
<1>4. d.pending = pend
  BY <1>1, Fields
<1>5. More(d, b).pending = long
  BY <1>3, Fields
<1>6. Sound(More(d, b), S)
  BY <1>1, <1>3, SoundIs
<1> QED
  BY <1>2, <1>4, <1>5, <1>6

\* A turn keeps the decoder sound, and takes something off the buffer or is the break.
LEMMA TurnIs ==
  ASSUME NEW S, NEW d, Sound(d, S)
  PROVE  /\ Sound(Turn(d), S)
         /\ Turn(d) = d \/ Len(Turn(d).pending) < Len(d.pending)
<1> PICK st \in States, rem \in Nat, pend \in Seq(S), dec \in Seq(S) :
      d = Decoder(st, rem, pend, dec) /\ (st = "ReadingData" => rem > 0)
  BY DecoderIs
<1>1. Len(pend) \in Nat /\ d.pending = pend
  BY Fields
<1> SUFFICES Turn(d) = d
             \/ \E st1 \in States, rem1 \in Nat, pend1 \in Seq(S), dec1 \in Seq(S) :
                  /\ Turn(d) = Decoder(st1, rem1, pend1, dec1)
                  /\ st1 = "ReadingData" => rem1 > 0
                  /\ Len(pend1) < Len(pend)
  <2>1. CASE Turn(d) = d
    BY <2>1
  <2>2. ASSUME NEW st1 \in States, NEW rem1 \in Nat, NEW pend1 \in Seq(S), NEW dec1 \in Seq(S),
               Turn(d) = Decoder(st1, rem1, pend1, dec1),
               st1 = "ReadingData" => rem1 > 0, Len(pend1) < Len(pend)
        PROVE  Sound(Turn(d), S) /\ Len(Turn(d).pending) < Len(d.pending)
    <3>1. Turn(d).pending = pend1
      BY <2>2, Fields
    <3>2. Sound(Turn(d), S)
      BY <2>2, SoundIs
    <3> QED
      BY <1>1, <2>2, <3>1, <3>2
  <2> QED
    BY <2>1, <2>2
<1>2. CASE st = "ReadingSize"
  <2> DEFINE p == find_subslice(pend, CRLF)
             size == ParseSize(SubSeq(pend, 1, p - 1))
             st1 == IF size = 0 THEN "Done" ELSE IF size > 0 THEN "ReadingData" ELSE "Panicked"
             rem1 == IF size > 0 THEN size ELSE 0
             pend1 == Drop(pend, p + 1)
  <2>1. p \in Nat /\ (p # 0 => p + 1 <= Len(pend))
    BY FirstLineEnd, EmptySeq
  <2>2. Turn(d) = IF p = 0 THEN d ELSE Decoder(st1, rem1, pend1, dec)
    BY <1>2, SizeTurn
  <2> HIDE DEF p
  <2>3. ASSUME p # 0
        PROVE  pend1 \in Seq(S) /\ Len(pend1) < Len(pend) /\ size \in Int
    <3>1. SubSeq(pend, 1, p - 1) \in Seq(S)
      BY <2>1, <2>3
    <3>2. p + 1 \in 0..Len(pend)
      BY <1>1, <2>1, <2>3
    <3>3. pend1 \in Seq(S) /\ Len(pend1) = Len(pend) - (p + 1)
      BY <3>2, CutWithin, EmptySeq
    <3> HIDE DEF pend1
    <3>4. size \in Int
      BY <3>1, SizeIsANumber
    <3>5. Len(pend) - (p + 1) < Len(pend)
      BY <1>1, <2>1
    <3> QED
      BY <3>3, <3>4, <3>5
  <2> HIDE DEF pend1, size
  <2>4. ASSUME p # 0
        PROVE  st1 \in States /\ rem1 \in Nat /\ (st1 = "ReadingData" => rem1 > 0)
    BY <2>3, <2>4 DEF States
  <2> HIDE DEF st1, rem1
  <2> QED
    BY <2>2, <2>3, <2>4
<1>3. CASE st = "ReadingData"
  <2>1. CASE Len(pend) < rem
    <3>1. Turn(d) = Decoder("ReadingData", rem - Len(pend), <<>>, dec \o pend)
      BY <1>3, <2>1, DataTurn
    <3>2. rem - Len(pend) \in Nat /\ rem - Len(pend) > 0 /\ dec \o pend \in Seq(S) /\ <<>> \in Seq(S)
          /\ "ReadingData" \in States
      BY <1>1, <2>1, Associates DEF States
    <3>3. CASE pend = <<>>
      <4>1. rem - Len(pend) = rem /\ dec \o pend = dec
        BY <3>3
      <4> QED
        BY <1>3, <3>1, <3>3, <4>1
    <3>4. CASE pend # <<>>
      <4>1. Len(pend) > 0 /\ Len(<<>>) = 0
        BY <3>4
      <4> QED
        BY <3>1, <3>2, <4>1
    <3> QED
      BY <3>3, <3>4
  <2>2. CASE Len(pend) >= rem
    <3>1. Turn(d) = Decoder("ReadingDataTrailer", 0, Drop(pend, rem),
                                          dec \o SubSeq(pend, 1, rem))
      BY <1>3, <2>2, DataTurn
    <3>2. Drop(pend, rem) \in Seq(S) /\ Len(Drop(pend, rem)) = Len(pend) - rem
          /\ SubSeq(pend, 1, rem) \in Seq(S)
      BY <1>1, <2>2, CutWithin, EmptySeq, rem \in 0..Len(pend)
    <3>3. dec \o SubSeq(pend, 1, rem) \in Seq(S) /\ "ReadingDataTrailer" \in States
      BY <3>2, Associates DEF States
    <3>4. Len(Drop(pend, rem)) < Len(pend) /\ 0 \in Nat
      BY <1>1, <1>3, <3>2
    <3> QED
      BY <3>1, <3>2, <3>3, <3>4
  <2> QED
    BY <1>1, <2>1, <2>2
<1>4. CASE st = "ReadingDataTrailer"
  <2>1. Turn(d) = IF Len(pend) < 2 THEN d
                         ELSE Decoder("ReadingSize", rem, Drop(pend, 2), dec)
    BY <1>4, TrailerTurn
  <2>2. CASE Len(pend) >= 2
    <3>1. Drop(pend, 2) \in Seq(S) /\ Len(Drop(pend, 2)) = Len(pend) - 2
      BY <1>1, <2>2, CutWithin, EmptySeq, 2 \in 0..Len(pend)
    <3>2. Len(Drop(pend, 2)) < Len(pend) /\ "ReadingSize" \in States
          /\ ~ Len(pend) < 2
      BY <1>1, <2>2, <3>1 DEF States
    <3> QED
      BY <2>1, <3>1, <3>2
  <2> QED
    BY <1>1, <2>1, <2>2
<1>5. CASE st \in {"Done", "Panicked"}
  BY <1>5, TurnOf
<1> QED
  BY <1>2, <1>3, <1>4, <1>5 DEF States

\* A turn made before more bytes arrive is not lost on a decoder that has them already.
LEMMA TurnWithMore ==
  ASSUME NEW S, NEW d, Sound(d, S), NEW b \in Seq(S), Turn(d) # d
  PROVE  \/ Turn(More(d, b)) = More(Turn(d), b)
         \/ Turn(More(Turn(d), b)) = Turn(More(d, b))
<1>d. PICK st \in States, rem \in Nat, pend \in Seq(S), dec \in Seq(S) :
        d = Decoder(st, rem, pend, dec)
  BY DecoderIs
<1>0. /\ pend \o b \in Seq(S)
      /\ \A x, y, z \in Seq(S) : (x \o y) \o z = x \o (y \o z) /\ x \o y \in Seq(S)
  BY Associates
<1>l. PICK long \in Seq(S) : long = pend \o b
  BY <1>0
<1>1. Len(pend) \in Nat /\ Len(b) \in Nat /\ Len(long) = Len(pend) + Len(b)
  BY <1>l
<1>c. \A n \in 0..Len(pend) : /\ Drop(long, n) = Drop(pend, n) \o b
                               /\ SubSeq(long, 1, n) = SubSeq(pend, 1, n)
  <2>1. \A n \in 0..Len(pend) : /\ Drop(pend \o b, n) = Drop(pend, n) \o b
                                /\ SubSeq(pend \o b, 1, n) = SubSeq(pend, 1, n)
    BY CutWithin, ZenonT(40)
  <2> QED
    BY <1>l, <2>1
<1>2. More(d, b) = Decoder(st, rem, long, dec)
  BY <1>d, <1>l, MoreIs
<1>3. CASE st = "ReadingSize"
  <2> DEFINE p == find_subslice(pend, CRLF)
             size == ParseSize(SubSeq(pend, 1, p - 1))
             st1 == IF size = 0 THEN "Done" ELSE IF size > 0 THEN "ReadingData" ELSE "Panicked"
             rem1 == IF size > 0 THEN size ELSE 0
             p2 == find_subslice(long, CRLF)
             size2 == ParseSize(SubSeq(long, 1, p2 - 1))
             st2 == IF size2 = 0 THEN "Done" ELSE IF size2 > 0 THEN "ReadingData" ELSE "Panicked"
             rem2 == IF size2 > 0 THEN size2 ELSE 0
  <2>1. p \in Nat /\ (p # 0 => p + 1 <= Len(pend) /\ p2 = p)
    BY <1>l, FirstLineEnd
  <2>2. Turn(d) = IF p = 0 THEN d ELSE Decoder(st1, rem1, Drop(pend, p + 1), dec)
    BY <1>d, <1>3, SizeTurn
  <2>3. Turn(More(d, b)) = IF p2 = 0 THEN More(d, b)
          ELSE Decoder(st2, rem2, Drop(long, p2 + 1), dec)
    BY <1>2, <1>3, SizeTurn
  <2> HIDE DEF p, p2
  <2>4. p # 0 /\ p2 = p
    BY <2>1, <2>2
  <2>5. SubSeq(long, 1, p - 1) = SubSeq(pend, 1, p - 1)
    BY <1>1, <2>1, <2>4, <1>c, p - 1 \in 0..Len(pend)
  <2>6. Drop(long, p + 1) = Drop(pend, p + 1) \o b
    BY <1>1, <2>1, <2>4, <1>c, p + 1 \in 0..Len(pend)
  <2>7. st1 = st2 /\ rem1 = rem2
    BY <2>4, <2>5, Zenon
  <2> HIDE DEF st1, st2, rem1, rem2
  <2>8. More(Turn(d), b) = Decoder(st1, rem1, Drop(pend, p + 1) \o b, dec)
    BY <2>2, <2>4, MoreIs
  <2> QED
    BY <2>3, <2>4, <2>6, <2>7, <2>8
<1>4. CASE st = "ReadingData"
  <2>1. CASE Len(pend) >= rem
    <3>1. Turn(d) = Decoder("ReadingDataTrailer", 0, Drop(pend, rem),
                                          dec \o SubSeq(pend, 1, rem))
      BY <1>d, <1>4, <2>1, DataTurn
    <3>2. Turn(More(d, b)) = Decoder("ReadingDataTrailer", 0, Drop(long, rem),
                                                   dec \o SubSeq(long, 1, rem))
      <4>1. Len(long) >= rem
        BY <1>1, <2>1
      <4> QED
        BY <1>2, <1>4, <4>1, DataTurn
    <3>3. Drop(long, rem) = Drop(pend, rem) \o b
          /\ SubSeq(long, 1, rem) = SubSeq(pend, 1, rem)
      BY <1>1, <2>1, <1>c, rem \in 0..Len(pend)
    <3>4. More(Turn(d), b) =
            Decoder("ReadingDataTrailer", 0, Drop(pend, rem) \o b,
                           dec \o SubSeq(pend, 1, rem))
      BY <3>1, MoreIs
    <3> QED
      BY <3>2, <3>3, <3>4
  <2>2. CASE Len(pend) < rem
    <3>0. PICK left \in Nat, got \in Seq(S) : left = rem - Len(pend) /\ got = dec \o pend
      BY <1>1, <2>2, <1>0, rem - Len(pend) \in Nat
    <3>1. Turn(d) = Decoder("ReadingData", left, <<>>, got)
      BY <1>d, <1>4, <2>2, <3>0, DataTurn
    <3>2. More(Turn(d), b) = Decoder("ReadingData", left, b, got)
      <4>1. <<>> \o b = b
        OBVIOUS
      <4>2. More(Turn(d), b) = Decoder("ReadingData", left, <<>> \o b, got)
        <5>1. \A x : More(Decoder("ReadingData", left, x, got), b) =
                       Decoder("ReadingData", left, x \o b, got)
          BY MoreIs
        <5> QED
          BY <3>1, <5>1, Zenon
      <4> QED
        BY <4>1, <4>2
    <3>3. CASE Len(b) < left
      <4>1. Turn(More(Turn(d), b)) =
              Decoder("ReadingData", left - Len(b), <<>>, got \o b)
        BY <3>2, <3>3, DataTurn
      <4>2. Len(long) < rem /\ rem - Len(long) = left - Len(b)
        BY <1>1, <3>0, <3>3
      <4>3. Turn(More(d, b)) =
              Decoder("ReadingData", rem - Len(long), <<>>, dec \o long)
        BY <1>2, <1>4, <4>2, DataTurn
      <4>4. dec \o long = got \o b
        BY <1>0, <1>l, <3>0, SMTT(20)
      <4> QED
        BY <4>1, <4>2, <4>3, <4>4
    <3>4. CASE Len(b) >= left
      <4>1. Turn(More(Turn(d), b)) =
              Decoder("ReadingDataTrailer", 0, Drop(b, left), got \o SubSeq(b, 1, left))
        BY <3>2, <3>4, DataTurn
      <4>2. Len(long) >= rem /\ rem \in Len(pend)..(Len(pend) + Len(b))
        BY <1>1, <2>2, <3>0, <3>4
      <4>3. Turn(More(d, b)) =
              Decoder("ReadingDataTrailer", 0, Drop(long, rem), dec \o SubSeq(long, 1, rem))
        BY <1>2, <1>4, <4>2, DataTurn
      <4>4. Drop(long, rem) = Drop(b, left)
            /\ SubSeq(long, 1, rem) = pend \o SubSeq(b, 1, left)
        BY <1>l, <3>0, <4>2, CutPast
      <4>5. SubSeq(b, 1, left) \in Seq(S)
        BY <1>1, <3>4, CutWithin, EmptySeq, left \in 0..Len(b)
      <4>6. dec \o (pend \o SubSeq(b, 1, left)) = got \o SubSeq(b, 1, left)
        <5>1. PICK x \in Seq(S) : x = SubSeq(b, 1, left)
          BY <4>5
        <5>2. dec \o (pend \o x) = got \o x
          <6>1. (dec \o pend) \o x = dec \o (pend \o x)
            OBVIOUS
          <6> QED
            BY <3>0, <6>1
        <5> QED
          BY <5>1, <5>2
      <4> QED
        BY <4>1, <4>3, <4>4, <4>6
    <3> QED
      BY <1>1, <3>3, <3>4
  <2> QED
    BY <1>1, <2>1, <2>2
<1>5. CASE st = "ReadingDataTrailer"
  <2>1. Turn(d) = IF Len(pend) < 2 THEN d
                         ELSE Decoder("ReadingSize", rem, Drop(pend, 2), dec)
    BY <1>d, <1>5, TrailerTurn
  <2>2. Len(pend) >= 2 /\ ~ Len(pend) < 2 /\ ~ Len(long) < 2
    BY <1>1, <2>1
  <2>3. Turn(More(d, b)) = IF Len(long) < 2 THEN More(d, b)
                                  ELSE Decoder("ReadingSize", rem, Drop(long, 2), dec)
    BY <1>2, <1>5, TrailerTurn
  <2>4. Drop(long, 2) = Drop(pend, 2) \o b
    BY <1>1, <2>2, <1>c, 2 \in 0..Len(pend)
  <2>5. More(Turn(d), b) = Decoder("ReadingSize", rem, Drop(pend, 2) \o b, dec)
    BY <2>1, <2>2, MoreIs
  <2> QED
    BY <2>2, <2>3, <2>4, <2>5
<1>6. CASE st \in {"Done", "Panicked"}
  BY <1>d, <1>6, TurnOf
<1> QED
  BY <1>3, <1>4, <1>5, <1>6 DEF States

-----------------------------------------------------------------------------
(* The decoder's loop *)

SoundDecoders(S) == {d \in Decoders(S) : Sound(d, S)}
DecoderTurn(S) == [d \in SoundDecoders(S) |-> Turn(d)]
DecoderSupply(S) == [d \in SoundDecoders(S) |-> Len(d.pending)]

LEMMA DecoderLoop ==
  ASSUME NEW S PROVE Loop(DecoderTurn(S), DecoderSupply(S), SoundDecoders(S))
<1> PICK X : X = SoundDecoders(S)
  OBVIOUS
<1>1. ASSUME NEW d \in X
      PROVE  /\ Turn(d) \in X /\ Len(d.pending) \in Nat
             /\ Turn(d) = d \/ Len(Turn(d).pending) < Len(d.pending)
  <2>1. Sound(d, S)
    BY DEF SoundDecoders
  <2>2. Sound(Turn(d), S) /\ (Turn(d) = d \/ Len(Turn(d).pending) < Len(d.pending))
    BY <2>1, TurnIs
  <2>3. Turn(d) \in Decoders(S) /\ d.pending \in Seq(S)
    BY <2>1, <2>2, DecoderIs DEF Sound
  <2> QED
    BY <2>2, <2>3 DEF SoundDecoders
<1> PICK t, m : t = DecoderTurn(S) /\ m = DecoderSupply(S)
  OBVIOUS
<1>2. /\ t \in [X -> X] /\ m \in [X -> Nat]
      /\ \A d \in X : t[d] = Turn(d) /\ m[d] = Len(d.pending)
  BY <1>1 DEF DecoderTurn, DecoderSupply
<1> QED
  BY <1>1, <1>2 DEF Loop

LEMMA RunIsEnd ==
  ASSUME NEW S, NEW d, Sound(d, S)
  PROVE  RunTurns(d) = End(DecoderTurn(S), DecoderSupply(S), d)
<1> PICK X, t, m : X = SoundDecoders(S) /\ t = DecoderTurn(S) /\ m = DecoderSupply(S)
  OBVIOUS
<1>1. Loop(t, m, X) /\ d \in X
  BY DecoderLoop DEF SoundDecoders, Sound
<1>2. \A e \in X : t[e] = Turn(e) /\ m[e] = Len(e.pending)
  BY DEF DecoderTurn, DecoderSupply
<1> PICK n : n = Len(d.pending)
  OBVIOUS
<1>3. n = m[d] /\ n \in Nat
  BY <1>1, <1>2 DEF Loop
<1> DEFINE Turns(f) == f = [k \in 0..n |-> IF k = 0 THEN d ELSE Turn(f[k-1])]
           after == CHOOSE f : Turns(f)
<1>4. RunTurns(d) = after[n]
  BY Zenon DEF RunTurns
<1>5. \E f : Turns(f)
  <2> PICK g : g = Orbit(t, d, n)
    OBVIOUS
  <2>1. g[0] = d /\ \A k \in 1..n : g[k] = t[g[k-1]]
    BY <1>3, OrbitIs
  <2>2. \A k \in 0..n : g[k] \in X
    BY <1>1, <1>3, OrbitSinks
  <2> DEFINE f == [k \in 0..n |-> g[k]]
  <2>3. ASSUME NEW k \in 0..n PROVE f[k] = IF k = 0 THEN d ELSE Turn(f[k-1])
    <3>1. CASE k = 0
      BY <2>1, <3>1
    <3>2. CASE k # 0
      <4>1. k \in 1..n /\ k-1 \in 0..n
        BY <3>2
      <4>2. g[k] = t[g[k-1]] /\ g[k-1] \in X
        BY <2>1, <2>2, <4>1
      <4>3. g[k] = Turn(g[k-1])
        BY <1>2, <4>2
      <4> QED
        BY <3>2, <4>1, <4>3
    <3> QED
      BY <3>1, <3>2
  <2>4. Turns(f)
    BY <2>3
  <2> HIDE DEF f, Turns
  <2> QED
    BY <2>4
<1>6. Turns(after)
  <2> HIDE DEF Turns
  <2> QED
    BY <1>5
<1> HIDE DEF after
<1>7. after[0] = d /\ \A k \in 1..n : after[k-1] \in X => after[k] = t[after[k-1]]
  <2>1. ASSUME NEW k \in 1..n, after[k-1] \in X PROVE after[k] = t[after[k-1]]
    <3>1. k \in 0..n /\ k # 0
      BY <1>3
    <3>2. after[k] = Turn(after[k-1])
      BY <1>6, <3>1
    <3> QED
      BY <1>2, <2>1, <3>2
  <2>2. 0 \in 0..n
    BY <1>3
  <2>3. after[0] = d
    BY <1>6, <2>2
  <2> HIDE DEF Turns
  <2> QED
    BY <2>1, <2>3
<1>8. after[n] = End(t, m, d)
  BY <1>1, <1>3, <1>7, LoopComputes
<1> QED
  BY <1>4, <1>8

\* The loop ends where a turn takes nothing.
LEMMA RunsOut ==
  ASSUME NEW S, NEW d, Sound(d, S)
  PROVE  /\ Sound(RunTurns(d), S)
         /\ Turn(RunTurns(d)) = RunTurns(d)
         /\ RunTurns(d) = RunTurns(Turn(d))
<1> PICK X, t, m : X = SoundDecoders(S) /\ t = DecoderTurn(S) /\ m = DecoderSupply(S)
  OBVIOUS
<1>1. Loop(t, m, X) /\ \A e : e \in X <=> Sound(e, S)
  BY DecoderLoop DEF SoundDecoders, Sound
<1>2. \A e \in X : t[e] = Turn(e) /\ RunTurns(e) = End(t, m, e)
  BY <1>1, RunIsEnd DEF DecoderTurn
<1>3. /\ End(t, m, d) \in X /\ t[End(t, m, d)] = End(t, m, d)
      /\ End(t, m, d) = End(t, m, t[d])
  BY <1>1, LoopEnds
<1>4. t[d] \in X
  BY <1>1 DEF Loop
<1> QED
  BY <1>1, <1>2, <1>3, <1>4

LEMMA RunFixed ==
  ASSUME NEW S, NEW d, Sound(d, S), Turn(d) = d
  PROVE  RunTurns(d) = d
<1> PICK X, t, m : X = SoundDecoders(S) /\ t = DecoderTurn(S) /\ m = DecoderSupply(S)
  OBVIOUS
<1>1. Loop(t, m, X) /\ d \in X /\ t[d] = d
  BY DecoderLoop DEF SoundDecoders, Sound, DecoderTurn
<1> QED
  BY <1>1, LoopRests, RunIsEnd

\* The decoder does not see how its input is cut: bytes that arrive after the
\* loop ran leave it where it would be had they been there before.
LEMMA RunsMore ==
  ASSUME NEW S, NEW d, Sound(d, S), NEW b \in Seq(S)
  PROVE  RunTurns(More(RunTurns(d), b)) = RunTurns(More(d, b))
<1> PICK X, t, m : X = SoundDecoders(S) /\ t = DecoderTurn(S) /\ m = DecoderSupply(S)
  OBVIOUS
<1>1. Loop(t, m, X) /\ \A e : e \in X <=> Sound(e, S)
  BY DecoderLoop DEF SoundDecoders, Sound
<1>2. \A e \in X : t[e] = Turn(e) /\ RunTurns(e) = End(t, m, e)
  BY <1>1, RunIsEnd DEF DecoderTurn
<1> DEFINE a == [e \in X |-> More(e, b)]
<1>3. a \in [X -> X] /\ \A e \in X : a[e] = More(e, b)
  BY <1>1, MoreSound
<1> HIDE DEF a
<1>4. ASSUME NEW y \in X, t[y] # y PROVE t[a[y]] = a[t[y]] \/ t[a[t[y]]] = t[a[y]]
  <2>1. Turn(y) # y /\ Sound(y, S) /\ t[y] = Turn(y) /\ Turn(y) \in X
    BY <1>1, <1>2, <1>4 DEF Loop
  <2>2. Turn(More(y, b)) = More(Turn(y), b) \/ Turn(More(Turn(y), b)) = Turn(More(y, b))
    BY <2>1, TurnWithMore
  <2>3. /\ a[y] = More(y, b) /\ a[t[y]] = More(Turn(y), b) /\ a[y] \in X /\ a[t[y]] \in X
    BY <1>3, <2>1
  <2>4. t[a[y]] = Turn(More(y, b)) /\ t[a[t[y]]] = Turn(More(Turn(y), b))
    BY <1>2, <2>3
  <2> QED
    BY <2>2, <2>3, <2>4
<1>5. End(t, m, a[End(t, m, d)]) = End(t, m, a[d])
  BY <1>1, <1>3, <1>4, LoopMore
<1>6. End(t, m, d) \in X /\ End(t, m, d) = RunTurns(d)
  BY <1>1, <1>2, LoopEnds
<1>7. a[RunTurns(d)] = More(RunTurns(d), b) /\ a[d] = More(d, b)
  BY <1>1, <1>3, <1>6
<1>8. More(RunTurns(d), b) \in X /\ More(d, b) \in X
  BY <1>1, <1>3, <1>6, <1>7
<1> QED
  BY <1>2, <1>5, <1>6, <1>7, <1>8

\* Two calls of ChunkedDecoder.feed leave it where one call with both inputs would.
THEOREM FeedsJoin ==
  ASSUME NEW S, NEW d, Sound(d, S), NEW a \in Seq(S), NEW b \in Seq(S)
  PROVE  /\ Sound(ChunkedFeed(d, a), S)
         /\ ChunkedFeed(ChunkedFeed(d, a), b) = ChunkedFeed(d, a \o b)
<1>1. \A x, c : ChunkedFeed(x, c) = RunTurns(More(x, c))
  BY DEF ChunkedFeed, More
<1>2. Sound(More(d, a), S)
  BY MoreSound
<1>3. RunTurns(More(RunTurns(More(d, a)), b)) = RunTurns(More(More(d, a), b))
  BY <1>2, RunsMore
<1>4. More(More(d, a), b) = More(d, a \o b)
  <2>1. PICK st \in States, rem \in Nat, pend \in Seq(S), dec \in Seq(S) :
          d = Decoder(st, rem, pend, dec)
    BY DecoderIs
  <2>2. (pend \o a) \o b = pend \o (a \o b)
    OBVIOUS
  <2>3. \A p, c : More(Decoder(st, rem, p, dec), c) = Decoder(st, rem, p \o c, dec)
    BY MoreIs
  <2>4. /\ More(d, a) = Decoder(st, rem, pend \o a, dec)
        /\ More(d, a \o b) = Decoder(st, rem, pend \o (a \o b), dec)
    BY <2>1, <2>3, Zenon
  <2>5. More(More(d, a), b) = Decoder(st, rem, (pend \o a) \o b, dec)
    BY <2>3, <2>4, Zenon
  <2> QED
    BY <2>2, <2>4, <2>5, Zenon
<1>5. Sound(RunTurns(More(d, a)), S)
  BY <1>2, RunsOut
<1> QED
  BY <1>1, <1>3, <1>4, <1>5, Zenon

-----------------------------------------------------------------------------
(* Sequences of sequences, flattened *)

LEMMA PrefixGrows ==
  ASSUME NEW S, NEW s \in Seq(S), NEW k \in 0..(Len(s) - 1)
  PROVE  /\ SubSeq(s, 1, k) \in Seq(S) /\ Len(SubSeq(s, 1, k)) = k
         /\ s[k+1] \in S
         /\ SubSeq(s, 1, k+1) = Append(SubSeq(s, 1, k), s[k+1])
OBVIOUS

LEMMA WholePrefix ==
  ASSUME NEW S, NEW s \in Seq(S)
  PROVE  SubSeq(s, 1, 0) = <<>> /\ SubSeq(s, 1, Len(s)) = s
OBVIOUS

\* T is a set of sequences over S.
Parts(T, S) == T \subseteq Seq(S)

\* f holds the parts of p up to each, joined.
JoinedUpTo(f, p, n) == f = [i \in 1..n |-> IF i = 1 THEN p[i] ELSE f[i-1] \o p[i]]

LEMMA JoinsExist ==
  ASSUME NEW p, NEW n \in Nat
  PROVE  \E f : JoinedUpTo(f, p, n)
<1> DEFINE P == {m \in 0..n : \E f : JoinedUpTo(f, p, m)}
<1>1. 0 \in P
  <2> DEFINE f == [i \in 1..0 |-> p[i]]
  <2>1. f = [i \in 1..0 |-> IF i = 1 THEN p[i] ELSE f[i-1] \o p[i]]
    OBVIOUS
  <2> HIDE DEF f
  <2>2. JoinedUpTo(f, p, 0)
    BY <2>1 DEF JoinedUpTo
  <2> QED
    BY <2>2, 0 \in 0..n
<1>2. ASSUME NEW m \in 0..(n-1), m \in P PROVE m+1 \in P
  <2>1. PICK f : JoinedUpTo(f, p, m)
    BY <1>2
  <2> DEFINE last == IF m = 0 THEN p[1] ELSE f[m] \o p[m+1]
             g == [i \in 1..(m+1) |-> IF i <= m THEN f[i] ELSE last]
  <2>2. ASSUME NEW i \in 1..(m+1) PROVE g[i] = IF i = 1 THEN p[i] ELSE g[i-1] \o p[i]
    <3>1. CASE i = m+1
      <4>1. g[i] = last
        BY <3>1
      <4>2. i # 1 => g[i-1] = f[m]
        BY <3>1
      <4> QED
        BY <3>1, <4>1, <4>2
    <3>2. CASE i <= m
      <4>1. i \in 1..m
        BY <3>2
      <4>2. f[i] = IF i = 1 THEN p[i] ELSE f[i-1] \o p[i]
        <5> HIDE DEF g
        <5> QED
          BY <2>1, <4>1, Zenon DEF JoinedUpTo
      <4>3. g[i] = f[i] /\ (i # 1 => g[i-1] = f[i-1])
        BY <4>1
      <4> QED
        BY <4>2, <4>3
    <3> QED
      BY <3>1, <3>2
  <2>3. JoinedUpTo(g, p, m+1)
    BY <2>2 DEF JoinedUpTo
  <2> HIDE DEF g
  <2> QED
    BY <2>3, m+1 \in 0..n
<1> HIDE DEF P
<1>3. n \in P
  BY <1>1, <1>2, IntervalInduction, n \in 0..n
<1> QED
  BY <1>3 DEF P

LEMMA FlatIs ==
  ASSUME NEW S, NEW T, Parts(T, S), NEW p \in Seq(T), Len(p) > 0
  PROVE  \E f : /\ f[1] = p[1] /\ \A i \in 2..Len(p) : f[i] = f[i-1] \o p[i]
                /\ \A i \in 1..Len(p) : f[i] \in Seq(S)
                /\ FlattenSeq(p) = f[Len(p)]
<1> DEFINE f == CHOOSE g : JoinedUpTo(g, p, Len(p))
<1>0. Len(p) \in Nat /\ Len(p) # 0
  OBVIOUS
<1>a. FlattenSeq(p) = IF Len(p) = 0 THEN p ELSE f[Len(p)]
  BY Zenon DEF FlattenSeq, JoinedUpTo
<1>b. JoinedUpTo(f, p, Len(p))
  BY <1>0, JoinsExist
<1> HIDE DEF f
<1> PICK n \in Nat \ {0} : n = Len(p)
  BY <1>0
<1>c. n - 1 \in Nat
  OBVIOUS
<1>1. JoinedUpTo(f, p, n)
  BY <1>b
<1>2. FlattenSeq(p) = f[n]
  BY <1>0, <1>a, Zenon
<1>3. \A i \in 1..n : f[i] = IF i = 1 THEN p[i] ELSE f[i-1] \o p[i]
  BY <1>1, Zenon DEF JoinedUpTo
<1>4. f[1] = p[1] /\ \A i \in 2..n : f[i] = f[i-1] \o p[i]
  <2>1. 1 \in 1..n /\ \A i \in 2..n : i \in 1..n /\ i # 1
    OBVIOUS
  <2> QED
    BY <1>3, <2>1
<1> DEFINE P == {k \in 0..(n-1) : f[k+1] \in Seq(S)}
<1>5. \A i \in 1..n : p[i] \in Seq(S)
  <2>1. \A i \in 1..n : p[i] \in T
    OBVIOUS
  <2> QED
    BY <2>1 DEF Parts
<1>6. 0 \in P
  BY <1>4, <1>5
<1>7. ASSUME NEW k \in 0..((n-1)-1), k \in P PROVE k+1 \in P
  <2>1. PICK j : j = (k+1)+1
    OBVIOUS
  <2>2. j \in 2..n /\ j \in 1..n /\ j - 1 = k+1 /\ k+1 \in 0..(n-1)
    BY <2>1
  <2>3. f[j] = f[k+1] \o p[j] /\ p[j] \in Seq(S) /\ f[k+1] \in Seq(S)
    BY <1>4, <1>5, <1>7, <2>2
  <2>4. f[j] \in Seq(S)
    BY <2>3
  <2> QED
    BY <2>1, <2>2, <2>4
<1>8. \A k \in 0..(n-1) : k \in P
  <2> HIDE DEF P
  <2> QED
    BY <1>c, <1>6, <1>7, IntervalInduction
<1>9. \A i \in 1..n : f[i] \in Seq(S)
  <2>1. \A i \in 1..n : i-1 \in 0..(n-1) /\ (i-1)+1 = i
    OBVIOUS
  <2> QED
    BY <1>8, <2>1
<1> QED
  BY <1>2, <1>4, <1>9

LEMMA FlatEmpty == FlattenSeq(<<>>) = <<>>
BY DEF FlattenSeq

LEMMA FlatTyped ==
  ASSUME NEW S, NEW T, Parts(T, S), NEW p \in Seq(T)
  PROVE  FlattenSeq(p) \in Seq(S)
<1>1. CASE Len(p) = 0
  <2>1. p = <<>>
    BY <1>1, EmptySeq
  <2>2. <<>> \in Seq(S)
    OBVIOUS
  <2> QED
    BY <2>1, <2>2, FlatEmpty, Zenon
<1>2. CASE Len(p) # 0
  <2>1. PICK n \in Nat \ {0} : n = Len(p)
    BY <1>2
  <2>2. Len(p) > 0 /\ n \in 1..n
    BY <2>1
  <2>3. PICK f : (\A i \in 1..Len(p) : f[i] \in Seq(S)) /\ FlattenSeq(p) = f[Len(p)]
    BY <2>2, FlatIs
  <2> QED
    BY <2>1, <2>2, <2>3
<1> QED
  BY <1>1, <1>2

LEMMA FlatAppend ==
  ASSUME NEW S, NEW T, Parts(T, S), NEW p \in Seq(T), NEW e \in T
  PROVE  FlattenSeq(Append(p, e)) = FlattenSeq(p) \o e
<1>e. e \in Seq(S)
  BY DEF Parts
<1> PICK n \in Nat : n = Len(p)
  OBVIOUS
<1>q. Append(p, e) \in Seq(T)
  OBVIOUS
<1> PICK q \in Seq(T) : q = Append(p, e)
  BY <1>q
<1>1. Len(q) = n+1 /\ q[n+1] = e /\ \A i \in 1..n : q[i] = p[i]
  OBVIOUS
<1>2. PICK g : /\ g[1] = q[1] /\ \A i \in 2..(n+1) : g[i] = g[i-1] \o q[i]
               /\ FlattenSeq(q) = g[n+1]
  <2>1. Len(q) > 0
    BY <1>1
  <2>2. PICK g : /\ g[1] = q[1] /\ \A i \in 2..Len(q) : g[i] = g[i-1] \o q[i]
                 /\ FlattenSeq(q) = g[Len(q)]
    BY <2>1, FlatIs
  <2> QED
    BY <1>1, <2>2
<1>3. CASE n = 0
  <2>1. p = <<>>
    BY <1>3, EmptySeq
  <2>2. g[1] = e /\ n+1 = 1 /\ <<>> \o e = e
    BY <1>e, <1>1, <1>2, <1>3
  <2> QED
    BY <1>2, <2>1, <2>2, FlatEmpty
<1>4. CASE n # 0
  <2>1. PICK f : /\ f[1] = p[1] /\ \A i \in 2..n : f[i] = f[i-1] \o p[i]
                 /\ FlattenSeq(p) = f[n]
    <3>1. Len(p) > 0
      BY <1>4
    <3> QED
      BY <3>1, FlatIs
  <2> DEFINE P == {k \in 0..(n-1) : f[k+1] = g[k+1]}
  <2>2. 0 \in P
    BY <1>1, <1>2, <1>4, <2>1
  <2>3. ASSUME NEW k \in 0..((n-1)-1), k \in P PROVE k+1 \in P
    <3>1. /\ (k+1)+1 \in 2..n /\ (k+1)+1 \in 2..(n+1) /\ (k+1)+1 \in 1..n
          /\ ((k+1)+1) - 1 = k+1 /\ k+1 \in 0..(n-1)
      OBVIOUS
    <3>2. f[(k+1)+1] = f[k+1] \o p[(k+1)+1] /\ g[(k+1)+1] = g[k+1] \o q[(k+1)+1]
      BY <1>2, <2>1, <3>1
    <3> QED
      BY <1>1, <2>3, <3>1, <3>2
  <2>4. \A k \in 0..(n-1) : k \in P
    <3>1. n-1 \in Nat
      BY <1>4
    <3> HIDE DEF P
    <3> QED
      BY <2>2, <2>3, <3>1, IntervalInduction
  <2>5. f[n] = g[n]
    <3>1. n-1 \in 0..(n-1) /\ (n-1)+1 = n
      BY <1>4
    <3> QED
      BY <2>4, <3>1
  <2>6. g[n+1] = g[n] \o e
    <3>1. n+1 \in 2..(n+1) /\ (n+1) - 1 = n
      BY <1>4
    <3> QED
      BY <1>1, <1>2, <3>1
  <2> QED
    BY <1>2, <2>1, <2>5, <2>6
<1> QED
  BY <1>3, <1>4

LEMMA FlatAssociates ==
  ASSUME NEW S, NEW T, Parts(T, S), NEW p \in Seq(T), NEW u \in Seq(T), NEW e \in T
  PROVE  (FlattenSeq(p) \o FlattenSeq(u)) \o e = FlattenSeq(p) \o (FlattenSeq(u) \o e)
<1>1. PICK x \in Seq(S), y \in Seq(S) : x = FlattenSeq(p) /\ y = FlattenSeq(u)
  BY FlatTyped
<1>2. PICK z \in Seq(S) : z = e
  BY DEF Parts
<1>3. (x \o y) \o z = x \o (y \o z)
  BY SMTT(30)
<1> QED
  BY <1>1, <1>2, <1>3, Zenon

LEMMA FlatJoin ==
  ASSUME NEW S, NEW T, Parts(T, S), NEW p \in Seq(T), NEW q \in Seq(T)
  PROVE  FlattenSeq(p \o q) = FlattenSeq(p) \o FlattenSeq(q)
<1> DEFINE upTo(k) == SubSeq(q, 1, k)
           P == {k \in 0..Len(q) : FlattenSeq(p \o upTo(k)) = FlattenSeq(p) \o FlattenSeq(upTo(k))}
<1>1. 0 \in P
  <2>1. upTo(0) = <<>> /\ p \o <<>> = p
    OBVIOUS
  <2>2. FlattenSeq(p) \o <<>> = FlattenSeq(p) /\ FlattenSeq(<<>>) = <<>>
    BY FlatTyped, FlatEmpty
  <2>3. 0 \in 0..Len(q)
    OBVIOUS
  <2> HIDE DEF upTo
  <2> QED
    BY <2>1, <2>2, <2>3
<1>2. ASSUME NEW k \in 0..(Len(q) - 1), k \in P PROVE k+1 \in P
  <2>1. PICK u \in Seq(T), e \in T : u = upTo(k) /\ e = q[k+1]
    BY PrefixGrows
  <2>2. u \in Seq(T) /\ upTo(k+1) = Append(u, e)
    BY <2>1, PrefixGrows
  <2>3. p \o Append(u, e) = Append(p \o u, e) /\ p \o u \in Seq(T)
    BY <2>2
  <2>4. /\ FlattenSeq(Append(p \o u, e)) = FlattenSeq(p \o u) \o e
        /\ FlattenSeq(Append(u, e)) = FlattenSeq(u) \o e
    <3>1. PICK v \in Seq(T) : v = p \o u
      BY <2>3
    <3>2. FlattenSeq(Append(v, e)) = FlattenSeq(v) \o e
      BY FlatAppend
    <3>3. FlattenSeq(Append(u, e)) = FlattenSeq(u) \o e
      BY FlatAppend
    <3> QED
      BY <3>1, <3>2, <3>3, Zenon
  <2>5. (FlattenSeq(p) \o FlattenSeq(u)) \o e = FlattenSeq(p) \o (FlattenSeq(u) \o e)
    BY FlatAssociates, SMTT(30)
  <2>6. FlattenSeq(p \o u) = FlattenSeq(p) \o FlattenSeq(u)
    BY <1>2, <2>1
  <2> HIDE DEF upTo
  <2>7. FlattenSeq(p \o upTo(k+1)) = FlattenSeq(p) \o FlattenSeq(upTo(k+1))
    BY <2>2, <2>3, <2>4, <2>5, <2>6
  <2>8. k+1 \in 0..Len(q)
    OBVIOUS
  <2> QED
    BY <2>7, <2>8
<1>3. Len(q) \in P
  <2>1. Len(q) \in Nat /\ Len(q) \in 0..Len(q)
    OBVIOUS
  <2> HIDE DEF P
  <2> QED
    BY <1>1, <1>2, <2>1, IntervalInduction
<1>4. upTo(Len(q)) = q
  BY WholePrefix
<1> HIDE DEF upTo
<1> QED
  BY <1>3, <1>4

-----------------------------------------------------------------------------
(* The bytes of a response, marked body or framing *)

Text == Seq(Bytes)
Mark == [tok : Bytes, body : BOOLEAN]

\* What a byte adds to the body.
BodyOf(x) == IF x.body THEN <<x.tok>> ELSE <<>>
BodyParts(w) == [i \in 1..Len(w) |-> BodyOf(w[i])]

LEMMA BodyPartsOf ==
  ASSUME NEW w \in Seq(Mark), NEW x \in Mark
  PROVE  /\ BodyParts(w) \in Seq(Text) /\ BodyOf(x) \in Text
         /\ BodyParts(Append(w, x)) = Append(BodyParts(w), BodyOf(x))
<1>1. ASSUME NEW y \in Mark PROVE BodyOf(y) \in Text
  <2>1. y.tok \in Bytes
    BY DEF Mark
  <2>2. <<y.tok>> \in Text /\ <<>> \in Text
    BY <2>1 DEF Text
  <2> QED
    BY <2>2, Zenon DEF BodyOf
<1> PICK T : T = Text
  OBVIOUS
<1>2. \A y \in Mark : BodyOf(y) \in T
  BY <1>1
<1> PICK S : S = Mark
  OBVIOUS
<1>3. BodyParts(w) \in Seq(T)
  <2>1. \A i \in 1..Len(w) : BodyOf(w[i]) \in T
    BY <1>2
  <2> QED
    BY <2>1 DEF BodyParts
<1>4. BodyParts(Append(w, x)) = Append(BodyParts(w), BodyOf(x))
  <2> DEFINE n == Len(w)
             l == BodyParts(Append(w, x))
             r == Append(BodyParts(w), BodyOf(x))
  <2>1. Len(Append(w, x)) = n + 1 /\ n \in Nat /\ Append(w, x) \in Seq(S)
    OBVIOUS
  <2>2. \A i \in 1..(n+1) : Append(w, x)[i] = IF i <= n THEN w[i] ELSE x
    OBVIOUS
  <2>3. Append(w, x) \in Seq(Mark)
    OBVIOUS
  <2>4. /\ l \in Seq(T) /\ Len(l) = n + 1
        /\ \A i \in 1..(n+1) : l[i] = BodyOf(Append(w, x)[i])
    <3>1. \A i \in 1..(n+1) : BodyOf(Append(w, x)[i]) \in T
      BY <1>2, <2>2
    <3> QED
      BY <2>1, <3>1 DEF BodyParts
  <2>5. /\ r \in Seq(T) /\ Len(r) = n + 1
        /\ \A i \in 1..(n+1) : r[i] = IF i <= n THEN BodyOf(w[i]) ELSE BodyOf(x)
    <3>1. PICK e \in T : e = BodyOf(x)
      BY <1>2
    <3>2. PICK b \in Seq(T) : b = BodyParts(w)
      BY <1>3
    <3>3. Len(b) = n /\ \A i \in 1..n : b[i] = BodyOf(w[i])
      BY <3>2, <1>3 DEF BodyParts
    <3>4. /\ Append(b, e) \in Seq(T) /\ Len(Append(b, e)) = n + 1
          /\ \A i \in 1..(n+1) : Append(b, e)[i] = IF i <= n THEN b[i] ELSE e
      BY <3>3
    <3> HIDE DEF n
    <3> QED
      BY <2>1, <3>1, <3>2, <3>3, <3>4
  <2>6. \A i \in 1..(n+1) : l[i] = r[i]
    <3> HIDE DEF l, r
    <3> QED
      BY <2>2, <2>4, <2>5
  <2> HIDE DEF l, r
  <2>7. l = r
    BY <2>4, <2>5, <2>6, SeqEqual
  <2> QED
    BY <2>7 DEF l, r
<1> QED
  BY <1>1, <1>3, <1>4

LEMMA BodyAppend ==
  ASSUME NEW w \in Seq(Mark), NEW x \in Mark
  PROVE  BodyIn(w) \in Text /\ BodyIn(Append(w, x)) = BodyIn(w) \o BodyOf(x)
<1>1. \A u : BodyIn(u) = FlattenSeq(BodyParts(u))
  BY Zenon DEF BodyIn, BodyParts, BodyOf
<1> PICK T : T = Text
  OBVIOUS
<1>2. Parts(T, Bytes)
  BY DEF Parts, Text
<1>3. /\ BodyParts(w) \in Seq(T) /\ BodyOf(x) \in T
      /\ BodyParts(Append(w, x)) = Append(BodyParts(w), BodyOf(x))
  BY BodyPartsOf
<1>4. FlattenSeq(BodyParts(w)) \in Seq(Bytes)
  BY <1>2, <1>3, FlatTyped
<1>5. FlattenSeq(Append(BodyParts(w), BodyOf(x))) = FlattenSeq(BodyParts(w)) \o BodyOf(x)
  BY <1>2, <1>3, FlatAppend
<1> QED
  BY <1>1, <1>3, <1>4, <1>5 DEF Text

LEMMA BodyTyped ==
  ASSUME NEW w \in Seq(Mark)
  PROVE  BodyIn(w) \in Text
<1>0. PICK x \in Bytes : x = "LF"
  BY BytesAssumption
<1>1. [tok |-> x, body |-> TRUE] \in Mark
  BY DEF Mark
<1> QED
  BY <1>1, BodyAppend

LEMMA BodyNone == BodyIn(<<>>) = <<>>
<1>1. BodyIn(<<>>) = FlattenSeq([i \in 1..0 |-> BodyOf(<<>>[i])])
  BY DEF BodyIn, BodyOf
<1>2. [i \in 1..0 |-> BodyOf(<<>>[i])] = <<>>
  OBVIOUS
<1> QED
  BY <1>1, <1>2, FlatEmpty

LEMMA BodyJoin ==
  ASSUME NEW u \in Seq(Mark), NEW v \in Seq(Mark)
  PROVE  BodyIn(u \o v) = BodyIn(u) \o BodyIn(v)
<1> DEFINE P == {k \in 0..Len(v) : BodyIn(u \o SubSeq(v, 1, k)) = BodyIn(u) \o BodyIn(SubSeq(v, 1, k))}
<1> PICK S : S = Mark
  OBVIOUS
<1>1. 0 \in P
  <2>1. SubSeq(v, 1, 0) = <<>> /\ u \o <<>> = u /\ 0 \in 0..Len(v)
    OBVIOUS
  <2>2. BodyIn(u) \o <<>> = BodyIn(u)
    BY BodyTyped DEF Text
  <2> QED
    BY <2>1, <2>2, BodyNone
<1>2. ASSUME NEW k \in 0..(Len(v) - 1), k \in P PROVE k+1 \in P
  <2>1. PICK w \in Seq(S), x \in S : w = SubSeq(v, 1, k) /\ x = v[k+1]
    BY PrefixGrows
  <2>2. SubSeq(v, 1, k+1) = Append(w, x)
    BY <2>1, PrefixGrows
  <2>3. u \o Append(w, x) = Append(u \o w, x) /\ u \o w \in Seq(S)
    BY <2>1
  <2>4. BodyIn(Append(u \o w, x)) = BodyIn(u \o w) \o BodyOf(x)
    BY <2>3, BodyAppend
  <2>5. /\ BodyIn(Append(w, x)) = BodyIn(w) \o BodyOf(x)
        /\ BodyIn(w) \in Text /\ BodyIn(u) \in Text /\ BodyOf(x) \in Text
    BY BodyAppend, BodyPartsOf
  <2>6. BodyIn(u \o w) = BodyIn(u) \o BodyIn(w)
    BY <1>2, <2>1
  <2>7. (BodyIn(u) \o BodyIn(w)) \o BodyOf(x) = BodyIn(u) \o (BodyIn(w) \o BodyOf(x))
    <3>1. PICK a \in Seq(Bytes), b \in Seq(Bytes), c \in Seq(Bytes) :
            a = BodyIn(u) /\ b = BodyIn(w) /\ c = BodyOf(x)
      BY <2>5 DEF Text
    <3>2. (a \o b) \o c = a \o (b \o c)
      BY SMTT(30)
    <3> QED
      BY <3>1, <3>2, Zenon
  <2>8. BodyIn(u \o SubSeq(v, 1, k+1)) = BodyIn(u) \o BodyIn(SubSeq(v, 1, k+1))
    BY <2>2, <2>3, <2>4, <2>5, <2>6, <2>7, Zenon
  <2>9. k+1 \in 0..Len(v)
    OBVIOUS
  <2> QED
    BY <2>8, <2>9
<1>3. Len(v) \in P
  <2>1. Len(v) \in Nat /\ Len(v) \in 0..Len(v)
    OBVIOUS
  <2> HIDE DEF P
  <2> QED
    BY <1>1, <1>2, <2>1, IntervalInduction
<1>4. SubSeq(v, 1, Len(v)) = v
  BY WholePrefix
<1> QED
  BY <1>3, <1>4

LEMMA TokensJoin ==
  ASSUME NEW u \in Seq(Mark), NEW v \in Seq(Mark)
  PROVE  /\ Tokens(u) \in Text /\ Len(Tokens(u)) = Len(u)
         /\ Tokens(u \o v) = Tokens(u) \o Tokens(v)
         /\ \A i \in 0..Len(u) : Tokens(SubSeq(u, 1, i)) = SubSeq(Tokens(u), 1, i)
<1>1. \A x \in Mark : x.tok \in Bytes
  BY DEF Mark
<1>2. ASSUME NEW w \in Seq(Mark)
      PROVE  /\ Tokens(w) \in Text /\ Len(Tokens(w)) = Len(w)
             /\ \A i \in 1..Len(w) : Tokens(w)[i] = w[i].tok
  <2>1. \A i \in 1..Len(w) : w[i].tok \in Bytes
    BY <1>1
  <2> QED
    BY <2>1 DEF Tokens, Text
<1> PICK S : S = Mark
  OBVIOUS
<1>3. Tokens(u \o v) = Tokens(u) \o Tokens(v)
  <2>1. u \o v \in Seq(S) /\ Len(u \o v) = Len(u) + Len(v)
    OBVIOUS
  <2>2. PICK l \in Text, a \in Text, b \in Text :
          l = Tokens(u \o v) /\ a = Tokens(u) /\ b = Tokens(v)
    BY <1>2, <2>1
  <2>3. Len(l) = Len(u) + Len(v) /\ Len(a) = Len(u) /\ Len(b) = Len(v)
    BY <1>2, <2>1, <2>2
  <2>4. ASSUME NEW i \in 1..(Len(u) + Len(v)) PROVE l[i] = (a \o b)[i]
    <3>1. l[i] = (u \o v)[i].tok
      BY <1>2, <2>1, <2>2
    <3>2. CASE i <= Len(u)
      <4>1. (u \o v)[i] = u[i] /\ (a \o b)[i] = a[i]
        BY <2>3, <3>2 DEF Text
      <4> QED
        BY <1>2, <2>2, <3>1, <3>2, <4>1
    <3>3. CASE i > Len(u)
      <4>1. (u \o v)[i] = v[i - Len(u)] /\ (a \o b)[i] = b[i - Len(u)]
        BY <2>3, <3>3 DEF Text
      <4> QED
        BY <1>2, <2>2, <3>1, <3>3, <4>1
    <3>4. i \in Nat /\ Len(u) \in Nat
      OBVIOUS
    <3>5. i <= Len(u) \/ i > Len(u)
      BY <3>4
    <3> QED
      BY <3>2, <3>3, <3>5
  <2>5. a \o b \in Seq(Bytes) /\ l \in Seq(Bytes) /\ Len(a \o b) = Len(l)
    BY <2>3 DEF Text
  <2>6. l = a \o b
    BY <2>3, <2>4, <2>5, SeqEqual
  <2> QED
    BY <2>2, <2>6
<1>4. ASSUME NEW i \in 0..Len(u) PROVE Tokens(SubSeq(u, 1, i)) = SubSeq(Tokens(u), 1, i)
  <2>0. SubSeq(u, 1, i) \in Seq(Mark)
    OBVIOUS
  <2>1. PICK w \in Seq(Mark) : w = SubSeq(u, 1, i)
    BY <2>0
  <2>2. Len(w) = i /\ \A k \in 1..i : w[k] = u[k]
    BY <2>1
  <2>3. Tokens(w) \in Text /\ Len(Tokens(w)) = i /\ \A k \in 1..i : Tokens(w)[k] = u[k].tok
    BY <1>2, <2>2
  <2>4. /\ SubSeq(Tokens(u), 1, i) \in Text /\ Len(SubSeq(Tokens(u), 1, i)) = i
        /\ \A k \in 1..i : SubSeq(Tokens(u), 1, i)[k] = u[k].tok
    <3>1. PICK a \in Text : a = Tokens(u)
      BY <1>2
    <3>2. Len(a) = Len(u) /\ \A k \in 1..Len(u) : a[k] = u[k].tok
      BY <1>2, <3>1
    <3>3. SubSeq(a, 1, i) \in Text /\ Len(SubSeq(a, 1, i)) = i
          /\ \A k \in 1..i : SubSeq(a, 1, i)[k] = a[k]
      BY <3>2 DEF Text
    <3> QED
      BY <3>1, <3>2, <3>3
  <2> QED
    BY <2>1, <2>3, <2>4, SeqEqual DEF Text
<1> QED
  BY <1>2, <1>3, <1>4

LEMMA MarksOf ==
  ASSUME NEW s \in Text
  PROVE  /\ Framing(s) \in Seq(Mark) /\ Len(Framing(s)) = Len(s)
         /\ Content(s) \in Seq(Mark) /\ Len(Content(s)) = Len(s)
         /\ Tokens(Framing(s)) = s /\ Tokens(Content(s)) = s
         /\ \A i \in 1..Len(s) : /\ ~ Framing(s)[i].body
                                 /\ Content(s)[i].body /\ Content(s)[i].tok = s[i]
<1>1. \A i \in 1..Len(s) : s[i] \in Bytes
  BY DEF Text
<1>2. \A i \in 1..Len(s) : /\ [tok |-> s[i], body |-> FALSE] \in Mark
                           /\ [tok |-> s[i], body |-> TRUE] \in Mark
  BY <1>1 DEF Mark
<1>3. Len(s) \in Nat
  BY DEF Text
<1>4. Framing(s) \in Seq(Mark) /\ Len(Framing(s)) = Len(s)
  <2> PICK S : S = Mark
    OBVIOUS
  <2>1. \A i \in 1..Len(s) : [tok |-> s[i], body |-> FALSE] \in S
    BY <1>2
  <2> QED
    BY <1>3, <2>1 DEF Framing
<1>5. Content(s) \in Seq(Mark) /\ Len(Content(s)) = Len(s)
  <2> PICK S : S = Mark
    OBVIOUS
  <2>1. \A i \in 1..Len(s) : [tok |-> s[i], body |-> TRUE] \in S
    BY <1>2
  <2> QED
    BY <1>3, <2>1 DEF Content
<1>6. \A i \in 1..Len(s) : /\ Framing(s)[i].tok = s[i] /\ ~ Framing(s)[i].body
                           /\ Content(s)[i].body /\ Content(s)[i].tok = s[i]
  BY DEF Framing, Content
<1>7. s = [i \in 1..Len(s) |-> s[i]]
  BY DEF Text
<1>8. Tokens(Framing(s)) = s
  BY <1>4, <1>6, <1>7 DEF Tokens
<1>9. Tokens(Content(s)) = s
  BY <1>5, <1>6, <1>7 DEF Tokens
<1> QED
  BY <1>4, <1>5, <1>6, <1>8, <1>9

\* Framing adds nothing to the body, content all of itself.
LEMMA BodyOfMarks ==
  ASSUME NEW s \in Text, NEW k \in 0..Len(s)
  PROVE  /\ BodyIn(SubSeq(Framing(s), 1, k)) = <<>>
         /\ BodyIn(SubSeq(Content(s), 1, k)) = SubSeq(s, 1, k)
<1>0. Len(s) \in Nat
  BY DEF Text
<1> DEFINE P == {j \in 0..Len(s) : /\ BodyIn(SubSeq(Framing(s), 1, j)) = <<>>
                                   /\ BodyIn(SubSeq(Content(s), 1, j)) = SubSeq(s, 1, j)}
<1> PICK S : S = Mark
  OBVIOUS
<1>1. 0 \in P
  <2>1. SubSeq(Framing(s), 1, 0) = <<>> /\ SubSeq(Content(s), 1, 0) = <<>> /\ SubSeq(s, 1, 0) = <<>>
    BY MarksOf, WholePrefix DEF Text
  <2> QED
    BY <1>0, <2>1, BodyNone, 0 \in 0..Len(s)
<1>2. ASSUME NEW j \in 0..(Len(s) - 1), j \in P PROVE j+1 \in P
  <2>1. /\ j+1 \in 1..Len(s) /\ j+1 \in 0..Len(s)
        /\ j \in 0..(Len(Framing(s)) - 1) /\ j \in 0..(Len(Content(s)) - 1)
    BY <1>0, MarksOf
  <2>2. BodyIn(SubSeq(Framing(s), 1, j+1)) = <<>>
    <3>1. PICK f \in Seq(S) : f = Framing(s)
      BY MarksOf
    <3>2. PICK w \in Seq(S), x \in S : w = SubSeq(f, 1, j) /\ x = f[j+1]
      BY <2>1, <3>1, PrefixGrows
    <3>3. SubSeq(f, 1, j+1) = Append(w, x)
      BY <2>1, <3>1, <3>2, PrefixGrows
    <3>4. BodyOf(x) = <<>>
      BY <2>1, <3>1, <3>2, MarksOf DEF BodyOf
    <3>5. BodyIn(w) = <<>>
      BY <1>2, <3>1, <3>2
    <3>6. BodyIn(Append(w, x)) = BodyIn(w) \o BodyOf(x)
      BY BodyAppend
    <3>7. <<>> \o <<>> = <<>>
      OBVIOUS
    <3> QED
      BY <3>1, <3>3, <3>4, <3>5, <3>6, <3>7, Zenon
  <2>3. BodyIn(SubSeq(Content(s), 1, j+1)) = SubSeq(s, 1, j+1)
    <3>1. PICK f \in Seq(S) : f = Content(s)
      BY MarksOf
    <3>2. PICK w \in Seq(S), x \in S : w = SubSeq(f, 1, j) /\ x = f[j+1]
      BY <2>1, <3>1, PrefixGrows
    <3>3. SubSeq(f, 1, j+1) = Append(w, x)
      BY <2>1, <3>1, <3>2, PrefixGrows
    <3>4. BodyOf(x) = <<s[j+1]>>
      BY <2>1, <3>1, <3>2, MarksOf DEF BodyOf
    <3>5. BodyIn(w) = SubSeq(s, 1, j)
      BY <1>2, <3>1, <3>2
    <3>6. BodyIn(Append(w, x)) = BodyIn(w) \o BodyOf(x)
      BY BodyAppend
    <3>7. SubSeq(s, 1, j+1) = SubSeq(s, 1, j) \o <<s[j+1]>>
      BY <2>1 DEF Text
    <3> QED
      BY <3>1, <3>3, <3>4, <3>5, <3>6, <3>7, Zenon
  <2> QED
    BY <2>1, <2>2, <2>3
<1>3. k \in P
  <2> HIDE DEF P
  <2> QED
    BY <1>0, <1>1, <1>2, IntervalInduction
<1> QED
  BY <1>3

-----------------------------------------------------------------------------
(* Where a needle of one or two tokens is found *)

Places(s, needle) ==
  {i \in 1..(Len(s) - Len(needle) + 1) : SubSeq(s, i, i + Len(needle) - 1) = needle}

LEMMA PlaceIs ==
  ASSUME NEW s, NEW needle, NEW n, Places(s, needle) \subseteq Nat \ {0},
         \/ n = 0 /\ Places(s, needle) = {}
         \/ n \in Places(s, needle) /\ \A i \in Places(s, needle) : n <= i
  PROVE  find_subslice(s, needle) = n
<1> PICK at : at = Places(s, needle)
  OBVIOUS
<1>1. find_subslice(s, needle) = IF at = {} THEN 0 ELSE Min(at)
  BY Zenon DEF find_subslice, Places
<1>2. CASE at = {}
  BY <1>1, <1>2
<1>3. CASE at # {}
  <2>1. at \subseteq Nat
    OBVIOUS
  <2>2. Min(at) \in at /\ \A i \in at : Min(at) <= i
    BY <1>3, <2>1, LeastIs
  <2>3. n \in at /\ \A i \in at : n <= i
    BY <1>3
  <2> PICK m : m = Min(at)
    OBVIOUS
  <2>4. m \in Nat /\ n \in Nat /\ m <= n /\ n <= m
    BY <2>1, <2>2, <2>3
  <2>5. m = n
    BY <2>4
  <2> QED
    BY <1>1, <1>3, <2>5, Zenon
<1> QED
  BY <1>2, <1>3

LEMMA PairPlace ==
  ASSUME NEW S, NEW s \in Seq(S), NEW a, NEW b, NEW n \in 0..Len(s),
         \A i \in 1..(Len(s) - 1) : s[i] = a /\ s[i+1] = b => n # 0 /\ n <= i,
         n # 0 => n < Len(s) /\ s[n] = a /\ s[n+1] = b
  PROVE  find_subslice(s, <<a, b>>) = n
<1> DEFINE at == Places(s, <<a, b>>)
<1>1. Len(<<a, b>>) = 2 /\ Len(s) \in Nat
  OBVIOUS
<1>2. ASSUME NEW i \in 1..(Len(s) - 1)
      PROVE  SubSeq(s, i, i+1) = <<a, b>> <=> s[i] = a /\ s[i+1] = b
  <2>1. Len(SubSeq(s, i, i+1)) = 2 /\ SubSeq(s, i, i+1)[1] = s[i] /\ SubSeq(s, i, i+1)[2] = s[i+1]
    OBVIOUS
  <2>2. PICK x \in S, y \in S : x = s[i] /\ y = s[i+1]
    OBVIOUS
  <2>q. SubSeq(s, i, i+1) \in Seq(S)
    OBVIOUS
  <2>3. PICK q \in Seq(S) : q = SubSeq(s, i, i+1)
    BY <2>q, Zenon
  <2>4. Len(q) = 2 /\ q[1] = x /\ q[2] = y
    BY <2>1, <2>2, <2>3
  <2>5. q = <<x, y>>
    <3>1. <<x, y>> \in Seq(S) /\ Len(<<x, y>>) = 2 /\ <<x, y>>[1] = x /\ <<x, y>>[2] = y
      OBVIOUS
    <3>2. \A j \in 1..2 : j = 1 \/ j = 2
      OBVIOUS
    <3>3. \A j \in 1..2 : q[j] = <<x, y>>[j]
      BY <2>4, <3>1, <3>2
    <3> QED
      BY <2>4, <3>1, <3>3, SeqEqual
  <2>6. <<x, y>> = <<a, b>> <=> x = a /\ y = b
    BY Zenon
  <2> QED
    BY <2>2, <2>3, <2>5, <2>6, Zenon
<1>3. \A i : i \in at <=> i \in 1..(Len(s) - 1) /\ s[i] = a /\ s[i+1] = b
  <2>1. \A i : i \in at <=> i \in 1..(Len(s) - 2 + 1) /\ SubSeq(s, i, i + 2 - 1) = <<a, b>>
    BY <1>1 DEF Places
  <2>2. \A i \in 1..(Len(s) - 1) : i + 2 - 1 = i + 1
    BY <1>1
  <2>3. Len(s) - 2 + 1 = Len(s) - 1
    BY <1>1
  <2> HIDE DEF at
  <2> QED
    BY <1>2, <2>1, <2>2, <2>3
<1> HIDE DEF at
<1>5. at \subseteq Nat \ {0}
  BY <1>1, <1>3
<1>6. \/ n = 0 /\ at = {}
      \/ n \in at /\ \A i \in at : n <= i
  BY <1>1, <1>3
<1> QED
  BY <1>5, <1>6, PlaceIs DEF at

LEMMA TokenPlace ==
  ASSUME NEW S, NEW s \in Seq(S), NEW a, NEW n \in 0..Len(s),
         \A i \in 1..Len(s) : s[i] = a => n # 0 /\ n <= i,
         n # 0 => s[n] = a
  PROVE  find_subslice(s, <<a>>) = n
<1> DEFINE at == Places(s, <<a>>)
<1>1. Len(<<a>>) = 1 /\ Len(s) \in Nat
  OBVIOUS
<1>2. ASSUME NEW i \in 1..Len(s)
      PROVE  SubSeq(s, i, i) = <<a>> <=> s[i] = a
  <2>1. PICK x \in S : x = s[i]
    OBVIOUS
  <2>q. SubSeq(s, i, i) \in Seq(S)
    OBVIOUS
  <2>2. PICK q \in Seq(S) : q = SubSeq(s, i, i)
    BY <2>q, Zenon
  <2>3. Len(q) = 1 /\ q[1] = x
    BY <2>1, <2>2
  <2>4. q = <<x>>
    <3>1. <<x>> \in Seq(S) /\ Len(<<x>>) = 1 /\ <<x>>[1] = x
      OBVIOUS
    <3>2. \A j \in 1..1 : j = 1
      OBVIOUS
    <3>3. \A j \in 1..1 : q[j] = <<x>>[j]
      BY <2>3, <3>1, <3>2
    <3> QED
      BY <2>3, <3>1, <3>3, SeqEqual
  <2> QED
    BY <2>1, <2>2, <2>4
<1>3. \A i : i \in at <=> i \in 1..Len(s) /\ s[i] = a
  <2>1. \A i : i \in at <=> i \in 1..(Len(s) - 1 + 1) /\ SubSeq(s, i, i + 1 - 1) = <<a>>
    BY <1>1 DEF Places
  <2>2. \A i \in 1..Len(s) : i + 1 - 1 = i
    BY <1>1
  <2>3. Len(s) - 1 + 1 = Len(s)
    BY <1>1
  <2> HIDE DEF at
  <2> QED
    BY <1>2, <2>1, <2>2, <2>3
<1> HIDE DEF at
<1>5. at \subseteq Nat \ {0}
  BY <1>1, <1>3
<1>6. \/ n = 0 /\ at = {}
      \/ n \in at /\ \A i \in at : n <= i
  BY <1>1, <1>3
<1> QED
  BY <1>5, <1>6, PlaceIs DEF at

-----------------------------------------------------------------------------
(* Sizes, written and read *)

Digits == {DigitToken[v] : v \in 1..Base}
DigitValue(t) == CHOOSE v \in 0..(Base-1) : DigitToken[v+1] = t

LEMMA DigitsAre ==
  /\ Digits \subseteq Bytes /\ "CR" \notin Digits /\ "SEMI" \notin Digits /\ "LF" \notin Digits
  /\ \A v \in 0..(Base-1) : DigitToken[v+1] \in Digits /\ DigitValue(DigitToken[v+1]) = v
<1>1. Base \in 2..16
  BY RadixAssumption
<1>2. \A v \in 1..16 : /\ DigitToken[v] \notin {"CR", "SEMI", "LF"}
                       /\ \A u \in 1..16 : DigitToken[u] = DigitToken[v] => u = v
  BY DEF DigitToken
<1>3. /\ Digits \subseteq Bytes
      /\ "CR" \notin Digits /\ "SEMI" \notin Digits /\ "LF" \notin Digits
  <2>1. \A v \in 1..Base : v \in 1..16
    BY <1>1
  <2> QED
    BY <1>2, <2>1, BytesAssumption DEF Digits
<1>4. ASSUME NEW v \in 0..(Base-1)
      PROVE  DigitToken[v+1] \in Digits /\ DigitValue(DigitToken[v+1]) = v
  <2>1. v+1 \in 1..Base
    BY <1>1
  <2>2. \A u \in 0..(Base-1) : DigitToken[u+1] = DigitToken[v+1] => u = v
    <3>1. v+1 \in 1..16 /\ \A u \in 0..(Base-1) : u+1 \in 1..16 /\ (u+1 = v+1 => u = v)
      BY <1>1
    <3> QED
      BY <1>2, <3>1
  <2>3. DigitValue(DigitToken[v+1]) \in 0..(Base-1)
        /\ DigitToken[DigitValue(DigitToken[v+1]) + 1] = DigitToken[v+1]
    BY DEF DigitValue
  <2> QED
    BY <2>1, <2>2, <2>3 DEF Digits
<1> QED
  BY <1>3, <1>4

\* f holds the numbers that the first digits of s write.
Reads(f, s, n) == f = [k \in 0..n |-> IF k = 0 THEN 0 ELSE f[k-1] * Base + DigitValue(s[k])]

LEMMA ReadsExist ==
  ASSUME NEW s, NEW n \in Nat
  PROVE  \E f : Reads(f, s, n)
<1> DEFINE P == {m \in 0..n : \E f : Reads(f, s, m)}
<1>1. 0 \in P
  <2> DEFINE f == [k \in 0..0 |-> 0]
  <2>1. f = [k \in 0..0 |-> IF k = 0 THEN 0 ELSE f[k-1] * Base + DigitValue(s[k])]
    OBVIOUS
  <2> HIDE DEF f
  <2>2. Reads(f, s, 0)
    BY <2>1 DEF Reads
  <2> QED
    BY <2>2, 0 \in 0..n
<1>2. ASSUME NEW m \in 0..(n-1), m \in P PROVE m+1 \in P
  <2>1. PICK f : Reads(f, s, m)
    BY <1>2
  <2>2. \A k \in 0..m : f[k] = IF k = 0 THEN 0 ELSE f[k-1] * Base + DigitValue(s[k])
    BY <2>1, Zenon DEF Reads
  <2> DEFINE last == f[m] * Base + DigitValue(s[m+1])
             g == [k \in 0..(m+1) |-> IF k <= m THEN f[k] ELSE last]
  <2>3. ASSUME NEW k \in 0..(m+1)
        PROVE  g[k] = IF k = 0 THEN 0 ELSE g[k-1] * Base + DigitValue(s[k])
    <3>1. CASE k = m+1
      <4>1. g[k] = last /\ g[k-1] = f[m] /\ k # 0
        BY <3>1
      <4> QED
        BY <3>1, <4>1
    <3>2. CASE k <= m
      <4>1. k \in 0..m
        BY <3>2
      <4>2. f[k] = IF k = 0 THEN 0 ELSE f[k-1] * Base + DigitValue(s[k])
        BY <2>2, <4>1
      <4>3. g[k] = f[k] /\ (k # 0 => g[k-1] = f[k-1])
        BY <4>1
      <4> HIDE DEF g
      <4> QED
        BY <4>2, <4>3
    <3> QED
      BY <3>1, <3>2
  <2>4. g = [k \in 0..(m+1) |-> IF k = 0 THEN 0 ELSE g[k-1] * Base + DigitValue(s[k])]
    BY <2>3
  <2> HIDE DEF g
  <2>5. Reads(g, s, m+1)
    BY <2>4 DEF Reads
  <2> QED
    BY <2>5, m+1 \in 0..n
<1> HIDE DEF P
<1>3. n \in P
  BY <1>1, <1>2, IntervalInduction, n \in 0..n
<1> QED
  BY <1>3 DEF P

\* The digits s write the number n.
Writes(s, n) ==
  /\ s \in Seq(Digits) /\ s # <<>>
  /\ \E f : /\ f[0] = 0 /\ \A k \in 1..Len(s) : f[k] = f[k-1] * Base + DigitValue(s[k])
            /\ f[Len(s)] = n

LEMMA WritesIs ==
  ASSUME NEW s, NEW n, Writes(s, n)
  PROVE  s \in Seq(Digits) /\ Len(s) \in Nat \ {0} /\ \A i \in 1..Len(s) : s[i] \in Digits
<1>1. s \in Seq(Digits) /\ s # <<>>
  BY Zenon DEF Writes
<1>2. Len(s) # 0
  BY <1>1, EmptySeq
<1> QED
  BY <1>1, <1>2

LEMMA NumberRead ==
  ASSUME NEW s, NEW n, Writes(s, n), NEW number, Reads(number, s, Len(s))
  PROVE  number[Len(s)] = n
<1> PICK N \in Nat : N = Len(s)
  BY WritesIs
<1>7. \A k \in 0..N : number[k] = IF k = 0 THEN 0 ELSE number[k-1] * Base + DigitValue(s[k])
  BY Zenon DEF Reads
<1>8. PICK f : /\ f[0] = 0 /\ \A k \in 1..N : f[k] = f[k-1] * Base + DigitValue(s[k])
               /\ f[N] = n
  BY Zenon DEF Writes
<1> DEFINE P == {k \in 0..N : number[k] = f[k]}
<1>9. 0 \in P
  BY <1>7, <1>8, 0 \in 0..N
<1>10. ASSUME NEW k \in 0..(N-1), k \in P PROVE k+1 \in P
  <2>1. k+1 \in 0..N /\ k+1 \in 1..N /\ (k+1) - 1 = k /\ k+1 # 0
    OBVIOUS
  <2>2. number[k+1] = number[k] * Base + DigitValue(s[k+1])
    BY <1>7, <2>1
  <2>3. f[k+1] = f[k] * Base + DigitValue(s[k+1])
    BY <1>8, <2>1
  <2>4. number[k] = f[k]
    BY <1>10
  <2> QED
    BY <2>1, <2>2, <2>3, <2>4
<1>11. N \in P
  <2> HIDE DEF P
  <2> QED
    BY <1>9, <1>10, IntervalInduction, N \in 0..N
<1> QED
  BY <1>8, <1>11

\* Where the extension of a size line starts.
LEMMA Extension ==
  ASSUME NEW s \in Seq(Digits)
  PROVE  /\ find_subslice(s, <<"SEMI">>) = 0
         /\ find_subslice(s \o <<"SEMI", "x">>, <<"SEMI">>) = Len(s) + 1
         /\ SubSeq(s \o <<"SEMI", "x">>, 1, (Len(s) + 1) - 1) = s
         /\ Len(s) + 1 # 0
<1> PICK n \in Nat : n = Len(s)
  OBVIOUS
<1>0. \A i \in 1..n : s[i] \in Digits /\ s[i] # "SEMI"
  BY DigitsAre
<1>1. find_subslice(s, <<"SEMI">>) = 0
  <2>1. 0 \in 0..n /\ \A i \in 1..n : s[i] # "SEMI"
    BY <1>0
  <2> QED
    BY <2>1, TokenPlace
<1> PICK T : T = Digits \cup {"SEMI", "x"}
  OBVIOUS
<1>2. s \in Seq(T) /\ <<"SEMI", "x">> \in Seq(T)
  <2>1. Digits \subseteq T /\ "SEMI" \in T /\ "x" \in T
    OBVIOUS
  <2> QED
    BY <2>1
<1> PICK line : line = s \o <<"SEMI", "x">>
  OBVIOUS
<1>3. /\ line \in Seq(T) /\ Len(line) = n + 2
      /\ line[n + 1] = "SEMI" /\ line[n + 2] = "x"
      /\ \A i \in 1..n : line[i] = s[i]
      /\ SubSeq(line, 1, n) = s
  BY <1>2
<1>4. \A i \in 1..Len(line) : line[i] = "SEMI" => n + 1 <= i
  <2>1. \A i \in 1..Len(line) : i \in 1..n \/ n + 1 <= i
    BY <1>3
  <2> QED
    BY <1>0, <1>3, <2>1
<1>5. find_subslice(line, <<"SEMI">>) = n + 1
  <2> PICK m : m = n + 1
    OBVIOUS
  <2>1. m \in 0..Len(line) /\ m # 0 /\ line[m] = "SEMI" /\ line \in Seq(T)
    BY <1>3
  <2>2. \A i \in 1..Len(line) : line[i] = "SEMI" => m <= i
    BY <1>4
  <2>3. find_subslice(line, <<"SEMI">>) = m
    BY <2>1, <2>2, TokenPlace
  <2> QED
    BY <2>3
<1>6. (n + 1) - 1 = n /\ n + 1 # 0
  OBVIOUS
<1> QED
  BY <1>1, <1>3, <1>5, <1>6

LEMMA SizeRead ==
  ASSUME NEW s, NEW n, Writes(s, n)
  PROVE  ParseSize(s) = n /\ ParseSize(s \o <<"SEMI", "x">>) = n
<1>1. s \in Seq(Digits) /\ s # <<>>
  BY Zenon DEF Writes
<1>2. Len(s) \in Nat /\ Range(s) \subseteq Digits
  BY WritesIs DEF Range
<1>3. ASSUME NEW line,
             s = IF find_subslice(line, <<"SEMI">>) = 0 THEN line
                 ELSE SubSeq(line, 1, find_subslice(line, <<"SEMI">>) - 1)
      PROVE  ParseSize(line) = n
  <2> DEFINE semi == find_subslice(line, <<"SEMI">>)
             digits == IF semi = 0 THEN line ELSE SubSeq(line, 1, semi - 1)
             number == CHOOSE f : Reads(f, digits, Len(digits))
  <2>1. ParseSize(line) =
          IF digits = <<>> \/ ~ Range(digits) \subseteq Digits THEN -1 ELSE number[Len(digits)]
    BY Zenon DEF ParseSize, Reads, DigitValue, Digits
  <2>2. digits = s
    BY <1>3, Zenon
  <2> HIDE DEF digits, semi
  <2>3. Reads(number, s, Len(s))
    BY <1>2, <2>2, ReadsExist
  <2> HIDE DEF number
  <2>4. ParseSize(line) = number[Len(s)]
    BY <1>1, <1>2, <2>1, <2>2, Zenon
  <2> QED
    BY <2>3, <2>4, NumberRead
<1>4. /\ find_subslice(s, <<"SEMI">>) = 0
      /\ find_subslice(s \o <<"SEMI", "x">>, <<"SEMI">>) = Len(s) + 1
      /\ SubSeq(s \o <<"SEMI", "x">>, 1, (Len(s) + 1) - 1) = s
      /\ Len(s) + 1 # 0
  BY <1>1, Extension
<1>5. ParseSize(s) = n
  <2>1. s = IF find_subslice(s, <<"SEMI">>) = 0 THEN s
            ELSE SubSeq(s, 1, find_subslice(s, <<"SEMI">>) - 1)
    BY <1>4, Zenon
  <2> QED
    BY <1>3, <2>1, Zenon
<1>6. ParseSize(s \o <<"SEMI", "x">>) = n
  <2>1. s = IF find_subslice(s \o <<"SEMI", "x">>, <<"SEMI">>) = 0 THEN s \o <<"SEMI", "x">>
            ELSE SubSeq(s \o <<"SEMI", "x">>, 1, find_subslice(s \o <<"SEMI", "x">>, <<"SEMI">>) - 1)
    BY <1>4, Zenon
  <2> QED
    BY <1>3, <2>1, Zenon
<1> QED
  BY <1>5, <1>6

LEMMA QuotientIs ==
  ASSUME NEW k \in Nat
  PROVE  \E q \in Nat, v \in 0..(Base-1) :
           /\ q = k \div Base /\ v = k % Base
           /\ q * Base + v = k
           /\ k >= Base => q < k
<1>1. Base = 3 \/ Base = 4 \/ Base = 16
  BY RadixAssumption
<1> PICK q, v : q = k \div Base /\ v = k % Base
  OBVIOUS
<1>2. CASE Base = 3
  <2>1. q = k \div 3 /\ v = k % 3
    BY <1>2
  <2>2. q \in Nat /\ v \in 0..(3 - 1) /\ (k >= 3 => q < k)
    BY <2>1
  <2>3. q * 3 + v = k
    BY <2>1, <2>2
  <2> QED
    BY <1>2, <2>2, <2>3
<1>3. CASE Base = 4
  <2>1. q = k \div 4 /\ v = k % 4
    BY <1>3
  <2>2. q \in Nat /\ v \in 0..(4 - 1) /\ (k >= 4 => q < k)
    BY <2>1
  <2>3. q * 4 + v = k
    BY <2>1, <2>2
  <2> QED
    BY <1>3, <2>2, <2>3
<1>4. CASE Base = 16
  <2>1. q = k \div 16 /\ v = k % 16
    BY <1>4
  <2>2. q \in Nat /\ v \in 0..(16 - 1) /\ (k >= 16 => q < k)
    BY <2>1
  <2>3. q * 16 + v = k
    BY <2>1, <2>2
  <2> QED
    BY <1>4, <2>2, <2>3
<1> QED
  BY <1>1, <1>2, <1>3, <1>4

LEMMA OneDigit ==
  ASSUME NEW v \in 0..(Base-1)
  PROVE  Writes(<<DigitToken[v+1]>>, v)
<1>1. DigitToken[v+1] \in Digits /\ DigitValue(DigitToken[v+1]) = v
  BY DigitsAre
<1> PICK t \in Digits : t = DigitToken[v+1]
  BY <1>1
<1>2. <<t>> \in Seq(Digits) /\ <<t>> # <<>> /\ Len(<<t>>) = 1 /\ <<t>>[1] = t
  OBVIOUS
<1> DEFINE f == [k \in 0..1 |-> IF k = 0 THEN 0 ELSE v]
<1>3. f[0] = 0 /\ f[1] = v
  OBVIOUS
<1>4. 0 * Base + v = v
  BY RadixAssumption
<1> HIDE DEF f
<1>5. \A k \in 1..1 : f[k] = f[k-1] * Base + DigitValue(<<t>>[k])
  <2>1. \A k \in 1..1 : k = 1 /\ k - 1 = 0
    OBVIOUS
  <2>2. f[1] = f[0] * Base + DigitValue(<<t>>[1])
    BY <1>1, <1>2, <1>3, <1>4
  <2> QED
    BY <2>1, <2>2
<1> QED
  BY <1>2, <1>3, <1>5 DEF Writes

LEMMA NextDigit ==
  ASSUME NEW s, NEW m \in Nat, Writes(s, m), NEW v \in 0..(Base-1)
  PROVE  Writes(Append(s, DigitToken[v+1]), m * Base + v)
<1>1. DigitToken[v+1] \in Digits /\ DigitValue(DigitToken[v+1]) = v
  BY DigitsAre
<1> PICK t \in Digits : t = DigitToken[v+1]
  BY <1>1
<1>2. s \in Seq(Digits)
  BY DEF Writes
<1> PICK n \in Nat : n = Len(s)
  BY <1>2
<1>3. /\ Append(s, t) \in Seq(Digits) /\ Append(s, t) # <<>> /\ Len(Append(s, t)) = n + 1
      /\ Append(s, t)[n+1] = t /\ \A k \in 1..n : Append(s, t)[k] = s[k]
  BY <1>2
<1>4. PICK f : /\ f[0] = 0 /\ \A k \in 1..n : f[k] = f[k-1] * Base + DigitValue(s[k])
               /\ f[n] = m
  BY DEF Writes
<1> PICK w : w = m * Base + v
  OBVIOUS
<1> DEFINE g == [k \in 0..(n+1) |-> IF k <= n THEN f[k] ELSE w]
<1>5. g[n+1] = w /\ \A k \in 0..n : g[k] = f[k]
  OBVIOUS
<1> HIDE DEF g
<1>6. ASSUME NEW k \in 1..(n+1) PROVE g[k] = g[k-1] * Base + DigitValue(Append(s, t)[k])
  <2>1. CASE k = n+1
    <3>1. k - 1 = n /\ n \in 0..n
      BY <2>1
    <3>2. g[k-1] = m /\ g[k] = w /\ Append(s, t)[k] = t
      BY <1>3, <1>4, <1>5, <2>1, <3>1
    <3> QED
      BY <1>1, <3>2
  <2>2. CASE k # n+1
    <3>1. k \in 1..n /\ k \in 0..n /\ k-1 \in 0..n
      BY <2>2
    <3>2. g[k] = f[k] /\ g[k-1] = f[k-1] /\ Append(s, t)[k] = s[k]
      BY <1>3, <1>5, <3>1
    <3> QED
      BY <1>4, <3>1, <3>2
  <2> QED
    BY <2>1, <2>2
<1>7. g[0] = 0
  BY <1>4, <1>5, 0 \in 0..n
<1> QED
  BY <1>3, <1>5, <1>6, <1>7 DEF Writes

\* f holds the size lines of the numbers up to n.
SizeLinesOf(f, n) ==
  f = [k \in 0..n |-> IF k < Base THEN <<DigitToken[k+1]>>
                      ELSE Append(f[k \div Base], DigitToken[(k % Base) + 1])]

LEMMA SizeLinesExist ==
  ASSUME NEW n \in Nat
  PROVE  \E f : SizeLinesOf(f, n)
<1> DEFINE P == {m \in 0..n : \E f : SizeLinesOf(f, m)}
<1>1. 0 \in P
  <2> DEFINE f == [k \in 0..0 |-> <<DigitToken[k+1]>>]
  <2>1. \A k \in 0..0 : k < Base
    BY RadixAssumption
  <2>2. f = [k \in 0..0 |-> IF k < Base THEN <<DigitToken[k+1]>>
                            ELSE Append(f[k \div Base], DigitToken[(k % Base) + 1])]
    BY <2>1
  <2> HIDE DEF f
  <2>3. SizeLinesOf(f, 0)
    BY <2>2 DEF SizeLinesOf
  <2> QED
    BY <2>3, 0 \in 0..n
<1>2. ASSUME NEW m \in 0..(n-1), m \in P PROVE m+1 \in P
  <2>1. PICK f : SizeLinesOf(f, m)
    BY <1>2
  <2>2. \A k \in 0..m : f[k] = IF k < Base THEN <<DigitToken[k+1]>>
                               ELSE Append(f[k \div Base], DigitToken[(k % Base) + 1])
    BY <2>1, Zenon DEF SizeLinesOf
  <2> DEFINE Next1(h, k) == IF k < Base THEN <<DigitToken[k+1]>>
                            ELSE Append(h[k \div Base], DigitToken[(k % Base) + 1])
             g == [k \in 0..(m+1) |-> IF k <= m THEN f[k] ELSE Next1(f, m+1)]
  <2>3. ASSUME NEW k \in 0..(m+1) PROVE g[k] = Next1(g, k)
    <3>0. k >= Base => k \div Base \in 0..m /\ (k \div Base) < k
      BY QuotientIs
    <3>1. k >= Base => g[k \div Base] = f[k \div Base]
      BY <3>0
    <3>2. Next1(g, k) = Next1(f, k)
      <4>1. ~ k < Base => k >= Base
        BY RadixAssumption
      <4> QED
        BY <3>1, <4>1
    <3>3. CASE k = m+1
      <4>1. g[k] = Next1(f, m+1)
        <5> HIDE DEF Next1
        <5> QED
          BY <3>3
      <4> HIDE DEF g, Next1
      <4> QED
        BY <3>2, <3>3, <4>1
    <3>4. CASE k <= m
      <4>1. g[k] = f[k]
        BY <3>4
      <4>2. f[k] = Next1(f, k)
        BY <2>2, <3>4
      <4> HIDE DEF g, Next1
      <4> QED
        BY <3>2, <4>1, <4>2
    <3> QED
      BY <3>3, <3>4
  <2>4. g = [k \in 0..(m+1) |-> Next1(g, k)]
    <3> HIDE DEF Next1
    <3> QED
      BY <2>3
  <2> HIDE DEF g
  <2>5. SizeLinesOf(g, m+1)
    BY <2>4, Zenon DEF SizeLinesOf
  <2> QED
    BY <2>5, m+1 \in 0..n
<1> HIDE DEF P
<1>3. n \in P
  BY <1>1, <1>2, IntervalInduction, n \in 0..n
<1> QED
  BY <1>3 DEF P

\* What a server writes as a size is read as that size.
LEMMA SizeLineWrites ==
  ASSUME NEW n \in Nat
  PROVE  Writes(SizeLine(n), n)
<1> DEFINE f == CHOOSE g : SizeLinesOf(g, n)
<1>1. SizeLine(n) = f[n]
  BY Zenon DEF SizeLine, SizeLinesOf
<1>2. SizeLinesOf(f, n)
  BY SizeLinesExist
<1> HIDE DEF f
<1>3. \A k \in 0..n : f[k] = IF k < Base THEN <<DigitToken[k+1]>>
                             ELSE Append(f[k \div Base], DigitToken[(k % Base) + 1])
  BY <1>2, Zenon DEF SizeLinesOf
<1> DEFINE P == {k \in 0..n : \A j \in 0..k : Writes(f[j], j)}
<1>4. Base \in Nat /\ Base > 0
  BY RadixAssumption
<1>5. ASSUME NEW k \in 0..n, \A j \in 0..(k-1) : Writes(f[j], j)
      PROVE  Writes(f[k], k)
  <2>1. CASE k < Base
    <3>1. f[k] = <<DigitToken[k+1]>>
      BY <1>3, <2>1, Zenon
    <3>2. k \in 0..(Base-1)
      BY <1>4, <2>1
    <3> QED
      BY <3>1, <3>2, OneDigit
  <2>2. CASE ~ k < Base
    <3>1. f[k] = Append(f[k \div Base], DigitToken[(k % Base) + 1])
      BY <1>3, <2>2
    <3>0. k \in Nat
      OBVIOUS
    <3>2. PICK q \in Nat, v \in 0..(Base-1) :
            /\ q = k \div Base /\ v = k % Base
            /\ q * Base + v = k
            /\ k >= Base => q < k
      BY <3>0, QuotientIs, Zenon
    <3>3. q < k /\ q * Base + v = k
      BY <1>4, <2>2, <3>2
    <3>4. Writes(f[q], q)
      BY <1>5, <3>3
    <3>5. Writes(Append(f[q], DigitToken[v+1]), q * Base + v)
      BY <3>4, NextDigit
    <3> QED
      BY <3>1, <3>2, <3>3, <3>5
  <2> QED
    BY <2>1, <2>2
<1>6. 0 \in P
  <2>1. 0 \in 0..n /\ \A j \in 0..0 : j = 0
    OBVIOUS
  <2>2. \A j \in 0..(0-1) : Writes(f[j], j)
    OBVIOUS
  <2> QED
    BY <1>5, <2>1, <2>2
<1>7. ASSUME NEW k \in 0..(n-1), k \in P PROVE k+1 \in P
  <2>1. k+1 \in 0..n /\ (k+1) - 1 = k
    OBVIOUS
  <2>2. Writes(f[k+1], k+1)
    BY <1>5, <1>7, <2>1
  <2>3. \A j \in 0..(k+1) : j \in 0..k \/ j = k+1
    OBVIOUS
  <2> QED
    BY <1>7, <2>1, <2>2, <2>3
<1>8. n \in P
  <2> HIDE DEF P
  <2> QED
    BY <1>6, <1>7, IntervalInduction, n \in 0..n
<1>9. Writes(f[n], n)
  BY <1>8, n \in 0..n
<1> QED
  BY <1>1, <1>9

-----------------------------------------------------------------------------
(* The decoder over a stretch of the response *)

LEMMA NoTokens ==
  /\ Tokens(<<>>) = <<>> /\ <<>> \in Seq(Mark) /\ <<>> \in Seq(Bytes) /\ Len(<<>>) = 0
  /\ \A s \in Seq(Bytes) : s \o <<>> = s /\ <<>> \o s = s
  /\ \A w \in Seq(Mark) : SubSeq(w, 1, 0) = <<>>
<1>1. [i \in 1..0 |-> <<>>[i].tok] = <<>>
  OBVIOUS
<1>2. Tokens(<<>>) = <<>>
  BY <1>1 DEF Tokens
<1>3. \A s \in Seq(Bytes) : s \o <<>> = s /\ <<>> \o s = s
  OBVIOUS
<1>4. \A w \in Seq(Mark) : SubSeq(w, 1, 0) = <<>>
  BY WholePrefix
<1>5. <<>> \in Seq(Mark) /\ <<>> \in Seq(Bytes) /\ Len(<<>>) = 0
  OBVIOUS
<1> QED
  BY <1>2, <1>3, <1>4, <1>5

LEMMA NoLineEnd == find_subslice(<<>>, CRLF) = 0
<1>1. <<>> \in Seq({}) /\ 0 \in 0..Len(<<>>) /\ \A i \in 1..(Len(<<>>) - 1) : FALSE
  OBVIOUS
<1>2. find_subslice(<<>>, <<"CR", "LF">>) = 0
  BY <1>1, PairPlace
<1> QED
  BY <1>2 DEF CRLF

\* Nothing to do without bytes.
LEMMA RestsEmpty ==
  ASSUME NEW st \in States, NEW rem \in Nat, st = "ReadingData" => rem > 0, NEW dec \in Seq(Bytes)
  PROVE  LET d == Decoder(st, rem, <<>>, dec)
         IN  Sound(d, Bytes) /\ Turn(d) = d /\ RunTurns(d) = d
<1> PICK d : d = Decoder(st, rem, <<>>, dec)
  OBVIOUS
<1>0. <<>> \in Seq(Bytes) /\ Len(<<>>) = 0 /\ dec \o <<>> = dec
  BY NoTokens
<1>1. Sound(d, Bytes)
  BY <1>0, SoundIs
<1>2. Turn(d) = d
  <2>1. CASE st = "ReadingSize"
    <3>1. find_subslice(<<>>, CRLF) = 0
      BY NoLineEnd
    <3> QED
      BY <1>0, <2>1, <3>1, SizeTurn, Zenon
  <2>2. CASE st = "ReadingData"
    <3>1. Len(<<>>) < rem /\ rem - Len(<<>>) = rem
      BY <1>0, <2>2
    <3>2. Turn(Decoder("ReadingData", rem, <<>>, dec)) =
            Decoder("ReadingData", rem - Len(<<>>), <<>>, dec \o <<>>)
      BY <1>0, <3>1, DataTurn
    <3> QED
      BY <1>0, <2>2, <3>1, <3>2, Zenon
  <2>3. CASE st = "ReadingDataTrailer"
    <3>1. Len(<<>>) < 2
      BY <1>0
    <3> QED
      BY <1>0, <2>3, <3>1, TrailerTurn, Zenon
  <2>4. CASE st \in {"Done", "Panicked"}
    BY <2>4, TurnOf
  <2> QED
    BY <2>1, <2>2, <2>3, <2>4 DEF States
<1> QED
  BY <1>1, <1>2, RunFixed

\* The decoder after the first i bytes of w.
After(d, w, i) == ChunkedFeed(d, Tokens(SubSeq(w, 1, i)))

\* From d the bytes w lead to e; on the way and in the end `decoded` holds what
\* they add to the body, and the decoder neither ends early nor panics.
Passes(d, w, e) ==
  /\ Sound(d, Bytes) /\ Sound(e, Bytes) /\ w \in Seq(Mark)
  /\ ChunkedFeed(d, Tokens(w)) = e
  /\ e.decoded = d.decoded \o BodyIn(w)
  /\ \A i \in 0..(Len(w) - 1) :
       /\ After(d, w, i).decoded = d.decoded \o BodyIn(SubSeq(w, 1, i))
       /\ After(d, w, i).state \notin {"Done", "Panicked"}

LEMMA PassesNone ==
  ASSUME NEW st \in States, NEW rem \in Nat, st = "ReadingData" => rem > 0, NEW dec \in Seq(Bytes)
  PROVE  Passes(Decoder(st, rem, <<>>, dec), <<>>, Decoder(st, rem, <<>>, dec))
<1> PICK d : d = Decoder(st, rem, <<>>, dec)
  OBVIOUS
<1>1. Sound(d, Bytes) /\ RunTurns(d) = d /\ d.decoded = dec
  BY RestsEmpty, Fields
<1>2. ChunkedFeed(d, Tokens(<<>>)) = d
  <2>1. <<>> \o <<>> = <<>>
    OBVIOUS
  <2>2. More(d, <<>>) = Decoder(st, rem, <<>> \o <<>>, dec)
    <3>1. \A p, b : More(Decoder(st, rem, p, dec), b) = Decoder(st, rem, p \o b, dec)
      BY MoreIs
    <3> QED
      BY <3>1, Zenon
  <2> QED
    BY <1>1, <2>1, <2>2, NoTokens, Zenon DEF ChunkedFeed, More
<1>3. dec \o BodyIn(<<>>) = dec
  BY BodyNone, NoTokens
<1>4. \A i \in 0..(Len(<<>>) - 1) : FALSE
  OBVIOUS
<1> QED
  BY <1>1, <1>2, <1>3, <1>4, NoTokens DEF Passes

LEMMA PassesOn ==
  ASSUME NEW d, NEW u, NEW e, NEW v, NEW f, Passes(d, u, e), Passes(e, v, f)
  PROVE  Passes(d, u \o v, f)
<1>1. /\ Sound(d, Bytes) /\ Sound(e, Bytes) /\ Sound(f, Bytes)
      /\ u \in Seq(Mark) /\ v \in Seq(Mark)
      /\ ChunkedFeed(d, Tokens(u)) = e /\ ChunkedFeed(e, Tokens(v)) = f
      /\ e.decoded = d.decoded \o BodyIn(u) /\ f.decoded = e.decoded \o BodyIn(v)
  BY DEF Passes
<1>2. u \o v \in Seq(Mark) /\ Len(u \o v) = Len(u) + Len(v) /\ Len(u) \in Nat /\ Len(v) \in Nat
  BY <1>1
<1>3. d.decoded \in Seq(Bytes) /\ e.decoded \in Seq(Bytes)
  BY <1>1, DecoderIs
<1>4. ASSUME NEW x \in Seq(Mark)
      PROVE  /\ ChunkedFeed(e, Tokens(x)) = ChunkedFeed(d, Tokens(u \o x))
             /\ e.decoded \o BodyIn(x) = d.decoded \o BodyIn(u \o x)
  <2>1. Tokens(u) \in Seq(Bytes) /\ Tokens(x) \in Seq(Bytes) /\ Tokens(u \o x) = Tokens(u) \o Tokens(x)
    BY <1>1, TokensJoin DEF Text
  <2>2. ChunkedFeed(ChunkedFeed(d, Tokens(u)), Tokens(x)) = ChunkedFeed(d, Tokens(u) \o Tokens(x))
    BY <1>1, <2>1, FeedsJoin
  <2>3. BodyIn(u \o x) = BodyIn(u) \o BodyIn(x)
    BY <1>1, BodyJoin
  <2>4. PICK p \in Seq(Bytes), q \in Seq(Bytes), r \in Seq(Bytes) :
          p = d.decoded /\ q = BodyIn(u) /\ r = BodyIn(x)
    BY <1>1, <1>3, BodyTyped DEF Text
  <2>5. (p \o q) \o r = p \o (q \o r)
    OBVIOUS
  <2> QED
    BY <1>1, <2>1, <2>2, <2>3, <2>4, <2>5, Zenon
<1>5. ASSUME NEW i \in 0..(Len(u \o v) - 1)
      PROVE  /\ After(d, u \o v, i).decoded = d.decoded \o BodyIn(SubSeq(u \o v, 1, i))
             /\ After(d, u \o v, i).state \notin {"Done", "Panicked"}
  <2>1. CASE i < Len(u)
    <3>1. i \in 0..Len(u) /\ i \in 0..(Len(u) - 1)
      BY <1>2, <2>1
    <3>2. SubSeq(u \o v, 1, i) = SubSeq(u, 1, i)
      BY <1>1, <3>1, CutWithin
    <3> QED
      BY <3>1, <3>2, Zenon DEF Passes, After
  <2>2. CASE ~ i < Len(u)
    <3>1. i \in Len(u)..(Len(u) + Len(v)) /\ i - Len(u) \in 0..(Len(v) - 1)
      BY <1>2, <2>2
    <3>2. PICK j \in 0..(Len(v) - 1) : j = i - Len(u)
      BY <3>1
    <3>3. SubSeq(u \o v, 1, i) = u \o SubSeq(v, 1, j)
      BY <1>1, <3>1, <3>2, CutPast
    <3>4. SubSeq(v, 1, j) \in Seq(Mark)
      BY <1>1
    <3>5. PICK x \in Seq(Mark) : x = SubSeq(v, 1, j)
      BY <3>4, Zenon
    <3>6. /\ ChunkedFeed(e, Tokens(x)).decoded = e.decoded \o BodyIn(x)
          /\ ChunkedFeed(e, Tokens(x)).state \notin {"Done", "Panicked"}
      BY <3>5, Zenon DEF Passes, After
    <3>7. /\ ChunkedFeed(e, Tokens(x)) = ChunkedFeed(d, Tokens(u \o x))
          /\ e.decoded \o BodyIn(x) = d.decoded \o BodyIn(u \o x)
      BY <1>4
    <3> QED
      BY <3>3, <3>5, <3>6, <3>7, Zenon DEF After
  <2> QED
    BY <2>1, <2>2
<1>6. ChunkedFeed(d, Tokens(u \o v)) = f /\ f.decoded = d.decoded \o BodyIn(u \o v)
  BY <1>1, <1>4
<1> QED
  BY <1>1, <1>2, <1>5, <1>6, Zenon DEF Passes

\* What is left to show of a stretch when the decoder's states along it are known.
LEMMA PassesIf ==
  ASSUME NEW st \in States \ {"Done", "Panicked"}, NEW rem \in Nat, st = "ReadingData" => rem > 0,
         NEW dec \in Seq(Bytes), NEW w \in Seq(Mark), NEW e, Sound(e, Bytes),
         RunTurns(Decoder(st, rem, Tokens(w), dec)) = e,
         e.decoded = dec \o BodyIn(w),
         \A i \in 0..(Len(w) - 1) :
           LET f == RunTurns(Decoder(st, rem, SubSeq(Tokens(w), 1, i), dec))
           IN  /\ f.decoded = dec \o BodyIn(SubSeq(w, 1, i))
               /\ f.state \notin {"Done", "Panicked"}
  PROVE  Passes(Decoder(st, rem, <<>>, dec), w, e)
<1> PICK d : d = Decoder(st, rem, <<>>, dec)
  OBVIOUS
<1>1. Sound(d, Bytes) /\ d.decoded = dec
  BY RestsEmpty, Fields
<1>2. ASSUME NEW b \in Seq(Bytes)
      PROVE  ChunkedFeed(d, b) = RunTurns(Decoder(st, rem, b, dec))
  <2>1. More(d, b) = Decoder(st, rem, <<>> \o b, dec) /\ <<>> \o b = b
    <3>1. \A p, c : More(Decoder(st, rem, p, dec), c) = Decoder(st, rem, p \o c, dec)
      BY MoreIs
    <3> QED
      BY <3>1, NoTokens, Zenon
  <2> QED
    BY <2>1, Zenon DEF ChunkedFeed, More
<1>3. Tokens(w) \in Seq(Bytes)
  BY TokensJoin DEF Text
<1>4. ASSUME NEW i \in 0..(Len(w) - 1)
      PROVE  After(d, w, i) = RunTurns(Decoder(st, rem, SubSeq(Tokens(w), 1, i), dec))
  <2>1. Tokens(SubSeq(w, 1, i)) = SubSeq(Tokens(w), 1, i) /\ Len(Tokens(w)) = Len(w)
    BY TokensJoin, SMTT(30)
  <2>2. SubSeq(Tokens(w), 1, i) \in Seq(Bytes)
    BY <1>3, <2>1, CutWithin, i \in 0..Len(w)
  <2> QED
    BY <1>2, <2>1, <2>2, Zenon DEF After
<1> QED
  BY <1>1, <1>2, <1>3, <1>4, Zenon DEF Passes

LEMMA NoPair ==
  ASSUME NEW S, NEW s \in Seq(S), NEW a, NEW b, \A i \in 1..(Len(s) - 1) : s[i] # a
  PROVE  find_subslice(s, <<a, b>>) = 0
<1> PICK n : n = 0
  OBVIOUS
<1>1. n \in 0..Len(s) /\ n = 0
  OBVIOUS
<1>2. find_subslice(s, <<a, b>>) = n
  BY <1>1, PairPlace
<1> QED
  BY <1>1, <1>2

\* A size line, as far as it has come.
LEMMA SizeLinePrefix ==
  ASSUME NEW line \in Seq(Bytes), \A i \in 1..Len(line) : line[i] # "CR",
         NEW rem \in Nat, NEW dec \in Seq(Bytes), NEW i \in 0..(Len(line) + 1)
  PROVE  LET d == Decoder("ReadingSize", rem, SubSeq(line \o CRLF, 1, i), dec)
         IN  RunTurns(d) = d
<1> PICK w : w = line \o CRLF
  OBVIOUS
<1> PICK n \in Nat : n = Len(line)
  OBVIOUS
<1>1. /\ w \in Seq(Bytes) /\ Len(w) = n + 2 /\ w[n+1] = "CR" /\ w[n+2] = "LF"
      /\ \A k \in 1..n : w[k] # "CR"
  BY BytesAssumption, SMTT(30) DEF CRLF
<1>2. SubSeq(w, 1, i) \in Seq(Bytes) /\ Len(SubSeq(w, 1, i)) = i
      /\ \A k \in 1..i : SubSeq(w, 1, i)[k] = w[k]
  BY <1>1
<1> PICK p \in Seq(Bytes) : p = SubSeq(w, 1, i)
  BY <1>2
<1>3. find_subslice(p, <<"CR", "LF">>) = 0
  <2>1. Len(p) = i /\ 0 \in 0..Len(p)
    BY <1>2
  <2>2. \A k \in 1..(Len(p) - 1) : p[k] # "CR"
    <3>1. \A k \in 1..(Len(p) - 1) : k \in 1..n /\ k \in 1..i
      BY <2>1
    <3> QED
      BY <1>1, <1>2, <3>1
  <2> QED
    BY <2>2, NoPair
<1>4. Turn(Decoder("ReadingSize", rem, p, dec)) = Decoder("ReadingSize", rem, p, dec)
  BY <1>3, SizeTurn, ZenonT(30) DEF CRLF
<1>5. Sound(Decoder("ReadingSize", rem, p, dec), Bytes)
  BY SoundIs DEF States
<1> QED
  BY <1>4, <1>5, RunFixed

\* A size line, its end not included, that says n.
Says(line, n) ==
  /\ line \in Seq(Bytes) /\ \A i \in 1..Len(line) : line[i] # "CR"
  /\ n \in Nat /\ ParseSize(line) = n

LEMMA SizeLineWhole ==
  ASSUME NEW line, NEW n, Says(line, n), NEW rem \in Nat, NEW dec \in Seq(Bytes)
  PROVE  RunTurns(Decoder("ReadingSize", rem, line \o CRLF, dec)) =
           Decoder(BehindSize(n), n, <<>>, dec)
<1>0. line \in Seq(Bytes) /\ (\A i \in 1..Len(line) : line[i] # "CR") /\ n \in Nat /\ ParseSize(line) = n
  BY Zenon DEF Says
<1>b. PICK st : st = BehindSize(n)
  OBVIOUS
<1>w. PICK w : w = line \o CRLF
  OBVIOUS
<1> PICK m \in Nat : m = Len(line)
  BY <1>0
<1>1. /\ w \in Seq(Bytes) /\ Len(w) = m + 2 /\ w[m+1] = "CR" /\ w[m+2] = "LF"
      /\ \A k \in 1..m : w[k] # "CR"
      /\ SubSeq(w, 1, m) = line
  BY <1>0, <1>w, BytesAssumption, SMTT(30) DEF CRLF
<1>2. find_subslice(w, <<"CR", "LF">>) = m + 1
  <2> PICK p : p = m + 1
    OBVIOUS
  <2>1. p \in 0..Len(w) /\ p # 0 /\ p < Len(w) /\ w[p] = "CR" /\ w[p+1] = "LF"
    BY <1>1
  <2>2. \A k \in 1..(Len(w) - 1) : w[k] = "CR" => p <= k
    BY <1>1
  <2>3. w \in Seq(Bytes)
    BY <1>1
  <2>4. find_subslice(w, <<"CR", "LF">>) = p
    <3>1. \A k \in 1..(Len(w) - 1) : w[k] = "CR" /\ w[k+1] = "LF" => p # 0 /\ p <= k
      BY <2>1, <2>2
    <3> QED
      BY <2>1, <2>3, <3>1, PairPlace, Zenon
  <2> QED
    BY <2>4
<1>3. PICK p : /\ p = find_subslice(w, CRLF) /\ p # 0 /\ p - 1 = m
               /\ Drop(w, p + 1) = <<>>
  <2>1. Drop(w, (m + 1) + 1) = <<>>
    BY <1>1, EmptySeq DEF Drop
  <2> QED
    BY <1>2, <2>1 DEF CRLF
<1>s. st \in States /\ (st = "ReadingData" => n > 0)
  BY <1>0, <1>b DEF States, BehindSize
<1>4. Turn(Decoder("ReadingSize", rem, w, dec)) = Decoder(st, n, <<>>, dec)
  <2>1. ParseSize(SubSeq(w, 1, p - 1)) = n
    BY <1>0, <1>1, <1>3, Zenon
  <2>2. SizeAt(w, p, n) /\ w \in Seq(Bytes)
    BY <1>0, <1>1, <1>3, <2>1, Zenon DEF SizeAt
  <2>3. Turn(Decoder("ReadingSize", rem, w, dec)) = Decoder(BehindSize(n), n, Drop(w, p + 1), dec)
    BY <2>2, SizeTurnAt
  <2> QED
    BY <1>3, <1>b, <2>3, Zenon
<1>5. Sound(Decoder("ReadingSize", rem, w, dec), Bytes)
  BY <1>1, SoundIs DEF States
<1>6. RunTurns(Decoder(st, n, <<>>, dec)) = Decoder(st, n, <<>>, dec)
  BY <1>0, <1>s, RestsEmpty
<1> QED
  BY <1>4, <1>5, <1>6, <1>b, <1>w, RunsOut

LEMMA SizeLinePasses ==
  ASSUME NEW line, NEW n, Says(line, n), NEW rem \in Nat, NEW dec \in Seq(Bytes)
  PROVE  Passes(Decoder("ReadingSize", rem, <<>>, dec), Framing(line \o CRLF),
                Decoder(BehindSize(n), n, <<>>, dec))
<1>0. line \in Seq(Bytes) /\ (\A i \in 1..Len(line) : line[i] # "CR") /\ n \in Nat
  BY Zenon DEF Says
<1> PICK s : s = line \o CRLF
  OBVIOUS
<1>1. s \in Text /\ Len(s) = Len(line) + 2 /\ Len(line) \in Nat
  BY <1>0, BytesAssumption DEF CRLF, Text
<1> PICK w \in Seq(Mark) : w = Framing(s)
  BY <1>1, MarksOf
<1>2. Tokens(w) = s /\ Len(w) = Len(s)
  BY <1>1, MarksOf
<1> PICK e : e = Decoder(BehindSize(n), n, <<>>, dec)
  OBVIOUS
<1>3. Sound(e, Bytes) /\ e.decoded = dec
  <2>1. BehindSize(n) \in States /\ (BehindSize(n) = "ReadingData" => n > 0)
    BY <1>0 DEF States, BehindSize
  <2> QED
    BY <1>0, <2>1, RestsEmpty, Fields
<1>4. RunTurns(Decoder("ReadingSize", rem, Tokens(w), dec)) = e
  <2>1. RunTurns(Decoder("ReadingSize", rem, line \o CRLF, dec)) =
          Decoder(BehindSize(n), n, <<>>, dec)
    BY SizeLineWhole, ZenonT(30)
  <2> QED
    BY <1>2, <2>1, Zenon
<1>5. \A i \in 0..Len(s) : BodyIn(SubSeq(w, 1, i)) = <<>>
  BY <1>1, BodyOfMarks
<1>6. dec \o <<>> = dec /\ SubSeq(w, 1, Len(w)) = w
  BY NoTokens, WholePrefix
<1>7. e.decoded = dec \o BodyIn(w)
  BY <1>1, <1>2, <1>3, <1>5, <1>6, Len(s) \in 0..Len(s)
<1>8. ASSUME NEW i \in 0..(Len(w) - 1)
      PROVE  LET f == RunTurns(Decoder("ReadingSize", rem, SubSeq(Tokens(w), 1, i), dec))
             IN  /\ f.decoded = dec \o BodyIn(SubSeq(w, 1, i))
                 /\ f.state \notin {"Done", "Panicked"}
  <2>1. i \in 0..(Len(line) + 1) /\ i \in 0..Len(s)
    BY <1>1, <1>2
  <2>2. RunTurns(Decoder("ReadingSize", rem, SubSeq(s, 1, i), dec)) =
          Decoder("ReadingSize", rem, SubSeq(s, 1, i), dec)
    BY <1>0, <2>1, SizeLinePrefix, Zenon
  <2>3. BodyIn(SubSeq(w, 1, i)) = <<>>
    BY <1>5, <2>1
  <2> QED
    BY <1>2, <1>6, <2>2, <2>3, Fields
<1>9. "ReadingSize" \in States \ {"Done", "Panicked"}
  BY DEF States
<1> QED
  BY <1>3, <1>4, <1>7, <1>8, <1>9, PassesIf

LEMMA ContentPasses ==
  ASSUME NEW s \in Seq(Bytes), s # <<>>, NEW dec \in Seq(Bytes)
  PROVE  Passes(Decoder("ReadingData", Len(s), <<>>, dec), Content(s),
                Decoder("ReadingDataTrailer", 0, <<>>, dec \o s))
<1>0. s \in Text /\ dec \o s \in Seq(Bytes)
  BY DEF Text
<1> PICK n \in Nat : n = Len(s)
  OBVIOUS
<1>1. n > 0
  BY EmptySeq
<1> PICK w \in Seq(Mark) : w = Content(s)
  BY <1>0, MarksOf
<1>2. Tokens(w) = s /\ Len(w) = n
  BY <1>0, MarksOf
<1> PICK e : e = Decoder("ReadingDataTrailer", 0, <<>>, dec \o s)
  OBVIOUS
<1>3. Sound(e, Bytes) /\ e.decoded = dec \o s /\ RunTurns(e) = e
  <2>1. "ReadingDataTrailer" \in States
    BY DEF States
  <2>2. PICK c \in Seq(Bytes) : c = dec \o s
    BY <1>0
  <2>3. LET x == Decoder("ReadingDataTrailer", 0, <<>>, c)
        IN  Sound(x, Bytes) /\ x.decoded = c /\ RunTurns(x) = x
    BY <2>1, RestsEmpty, Fields
  <2> QED
    BY <2>2, <2>3, Zenon
<1>4. ASSUME NEW i \in 0..n
      PROVE  SubSeq(s, 1, i) \in Seq(Bytes) /\ Len(SubSeq(s, 1, i)) = i
  OBVIOUS
<1>5. ASSUME NEW p \in Seq(Bytes) PROVE Sound(Decoder("ReadingData", n, p, dec), Bytes)
  BY <1>1, SoundIs DEF States
<1>6. RunTurns(Decoder("ReadingData", n, s, dec)) = e
  <2>1. Drop(s, n) = <<>> /\ SubSeq(s, 1, n) = s
    BY EmptySeq DEF Drop
  <2>2. Turn(Decoder("ReadingData", n, s, dec)) = e
    <3>1. Len(s) >= n
      OBVIOUS
    <3>2. Turn(Decoder("ReadingData", n, s, dec)) =
            Decoder("ReadingDataTrailer", 0, Drop(s, n), dec \o SubSeq(s, 1, n))
      BY <3>1, DataTurn
    <3> QED
      BY <2>1, <3>2, Zenon
  <2>3. Sound(Decoder("ReadingData", n, s, dec), Bytes)
    BY <1>5
  <2> QED
    BY <1>3, <2>2, <2>3, RunsOut
<1>7. ASSUME NEW i \in 0..(n - 1)
      PROVE  RunTurns(Decoder("ReadingData", n, SubSeq(s, 1, i), dec)) =
               Decoder("ReadingData", n - i, <<>>, dec \o SubSeq(s, 1, i))
  <2>0. SubSeq(s, 1, i) \in Seq(Bytes) /\ Len(SubSeq(s, 1, i)) = i
    BY <1>4
  <2> PICK p \in Seq(Bytes) : p = SubSeq(s, 1, i)
    BY <2>0
  <2>1. Len(p) = i /\ Len(p) < n
    BY <2>0
  <2>2. Turn(Decoder("ReadingData", n, p, dec)) = Decoder("ReadingData", n - Len(p), <<>>, dec \o p)
    BY <2>1, DataTurn, ZenonT(30)
  <2>3. RunTurns(Decoder("ReadingData", n - i, <<>>, dec \o p)) =
          Decoder("ReadingData", n - i, <<>>, dec \o p)
    <3>1. n - i \in Nat /\ n - i > 0 /\ dec \o p \in Seq(Bytes) /\ "ReadingData" \in States
      BY DEF States
    <3> QED
      BY <3>1, RestsEmpty
  <2>4. Sound(Decoder("ReadingData", n, p, dec), Bytes)
    BY <1>5
  <2> QED
    BY <2>1, <2>2, <2>3, <2>4, RunsOut
<1>8. \A i \in 0..n : BodyIn(SubSeq(w, 1, i)) = SubSeq(s, 1, i)
  BY <1>0, BodyOfMarks
<1>9. e.decoded = dec \o BodyIn(w)
  <2>1. SubSeq(w, 1, n) = w /\ SubSeq(s, 1, n) = s
    BY <1>2, WholePrefix
  <2> QED
    BY <1>3, <1>8, <2>1, n \in 0..n
<1>10. ASSUME NEW i \in 0..(Len(w) - 1)
       PROVE  LET f == RunTurns(Decoder("ReadingData", n, SubSeq(Tokens(w), 1, i), dec))
              IN  /\ f.decoded = dec \o BodyIn(SubSeq(w, 1, i))
                  /\ f.state \notin {"Done", "Panicked"}
  <2>1. i \in 0..(n - 1) /\ i \in 0..n
    BY <1>2
  <2>2. RunTurns(Decoder("ReadingData", n, SubSeq(s, 1, i), dec)) =
          Decoder("ReadingData", n - i, <<>>, dec \o SubSeq(s, 1, i))
    BY <1>7, <2>1
  <2>3. BodyIn(SubSeq(w, 1, i)) = SubSeq(s, 1, i)
    BY <1>8, <2>1
  <2>4. PICK f : f = RunTurns(Decoder("ReadingData", n, SubSeq(s, 1, i), dec))
    OBVIOUS
  <2>5. f.decoded = dec \o SubSeq(s, 1, i) /\ f.state = "ReadingData"
    <3> PICK c, p : c = dec \o SubSeq(s, 1, i) /\ p = <<>>
      OBVIOUS
    <3>1. f = Decoder("ReadingData", n - i, p, c)
      BY <2>2, <2>4, Zenon
    <3>2. f.decoded = c /\ f.state = "ReadingData"
      BY <3>1 DEF Decoder
    <3> QED
      BY <3>2
  <2> QED
    BY <1>2, <2>3, <2>4, <2>5
<1>11. "ReadingData" \in States \ {"Done", "Panicked"}
  BY DEF States
<1> QED
  BY <1>1, <1>2, <1>3, <1>6, <1>9, <1>10, <1>11, PassesIf

LEMMA TrailerPasses ==
  ASSUME NEW dec \in Seq(Bytes)
  PROVE  Passes(Decoder("ReadingDataTrailer", 0, <<>>, dec), Framing(CRLF),
                Decoder("ReadingSize", 0, <<>>, dec))
<1>1. CRLF \in Text /\ Len(CRLF) = 2 /\ CRLF \in Seq(Bytes)
  BY BytesAssumption DEF CRLF, Text
<1> PICK w \in Seq(Mark) : w = Framing(CRLF)
  BY <1>1, MarksOf
<1>2. Tokens(w) = CRLF /\ Len(w) = 2
  BY <1>1, MarksOf
<1> PICK e : e = Decoder("ReadingSize", 0, <<>>, dec)
  OBVIOUS
<1>3. Sound(e, Bytes) /\ e.decoded = dec /\ RunTurns(e) = e
  <2>1. "ReadingSize" \in States
    BY DEF States
  <2> QED
    BY <2>1, RestsEmpty, Fields
<1>4. ASSUME NEW p \in Seq(Bytes) PROVE Sound(Decoder("ReadingDataTrailer", 0, p, dec), Bytes)
  BY SoundIs DEF States
<1>5. RunTurns(Decoder("ReadingDataTrailer", 0, CRLF, dec)) = e
  <2>1. Drop(CRLF, 2) = <<>> /\ ~ Len(CRLF) < 2
    BY <1>1, EmptySeq DEF Drop
  <2>2. Turn(Decoder("ReadingDataTrailer", 0, CRLF, dec)) = e
    BY <1>1, <2>1, TrailerTurn, Zenon
  <2>3. Sound(Decoder("ReadingDataTrailer", 0, CRLF, dec), Bytes)
    BY <1>1, <1>4
  <2> QED
    BY <1>3, <2>2, <2>3, RunsOut
<1>6. \A i \in 0..2 : BodyIn(SubSeq(w, 1, i)) = <<>>
  BY <1>1, BodyOfMarks
<1>7. dec \o <<>> = dec /\ SubSeq(w, 1, 2) = w
  BY <1>2, NoTokens, WholePrefix
<1>8. e.decoded = dec \o BodyIn(w)
  BY <1>3, <1>6, <1>7, 2 \in 0..2
<1>9. ASSUME NEW i \in 0..(Len(w) - 1)
      PROVE  LET f == RunTurns(Decoder("ReadingDataTrailer", 0, SubSeq(Tokens(w), 1, i), dec))
             IN  /\ f.decoded = dec \o BodyIn(SubSeq(w, 1, i))
                 /\ f.state \notin {"Done", "Panicked"}
  <2>1. i \in 0..2 /\ i < 2
    BY <1>2
  <2>2. SubSeq(CRLF, 1, i) \in Seq(Bytes) /\ Len(SubSeq(CRLF, 1, i)) = i
    <3>1. PICK c \in Seq(Bytes) : c = CRLF /\ Len(c) = 2
      BY <1>1
    <3>2. SubSeq(c, 1, i) \in Seq(Bytes) /\ Len(SubSeq(c, 1, i)) = i
      BY <2>1, <3>1, PrefixGrows, i \in 0..(Len(c) - 1)
    <3> QED
      BY <3>1, <3>2
  <2> PICK p \in Seq(Bytes) : p = SubSeq(CRLF, 1, i)
    BY <2>2
  <2>3. Turn(Decoder("ReadingDataTrailer", 0, p, dec)) = Decoder("ReadingDataTrailer", 0, p, dec)
    <3>1. Len(p) < 2
      BY <2>1, <2>2
    <3> QED
      BY <3>1, TrailerTurn, Zenon
  <2>4. RunTurns(Decoder("ReadingDataTrailer", 0, p, dec)) = Decoder("ReadingDataTrailer", 0, p, dec)
    BY <1>4, <2>3, RunFixed
  <2>5. BodyIn(SubSeq(w, 1, i)) = <<>>
    BY <1>6, <2>1
  <2> QED
    BY <1>2, <1>7, <2>4, <2>5, Fields
<1>10. "ReadingDataTrailer" \in States \ {"Done", "Panicked"}
  BY DEF States
<1> QED
  BY <1>2, <1>3, <1>5, <1>8, <1>9, <1>10, PassesIf

LEMMA SizeLineIs ==
  ASSUME NEW n \in Nat, NEW ext \in BOOLEAN,
         NEW line, line = SizeLine(n) \o (IF ext THEN <<"SEMI", "x">> ELSE <<>>)
  PROVE  /\ line \in Seq(Bytes) /\ \A i \in 1..Len(line) : line[i] # "CR"
         /\ ParseSize(line) = n
<1> PICK s : s = SizeLine(n)
  OBVIOUS
<1>1. Writes(s, n)
  BY SizeLineWrites
<1>2. s \in Seq(Digits) /\ Len(s) \in Nat /\ \A i \in 1..Len(s) : s[i] \in Digits
  BY <1>1, WritesIs
<1>3. s \in Seq(Bytes) /\ \A i \in 1..Len(s) : s[i] # "CR"
  <2>1. Digits \subseteq Bytes
    BY DigitsAre
  <2> QED
    BY <1>2, <2>1, DigitsAre
<1>4. CASE ext
  <2>1. line = s \o <<"SEMI", "x">>
    BY <1>4
  <2>2. <<"SEMI", "x">> \in Seq(Bytes)
    BY BytesAssumption
  <2>3. line \in Seq(Bytes) /\ \A i \in 1..Len(line) : line[i] # "CR"
    <3>1. PICK x \in Seq(Bytes) : x = <<"SEMI", "x">> /\ Len(x) = 2 /\ x[1] # "CR" /\ x[2] # "CR"
      BY <2>2
    <3>2. \A i \in 1..2 : x[i] # "CR"
      <4>1. \A i \in 1..2 : i = 1 \/ i = 2
        OBVIOUS
      <4> QED
        BY <3>1, <4>1
    <3>3. \A i \in 1..Len(s \o x) : \/ i \in 1..Len(s) /\ (s \o x)[i] = s[i]
                                    \/ i - Len(s) \in 1..2 /\ (s \o x)[i] = x[i - Len(s)]
      BY <1>3, <3>1
    <3>4. s \o x \in Seq(Bytes)
      BY <1>3
    <3> QED
      BY <1>3, <2>1, <3>1, <3>2, <3>3, <3>4
  <2>4. ParseSize(line) = n
    BY <1>1, <2>1, SizeRead
  <2> QED
    BY <2>3, <2>4
<1>5. CASE ~ ext
  <2>1. line = s
    BY <1>3, <1>5, NoTokens
  <2> QED
    BY <1>1, <1>3, <2>1, SizeRead
<1> QED
  BY <1>4, <1>5

LEMMA ChunkPasses ==
  ASSUME NEW s \in Seq(Bytes), s # <<>>, NEW ext \in BOOLEAN, NEW dec \in Seq(Bytes)
  PROVE  Passes(Decoder("ReadingSize", 0, <<>>, dec), Chunk(s, ext),
                Decoder("ReadingSize", 0, <<>>, dec \o s))
<1> PICK n \in Nat : n = Len(s)
  OBVIOUS
<1> PICK line : line = SizeLine(n) \o (IF ext THEN <<"SEMI", "x">> ELSE <<>>)
  OBVIOUS
<1>1. n > 0
  BY EmptySeq
<1>2. Chunk(s, ext) = Framing(line \o CRLF) \o Content(s) \o Framing(CRLF)
  BY Zenon DEF Chunk
<1>3. Passes(Decoder("ReadingSize", 0, <<>>, dec), Framing(line \o CRLF),
             Decoder("ReadingData", n, <<>>, dec))
  <2>0. line \in Seq(Bytes) /\ (\A i \in 1..Len(line) : line[i] # "CR") /\ ParseSize(line) = n
    BY SizeLineIs
  <2>1. Says(line, n)
    BY <1>1, <2>0 DEF Says
  <2>2. Passes(Decoder("ReadingSize", 0, <<>>, dec), Framing(line \o CRLF),
               Decoder(BehindSize(n), n, <<>>, dec))
    BY <2>1, SizeLinePasses
  <2>3. BehindSize(n) = "ReadingData"
    BY <1>1 DEF BehindSize
  <2> QED
    BY <2>2, <2>3, Zenon
<1>4. Passes(Decoder("ReadingData", n, <<>>, dec), Content(s),
             Decoder("ReadingDataTrailer", 0, <<>>, dec \o s))
  BY ContentPasses
<1>5. Passes(Decoder("ReadingDataTrailer", 0, <<>>, dec \o s), Framing(CRLF),
             Decoder("ReadingSize", 0, <<>>, dec \o s))
  <2>1. PICK c \in Seq(Bytes) : c = dec \o s
    <3>1. dec \o s \in Seq(Bytes)
      OBVIOUS
    <3> QED
      BY <3>1, Zenon
  <2>2. Passes(Decoder("ReadingDataTrailer", 0, <<>>, c), Framing(CRLF),
               Decoder("ReadingSize", 0, <<>>, c))
    BY TrailerPasses
  <2> QED
    BY <2>1, <2>2, Zenon
<1>6. Passes(Decoder("ReadingSize", 0, <<>>, dec), Framing(line \o CRLF) \o Content(s),
             Decoder("ReadingDataTrailer", 0, <<>>, dec \o s))
  BY <1>3, <1>4, PassesOn, Zenon
<1>7. Passes(Decoder("ReadingSize", 0, <<>>, dec), Framing(line \o CRLF) \o Content(s) \o Framing(CRLF),
             Decoder("ReadingSize", 0, <<>>, dec \o s))
  BY <1>5, <1>6, PassesOn, Zenon
<1> QED
  BY <1>2, <1>7, Zenon

-----------------------------------------------------------------------------
(* The body of a response, in events and in chunks *)

LEMMA EventTyped ==
  ASSUME NEW p \in Text
  PROVE  EventBytes(p) \in Text /\ Len(EventBytes(p)) = Len(p) + 3
<1> PICK x \in Bytes, y \in Bytes : x = "DATA" /\ y = "LF"
  BY BytesAssumption
<1>1. <<x>> \in Seq(Bytes) /\ Len(<<x>>) = 1 /\ <<y, y>> \in Seq(Bytes) /\ Len(<<y, y>>) = 2
  OBVIOUS
<1>2. p \in Seq(Bytes) /\ Len(p) \in Nat
  BY DEF Text
<1>3. <<x>> \o p \in Seq(Bytes) /\ Len(<<x>> \o p) = Len(p) + 1
  BY <1>1, <1>2
<1>4. (<<x>> \o p) \o <<y, y>> \in Seq(Bytes) /\ Len((<<x>> \o p) \o <<y, y>>) = Len(p) + 3
  BY <1>1, <1>2, <1>3
<1>5. EventBytes(p) = (<<x>> \o p) \o <<y, y>>
  BY DEF EventBytes, BlankLine
<1> QED
  BY <1>4, <1>5 DEF Text

LEMMA ResponseTyped ==
  ASSUME NEW r \in Responses
  PROVE  /\ Payloads(r) \in Seq(Text) /\ Len(Payloads(r)) = Len(r.events) + 1 /\ Len(r.events) \in Nat
         /\ Body(r) \in Text
         /\ r.rest \in Text /\ r.ext \in BOOLEAN
<1>1. r.events \in Seq(Text) /\ r.rest \in Text /\ r.ext \in BOOLEAN
  BY ResponsesAssumption DEF Text
<1>2. <<"DONE">> \in Text
  BY BytesAssumption DEF Text
<1> PICK T : T = Text
  OBVIOUS
<1>3. /\ Payloads(r) \in Seq(T) /\ Len(Payloads(r)) = Len(r.events) + 1 /\ Len(r.events) \in Nat
  <2>1. PICK d \in T : d = <<"DONE">>
    BY <1>2
  <2>2. PICK e \in Seq(T) : e = r.events
    BY <1>1
  <2>3. Append(e, d) \in Seq(T) /\ Len(Append(e, d)) = Len(e) + 1 /\ Len(e) \in Nat
    OBVIOUS
  <2> QED
    BY <2>1, <2>2, <2>3 DEF Payloads
<1>4. [k \in 1..Len(Payloads(r)) |-> EventBytes(Payloads(r)[k])] \in Seq(T)
  <2>1. \A p \in T : EventBytes(p) \in T
    BY EventTyped
  <2>2. PICK p \in Seq(T) : p = Payloads(r)
    BY <1>3
  <2>3. \A k \in 1..Len(p) : EventBytes(p[k]) \in T
    BY <2>1
  <2>4. Len(p) \in Nat
    OBVIOUS
  <2> QED
    BY <2>2, <2>3, <2>4
<1>5. Body(r) \in Seq(Bytes)
  BY <1>4, FlatTyped DEF Body, Parts, Text
<1> QED
  BY <1>1, <1>3, <1>5 DEF Text

LEMMA EndsWithin ==
  ASSUME NEW r \in Responses
  PROVE  /\ Len(r.ends) \in Nat \ {0}
         /\ \A k \in 1..Len(r.ends) :
              ChunkStart(r, k) \in Nat /\ r.ends[k] \in Nat
              /\ ChunkStart(r, k) < r.ends[k] /\ r.ends[k] <= Len(Body(r))
         /\ r.ends[Len(r.ends)] = Len(Body(r))
<1> PICK e \in Seq(Nat) : e = r.ends
  BY ResponsesAssumption
<1> PICK n \in Nat : n = Len(e)
  OBVIOUS
<1> PICK size : size = Len(Body(r))
  OBVIOUS
<1>1. n > 0 /\ e[n] = size /\ \A k \in 1..n : ChunkStart(r, k) < e[k]
  BY ResponsesAssumption
<1>2. \A k \in 1..n : ChunkStart(r, k) = IF k = 1 THEN 0 ELSE e[k-1]
  BY DEF ChunkStart
<1>3. \A k \in 1..n : e[k] \in Nat
  OBVIOUS
<1>4. size \in Nat
  BY <1>1, <1>3, n \in 1..n
<1> DEFINE P == {k \in 0..(n-1) : e[n - k] <= size}
<1>5. 0 \in P
  BY <1>1, <1>4
<1>6. ASSUME NEW k \in 0..((n-1)-1), k \in P PROVE k+1 \in P
  <2>1. n - k \in 1..n /\ n - k # 1 /\ n - (k+1) \in 1..n /\ (n - k) - 1 = n - (k+1) /\ k+1 \in 0..(n-1)
    OBVIOUS
  <2>2. e[n - (k+1)] < e[n - k]
    BY <1>1, <1>2, <2>1
  <2>3. e[n - k] <= size
    BY <1>6
  <2>4. e[n - k] \in Nat /\ e[n - (k+1)] \in Nat
    BY <1>3, <2>1
  <2>5. e[n - (k+1)] <= size
    <3>1. PICK x \in Nat, y \in Nat : x = e[n - (k+1)] /\ y = e[n - k]
      BY <2>4
    <3>2. x < y /\ y <= size
      BY <2>2, <2>3, <3>1
    <3>3. x <= size
      BY <1>4, <3>2
    <3> QED
      BY <3>1, <3>3
  <2> QED
    BY <2>1, <2>5
<1>7. \A k \in 0..(n-1) : k \in P
  <2>1. n-1 \in Nat
    BY <1>1
  <2> HIDE DEF P
  <2> QED
    BY <1>5, <1>6, <2>1, IntervalInduction
<1>8. \A k \in 1..n : e[k] <= size
  <2>1. \A k \in 1..n : n - k \in 0..(n-1) /\ n - (n - k) = k
    OBVIOUS
  <2> QED
    BY <1>7, <2>1
<1>9. \A k \in 1..n : ChunkStart(r, k) \in Nat
  <2>1. \A k \in 1..n : k = 1 \/ k-1 \in 1..n
    OBVIOUS
  <2> QED
    BY <1>2, <1>3, <2>1, SMTT(30)
<1> QED
  BY <1>1, <1>3, <1>8, <1>9

LEMMA CutJoins ==
  ASSUME NEW S, NEW s \in Seq(S), NEW a \in Nat, NEW b \in Nat, a <= b, b <= Len(s)
  PROVE  /\ SubSeq(s, a+1, b) \in Seq(S) /\ Len(SubSeq(s, a+1, b)) = b - a
         /\ SubSeq(s, 1, a) \o SubSeq(s, a+1, b) = SubSeq(s, 1, b)
OBVIOUS

ChunkOf(r, k) == Chunk(SubSeq(Body(r), ChunkStart(r, k) + 1, r.ends[k]), r.ext)
Chunks(r) == [k \in 1..Len(r.ends) |-> ChunkOf(r, k)]

\* The chunks lead the decoder through the body.
LEMMA ChunksPass ==
  ASSUME NEW r \in Responses
  PROVE  /\ FlattenSeq(Chunks(r)) \in Seq(Mark)
         /\ Passes(NewDecoder, FlattenSeq(Chunks(r)), Decoder("ReadingSize", 0, <<>>, Body(r)))
<1> PICK n \in Nat \ {0} : n = Len(r.ends)
  BY EndsWithin
<1> PICK body \in Seq(Bytes) : body = Body(r)
  BY ResponseTyped DEF Text
<1> PICK e : e = r.ends
  OBVIOUS
<1> DEFINE start(k) == ChunkStart(r, k)
           to(k) == Decoder("ReadingSize", 0, <<>>, SubSeq(body, 1, start(k)))
           part(k) == SubSeq(body, start(k) + 1, e[k])
<1> PICK T : T = Seq(Mark)
  OBVIOUS
<1>1. Parts(T, Mark)
  BY DEF Parts
<1>2. \A k \in 1..n : start(k) \in Nat /\ e[k] \in Nat /\ start(k) < e[k] /\ e[k] <= Len(body)
  BY EndsWithin
<1>3. start(1) = 0 /\ \A k \in 1..n : start(k+1) = e[k]
  BY DEF ChunkStart
<1> HIDE DEF start
<1>4. ASSUME NEW k \in 1..n, NEW dec \in Seq(Bytes)
      PROVE  Passes(Decoder("ReadingSize", 0, <<>>, dec), ChunkOf(r, k),
                    Decoder("ReadingSize", 0, <<>>, dec \o part(k)))
  <2>1. part(k) \in Seq(Bytes) /\ Len(part(k)) # 0
    <3>1. start(k) \in Nat /\ e[k] \in Nat /\ start(k) < e[k] /\ e[k] <= Len(body)
      BY <1>2
    <3>2. SubSeq(body, start(k)+1, e[k]) \in Seq(Bytes) /\ Len(SubSeq(body, start(k)+1, e[k])) = e[k] - start(k)
      BY <3>1, CutJoins
    <3> QED
      BY <3>1, <3>2
  <2>2. PICK s \in Seq(Bytes) : s = part(k) /\ s # <<>>
    <3>1. Len(<<>>) = 0
      OBVIOUS
    <3> HIDE DEF part
    <3> QED
      BY <2>1, <3>1, Zenon
  <2>3. ChunkOf(r, k) = Chunk(s, r.ext)
    BY <2>2 DEF ChunkOf, start
  <2>4. Passes(Decoder("ReadingSize", 0, <<>>, dec), Chunk(s, r.ext),
               Decoder("ReadingSize", 0, <<>>, dec \o s))
    BY <2>2, ChunkPasses, ResponseTyped
  <2> QED
    BY <2>2, <2>3, <2>4, Zenon
<1>5. \A k \in 1..n : ChunkOf(r, k) \in T
  <2>1. <<>> \in Seq(Bytes)
    OBVIOUS
  <2> QED
    BY <1>4, <2>1, Zenon DEF Passes
<1> PICK c : c = Chunks(r)
  OBVIOUS
<1>6. c \in Seq(T) /\ Len(c) = n /\ \A k \in 1..n : c[k] = ChunkOf(r, k)
  BY <1>5 DEF Chunks
<1> DEFINE P == {k \in 0..n : Passes(NewDecoder, FlattenSeq(SubSeq(c, 1, k)), to(k+1))}
<1>7. 0 \in P
  <2>1. SubSeq(c, 1, 0) = <<>> /\ SubSeq(body, 1, 0) = <<>>
    BY <1>6, WholePrefix
  <2>2. to(0+1) = NewDecoder
    <3>1. 0+1 = 1
      OBVIOUS
    <3> QED
      BY <1>3, <2>1, <3>1, Zenon DEF NewDecoder
  <2>3. Passes(NewDecoder, <<>>, NewDecoder)
    <3>1. "ReadingSize" \in States /\ <<>> \in Seq(Bytes)
      BY NoTokens DEF States
    <3> QED
      BY <3>1, PassesNone DEF NewDecoder
  <2> HIDE DEF to
  <2>4. Passes(NewDecoder, FlattenSeq(SubSeq(c, 1, 0)), to(0+1))
    BY <2>1, <2>2, <2>3, FlatEmpty, Zenon
  <2> QED
    BY <2>4, 0 \in 0..n
<1>8. ASSUME NEW k \in 0..(n-1), k \in P PROVE k+1 \in P
  <2>1. k+1 \in 1..n /\ k+1 \in 0..n
    OBVIOUS
  <2>2. PICK u \in Seq(T), x \in T : u = SubSeq(c, 1, k) /\ x = c[k+1]
    BY <1>6, PrefixGrows
  <2>3. SubSeq(c, 1, k+1) = Append(u, x)
    BY <1>6, <2>2, PrefixGrows
  <2>4. FlattenSeq(Append(u, x)) = FlattenSeq(u) \o x
    BY <1>1, FlatAppend
  <2>5. PICK j \in 1..n : j = k+1
    BY <2>1
  <2>6. start(j) \in Nat /\ e[j] \in Nat /\ start(j) <= e[j] /\ e[j] <= Len(body) /\ start(j+1) = e[j]
    BY <1>2, <1>3
  <2>7. SubSeq(body, 1, start(j)) \in Seq(Bytes)
    <3>1. start(j) \in 0..Len(body)
      BY <2>6
    <3> QED
      BY <3>1
  <2>8. SubSeq(body, 1, start(j)) \o part(j) = SubSeq(body, 1, start(j+1))
    <3>1. PICK a \in Nat, b \in Nat : a = start(j) /\ b = e[j]
      BY <2>6
    <3>2. a <= b /\ b <= Len(body)
      BY <2>6, <3>1
    <3>3. SubSeq(body, 1, a) \o SubSeq(body, a+1, b) = SubSeq(body, 1, b)
      BY <3>2, CutJoins
    <3> QED
      BY <2>6, <3>1, <3>3, Zenon
  <2>9. Passes(to(j), x, to(j+1))
    <3>1. Passes(to(j), ChunkOf(r, j), Decoder("ReadingSize", 0, <<>>, SubSeq(body, 1, start(j)) \o part(j)))
      BY <1>4, <2>7
    <3>2. x = ChunkOf(r, j)
      BY <1>6, <2>2, <2>5
    <3> HIDE DEF part
    <3> QED
      BY <2>8, <3>1, <3>2, Zenon
  <2>10. Passes(NewDecoder, FlattenSeq(u), to(j))
    BY <1>8, <2>2, <2>5
  <2>11. Passes(NewDecoder, FlattenSeq(u) \o x, to(j+1))
    BY <2>9, <2>10, PassesOn, Zenon
  <2> HIDE DEF to
  <2>12. Passes(NewDecoder, FlattenSeq(SubSeq(c, 1, k+1)), to((k+1)+1))
    BY <2>3, <2>4, <2>5, <2>11, Zenon
  <2> QED
    BY <2>1, <2>12
<1>9. n \in P
  <2> HIDE DEF P
  <2> QED
    BY <1>7, <1>8, IntervalInduction, n \in 0..n
<1>10. Passes(NewDecoder, FlattenSeq(SubSeq(c, 1, n)), to(n+1))
  BY <1>9
<1>11. SubSeq(c, 1, n) = c
  BY <1>6, WholePrefix
<1>12. to(n+1) = Decoder("ReadingSize", 0, <<>>, body)
  <2>1. start(n+1) = Len(body)
    BY <1>3, EndsWithin, n \in 1..n
  <2>2. SubSeq(body, 1, Len(body)) = body
    BY WholePrefix
  <2> QED
    BY <2>1, <2>2
<1>13. Passes(NewDecoder, FlattenSeq(c), Decoder("ReadingSize", 0, <<>>, body))
  <2> HIDE DEF to
  <2> QED
    BY <1>10, <1>11, <1>12, Zenon
<1>14. FlattenSeq(c) \in Seq(Mark)
  BY <1>13 DEF Passes
<1> QED
  BY <1>13, <1>14, Zenon

\* The chunks and the last one, of size zero.
Opening(r) == FlattenSeq(Chunks(r)) \o Framing(<<"0">> \o CRLF)

LEMMA HeadPasses ==
  ASSUME NEW r \in Responses
  PROVE  /\ Opening(r) \in Seq(Mark)
         /\ Passes(NewDecoder, Opening(r), Decoder("Done", 0, <<>>, Body(r)))
<1> PICK body \in Seq(Bytes) : body = Body(r)
  BY ResponseTyped DEF Text
<1>1. Passes(NewDecoder, FlattenSeq(Chunks(r)), Decoder("ReadingSize", 0, <<>>, body))
  BY ChunksPass
<1>2. Passes(Decoder("ReadingSize", 0, <<>>, body), Framing(<<"0">> \o CRLF),
             Decoder("Done", 0, <<>>, body))
  <2>1. PICK z \in Digits : z = "0"
    BY DigitsAre, RadixAssumption, 1 \in 1..Base DEF Digits, DigitToken
  <2>2. Writes(<<z>>, 0)
    <3>1. 0 \in 0..(Base-1) /\ DigitToken[0+1] = "0"
      BY RadixAssumption DEF DigitToken
    <3> QED
      BY <2>1, <3>1, OneDigit
  <2>3. <<z>> \in Seq(Bytes) /\ \A i \in 1..Len(<<z>>) : <<z>>[i] # "CR"
    <3>1. z \in Bytes /\ z # "CR"
      BY DigitsAre
    <3> QED
      BY <3>1
  <2>4. ParseSize(<<z>>) = 0
    BY <2>2, SizeRead
  <2>5. PICK line \in Seq(Bytes) : line = <<z>> /\ \A i \in 1..Len(line) : line[i] # "CR"
    BY <2>3
  <2>6. Passes(Decoder("ReadingSize", 0, <<>>, body), Framing(line \o CRLF),
               Decoder(BehindSize(0), 0, <<>>, body))
    <3>1. Says(line, 0)
      BY <2>4, <2>5 DEF Says
    <3> QED
      BY <3>1, SizeLinePasses
  <2>7. BehindSize(0) = "Done"
    BY DEF BehindSize
  <2> QED
    BY <2>1, <2>5, <2>6, <2>7, Zenon
<1>3. Passes(NewDecoder, Opening(r), Decoder("Done", 0, <<>>, body))
  BY <1>1, <1>2, PassesOn, Zenon DEF Opening
<1>4. Opening(r) \in Seq(Mark)
  BY <1>3, Zenon DEF Passes
<1> QED
  BY <1>3, <1>4, Zenon

LEMMA DoneStays ==
  ASSUME NEW dec \in Seq(Bytes), NEW b \in Seq(Bytes)
  PROVE  ChunkedFeed(Decoder("Done", 0, <<>>, dec), b) = Decoder("Done", 0, b, dec)
<1>1. ChunkedFeed(Decoder("Done", 0, <<>>, dec), b) = RunTurns(Decoder("Done", 0, b, dec))
  <2>1. \A p, c : More(Decoder("Done", 0, p, dec), c) = Decoder("Done", 0, p \o c, dec)
    BY MoreIs
  <2>2. <<>> \o b = b
    BY NoTokens
  <2> QED
    BY <2>1, <2>2, Zenon DEF ChunkedFeed, More
<1>2. Sound(Decoder("Done", 0, b, dec), Bytes)
  BY SoundIs DEF States
<1>3. Turn(Decoder("Done", 0, b, dec)) = Decoder("Done", 0, b, dec)
  BY TurnOf
<1> QED
  BY <1>1, <1>2, <1>3, RunFixed

LEMMA BehindLineEnd ==
  ASSUME NEW b \in Seq(Bytes)
  PROVE  CRLF \o b \in Seq(Bytes) /\ Len(CRLF \o b) = Len(b) + 2 /\ Len(b) \in Nat
<1>1. "CR" \in Bytes /\ "LF" \in Bytes
  BY BytesAssumption
<1>2. CRLF \in Seq(Bytes) /\ Len(CRLF) = 2
  BY <1>1 DEF CRLF
<1>3. \A a \in Seq(Bytes) : a \o b \in Seq(Bytes) /\ Len(a \o b) = Len(b) + Len(a) /\ Len(b) \in Nat
  OBVIOUS
<1>4. CRLF \o b \in Seq(Bytes) /\ Len(CRLF \o b) = Len(b) + Len(CRLF) /\ Len(b) \in Nat
  BY <1>2, <1>3, Zenon
<1> QED
  BY <1>2, <1>4

\* Of a response that has come so far, the decoder has handed on exactly the body.
LEMMA DecodesTheBody ==
  ASSUME NEW r \in Responses, NEW w, w = encode_chunked_sse(r), NEW i \in 0..Len(w)
  PROVE  /\ w \in Seq(Mark)
         /\ Sound(After(NewDecoder, w, i), Bytes)
         /\ After(NewDecoder, w, i).decoded = BodyIn(SubSeq(w, 1, i))
         /\ After(NewDecoder, w, i).state # "Panicked"
         /\ i >= Len(w) - Len(r.rest) => After(NewDecoder, w, i).state = "Done"
         /\ After(NewDecoder, w, i).state = "Done" => BodyIn(SubSeq(w, 1, i)) = Body(r)
         /\ BodyIn(w) = Body(r)
<1> PICK body \in Seq(Bytes) : body = Body(r)
  BY ResponseTyped DEF Text
<1> PICK h \in Seq(Mark) : h = Opening(r)
  BY HeadPasses
<1> PICK tail \in Seq(Bytes) : tail = CRLF \o r.rest /\ Len(tail) = Len(r.rest) + 2 /\ Len(r.rest) \in Nat
  <2>1. r.rest \in Seq(Bytes)
    BY ResponseTyped DEF Text
  <2> QED
    BY <2>1, BehindLineEnd, Zenon
<1>0. tail \in Text
  BY DEF Text
<1> PICK z \in Seq(Mark) : z = Framing(tail)
  BY <1>0, MarksOf
<1>1. Len(z) = Len(tail) /\ Len(h) \in Nat /\ Len(z) \in Nat
  <2>1. Len(z) = Len(tail)
    BY <1>0, MarksOf
  <2>2. Len(h) \in Nat /\ Len(z) \in Nat
    OBVIOUS
  <2> QED
    BY <2>1, <2>2
<1>2. w = h \o z
  BY Zenon DEF encode_chunked_sse, Opening, Chunks, ChunkOf
<1>3. w \in Seq(Mark) /\ Len(w) = Len(h) + Len(z)
  BY <1>2
<1> PICK e : e = Decoder("Done", 0, <<>>, body)
  OBVIOUS
<1>4. Passes(NewDecoder, h, e)
  BY HeadPasses
<1>5. NewDecoder.decoded = <<>> /\ e.decoded = body /\ Sound(NewDecoder, Bytes)
  <2>1. Sound(NewDecoder, Bytes)
    BY <1>4, Zenon DEF Passes
  <2> QED
    BY <2>1, Fields DEF NewDecoder
<1>6. BodyIn(h) = body
  <2>1. e.decoded = NewDecoder.decoded \o BodyIn(h)
    BY <1>4, Zenon DEF Passes
  <2>2. <<>> \o BodyIn(h) = BodyIn(h)
    BY BodyTyped, NoTokens DEF Text
  <2> QED
    BY <1>5, <2>1, <2>2, Zenon
<1>7. ASSUME NEW j \in 0..Len(z)
      PROVE  /\ SubSeq(z, 1, j) \in Seq(Mark)
             /\ BodyIn(h \o SubSeq(z, 1, j)) = body
             /\ ChunkedFeed(NewDecoder, Tokens(h \o SubSeq(z, 1, j))) =
                  Decoder("Done", 0, Tokens(SubSeq(z, 1, j)), body)
  <2>0. SubSeq(z, 1, j) \in Seq(Mark)
    OBVIOUS
  <2>1. PICK x \in Seq(Mark) : x = SubSeq(z, 1, j)
    BY <2>0, Zenon
  <2>2. BodyIn(x) = <<>>
    BY <1>0, <1>1, <2>1, BodyOfMarks
  <2>3. BodyIn(h \o x) = body
    <3>1. BodyIn(h \o x) = BodyIn(h) \o BodyIn(x)
      BY BodyJoin
    <3>2. body \o <<>> = body
      BY NoTokens
    <3> QED
      BY <1>6, <2>2, <3>1, <3>2, Zenon
  <2>4. /\ Tokens(h) \in Seq(Bytes) /\ Tokens(x) \in Seq(Bytes)
        /\ Tokens(h \o x) = Tokens(h) \o Tokens(x)
    BY TokensJoin DEF Text
  <2>5. ChunkedFeed(NewDecoder, Tokens(h) \o Tokens(x)) = ChunkedFeed(ChunkedFeed(NewDecoder, Tokens(h)), Tokens(x))
    BY <1>5, <2>4, FeedsJoin
  <2>6. ChunkedFeed(NewDecoder, Tokens(h)) = e
    BY <1>4, Zenon DEF Passes
  <2>7. ChunkedFeed(e, Tokens(x)) = Decoder("Done", 0, Tokens(x), body)
    BY <2>4, DoneStays
  <2> QED
    BY <2>0, <2>1, <2>3, <2>4, <2>5, <2>6, <2>7, Zenon
<1>8. BodyIn(w) = Body(r)
  <2>1. SubSeq(z, 1, Len(z)) = z /\ Len(z) \in 0..Len(z)
    BY <1>1, WholePrefix
  <2> QED
    BY <1>2, <1>7, <2>1
<1>9. Sound(After(NewDecoder, w, i), Bytes)
  <2>1. SubSeq(w, 1, i) \in Seq(Mark)
    BY <1>3
  <2>2. Tokens(SubSeq(w, 1, i)) \in Seq(Bytes)
    BY <2>1, TokensJoin DEF Text
  <2> QED
    BY <1>5, <2>2, FeedsJoin DEF After
<1>10. CASE i < Len(h)
  <2>1. i \in 0..Len(h) /\ i \in 0..(Len(h) - 1) /\ ~ i >= Len(w) - Len(r.rest)
    BY <1>1, <1>3, <1>10
  <2>2. SubSeq(w, 1, i) = SubSeq(h, 1, i)
    BY <1>2, <2>1, CutWithin
  <2>3. After(NewDecoder, w, i) = After(NewDecoder, h, i)
    BY <2>2, Zenon DEF After
  <2>4. /\ After(NewDecoder, h, i).decoded = <<>> \o BodyIn(SubSeq(h, 1, i))
        /\ After(NewDecoder, h, i).state \notin {"Done", "Panicked"}
    BY <1>4, <1>5, <2>1, Zenon DEF Passes
  <2>5. <<>> \o BodyIn(SubSeq(h, 1, i)) = BodyIn(SubSeq(h, 1, i))
    <3>1. SubSeq(h, 1, i) \in Seq(Mark)
      BY <2>1
    <3> QED
      BY <3>1, BodyTyped, NoTokens DEF Text
  <2> QED
    BY <1>3, <1>8, <1>9, <2>1, <2>2, <2>3, <2>4, <2>5, Zenon
<1>11. CASE ~ i < Len(h)
  <2>1. i \in Len(h)..(Len(h) + Len(z)) /\ i - Len(h) \in 0..Len(z)
    BY <1>1, <1>3, <1>11
  <2>2. PICK j \in 0..Len(z) : j = i - Len(h)
    BY <2>1
  <2>3. SubSeq(w, 1, i) = h \o SubSeq(z, 1, j)
    BY <1>2, <2>1, <2>2, CutPast
  <2>4. After(NewDecoder, w, i) = Decoder("Done", 0, Tokens(SubSeq(z, 1, j)), body)
    BY <1>7, <2>3, Zenon DEF After
  <2>5. BodyIn(SubSeq(w, 1, i)) = body
    BY <1>7, <2>3, Zenon
  <2>6. After(NewDecoder, w, i).decoded = body /\ After(NewDecoder, w, i).state = "Done"
    BY <2>4, Fields
  <2>7. "Done" # "Panicked"
    OBVIOUS
  <2> QED
    BY <1>3, <1>8, <1>9, <2>5, <2>6, <2>7, Zenon
<1> QED
  BY <1>10, <1>11

-----------------------------------------------------------------------------
(* The SSE layer's turns and loop *)

Readers == [buf : Seq(Bytes), done : BOOLEAN, events : Seq(Text)]
Reader(buf, done, events) == [buf |-> buf, done |-> done, events |-> events]

Boundary(buf) == find_subslice(buf, BlankLine)
PayloadAt(buf) == strip_data_prefix(SubSeq(buf, 1, Boundary(buf) - 1))

\* What the caller hears of a payload.
Heard(payload) == IF payload \in {<<>>, <<"DONE">>} THEN <<>> ELSE <<payload>>

LEMMA ReaderFields ==
  ASSUME NEW b, NEW d, NEW e
  PROVE  Reader(b, d, e).buf = b /\ Reader(b, d, e).done = d /\ Reader(b, d, e).events = e
BY DEF Reader

LEMMA ReaderTyped ==
  ASSUME NEW b \in Seq(Bytes), NEW d \in BOOLEAN, NEW e \in Seq(Text)
  PROVE  Reader(b, d, e) \in Readers
<1> PICK B, E : B = Seq(Bytes) /\ E = Seq(Text)
  OBVIOUS
<1> QED
  BY DEF Reader, Readers

LEMMA ReaderIs ==
  ASSUME NEW r \in Readers
  PROVE  /\ r = Reader(r.buf, r.done, r.events)
         /\ r.buf \in Seq(Bytes) /\ r.done \in BOOLEAN /\ r.events \in Seq(Text)
<1> PICK B, E : B = Seq(Bytes) /\ E = Seq(Text)
  OBVIOUS
<1>1. r.buf \in B /\ r.done \in BOOLEAN /\ r.events \in E
  BY DEF Readers
<1>2. r = Reader(r.buf, r.done, r.events)
  BY DEF Reader, Readers
<1> QED
  BY <1>1, <1>2

LEMMA NoEvents == <<>> \in Seq(Text) /\ \A E \in Seq(Text) : E \o <<>> = E /\ <<>> \o E = E
<1> PICK T : T = Text
  OBVIOUS
<1>1. <<>> \in Seq(T) /\ \A E \in Seq(T) : E \o <<>> = E /\ <<>> \o E = E
  OBVIOUS
<1> QED
  BY <1>1, Zenon

LEMMA EventsJoin ==
  ASSUME NEW a \in Seq(Text), NEW b \in Seq(Text), NEW c \in Seq(Text)
  PROVE  a \o b \in Seq(Text) /\ (a \o b) \o c = a \o (b \o c)
<1> PICK T : T = Text
  OBVIOUS
<1>1. \A x, y \in Seq(T) : x \o y \in Seq(T)
  OBVIOUS
<1>2. \A x, y, z \in Seq(T) : (x \o y) \o z = x \o (y \o z)
  BY SMTT(30)
<1> QED
  BY <1>1, <1>2, SMTT(30)

LEMMA BoundaryIs ==
  ASSUME NEW s \in Seq(Bytes), NEW b \in Seq(Bytes)
  PROVE  /\ Boundary(s) \in Nat
         /\ Boundary(s) # 0 => Boundary(s) + 1 \in 0..Len(s) /\ Boundary(s) - 1 \in 0..Len(s)
                               /\ Boundary(s \o b) = Boundary(s)
<1>1. Len(BlankLine) = 2
  BY DEF BlankLine
<1> PICK p : p = Boundary(s)
  OBVIOUS
<1>2. /\ p \in Nat
      /\ p # 0 => p + 1 <= Len(s) /\ Boundary(s \o b) = p
  BY <1>1, FirstPlace DEF Boundary
<1>3. Len(s) \in Nat
  OBVIOUS
<1>4. p # 0 => p + 1 \in 0..Len(s) /\ p - 1 \in 0..Len(s)
  BY <1>2, <1>3
<1> QED
  BY <1>2, <1>4

LEMMA PayloadTyped ==
  ASSUME NEW s \in Seq(Bytes), Boundary(s) # 0
  PROVE  PayloadAt(s) \in Text
<1> PICK n \in 0..Len(s) : n = Boundary(s) - 1
  BY BoundaryIs
<1>1. SubSeq(s, 1, n) \in Seq(Bytes)
  OBVIOUS
<1> PICK x \in Seq(Bytes) : x = SubSeq(s, 1, n)
  BY <1>1, Zenon
<1>2. x # <<>> => Tail(x) \in Seq(Bytes)
  OBVIOUS
<1>3. PayloadAt(s) = IF x # <<>> /\ x[1] = "DATA" THEN Tail(x) ELSE x
  BY Zenon DEF PayloadAt, strip_data_prefix
<1> QED
  BY <1>2, <1>3, Zenon DEF Text

LEMMA HeardTyped ==
  ASSUME NEW p \in Text
  PROVE  Heard(p) \in Seq(Text) /\ \A E \in Seq(Text) :
           E \o Heard(p) = IF p \in {<<>>, <<"DONE">>} THEN E ELSE Append(E, p)
<1> PICK T : T = Text
  OBVIOUS
<1>1. <<p>> \in Seq(T) /\ <<>> \in Seq(T)
  OBVIOUS
<1>2. \A E \in Seq(T) : E \o <<>> = E /\ E \o <<p>> = Append(E, p)
  OBVIOUS
<1>3. CASE p \in {<<>>, <<"DONE">>}
  <2>1. Heard(p) = <<>>
    BY <1>3, Zenon DEF Heard
  <2> QED
    BY <1>1, <1>2, <1>3, <2>1, Zenon
<1>4. CASE p \notin {<<>>, <<"DONE">>}
  <2>1. Heard(p) = <<p>>
    BY <1>4, Zenon DEF Heard
  <2> QED
    BY <1>1, <1>2, <1>4, <2>1, Zenon
<1> QED
  BY <1>3, <1>4

LEMMA SseTurnIs ==
  ASSUME NEW r \in Readers
  PROVE  /\ Boundary(r.buf) = 0 => SseTurn(r) = r
         /\ Boundary(r.buf) # 0 =>
              SseTurn(r) = Reader(Drop(r.buf, Boundary(r.buf) + 1),
                                  r.done \/ PayloadAt(r.buf) = <<"DONE">>,
                                  r.events \o Heard(PayloadAt(r.buf)))
<1> DEFINE at == Boundary(r.buf)
           p == PayloadAt(r.buf)
           next(E) == IF p \in {<<>>, <<"DONE">>} THEN E ELSE Append(E, p)
<1>1. SseTurn(r) = IF at = 0 THEN r
                   ELSE Reader(Drop(r.buf, at + 1), r.done \/ p = <<"DONE">>, next(r.events))
  BY Zenon DEF SseTurn, Boundary, PayloadAt, Reader
<1>2. ASSUME at # 0 PROVE r.events \o Heard(p) = next(r.events)
  <2>1. r.buf \in Seq(Bytes) /\ r.events \in Seq(Text)
    BY ReaderIs
  <2>2. p \in Text
    BY <1>2, <2>1, PayloadTyped
  <2> QED
    BY <2>1, <2>2, HeardTyped, Zenon
<1> HIDE DEF at, p, next
<1> QED
  BY <1>1, <1>2, Zenon DEF at, p

LEMMA SseTurnTyped ==
  ASSUME NEW r \in Readers
  PROVE  /\ SseTurn(r) \in Readers
         /\ SseTurn(r) = r \/ Len(SseTurn(r).buf) < Len(r.buf)
<1> PICK n \in Nat : n = Boundary(r.buf)
  BY ReaderIs, BoundaryIs
<1>1. r.buf \in Seq(Bytes) /\ r.done \in BOOLEAN /\ r.events \in Seq(Text)
  BY ReaderIs
<1>2. CASE n = 0
  BY <1>2, SseTurnIs
<1>3. CASE n # 0
  <2>1. n + 1 \in 0..Len(r.buf) /\ Len(r.buf) \in Nat
    BY <1>1, <1>3, BoundaryIs
  <2>2. Drop(r.buf, n+1) \in Seq(Bytes) /\ Len(Drop(r.buf, n+1)) = Len(r.buf) - (n+1)
    BY <1>1, <2>1, CutWithin
  <2>3. PayloadAt(r.buf) \in Text
    BY <1>1, <1>3, PayloadTyped
  <2>4. r.events \o Heard(PayloadAt(r.buf)) \in Seq(Text)
    <3>1. Heard(PayloadAt(r.buf)) \in Seq(Text)
      BY <2>3, HeardTyped
    <3> QED
      BY <1>1, <3>1, EventsJoin
  <2> PICK d \in BOOLEAN : d = (r.done \/ PayloadAt(r.buf) = <<"DONE">>)
    BY <1>1
  <2>5. SseTurn(r) = Reader(Drop(r.buf, n+1), d, r.events \o Heard(PayloadAt(r.buf)))
    BY <1>3, SseTurnIs, Zenon
  <2>6. SseTurn(r) \in Readers /\ SseTurn(r).buf = Drop(r.buf, n+1)
    <3>1. SseTurn(r) \in Readers
      BY <2>2, <2>4, <2>5, ReaderTyped
    <3> QED
      BY <2>5, <3>1, ReaderFields
  <2>7. Len(r.buf) - (n+1) < Len(r.buf)
    BY <2>1
  <2> QED
    BY <2>2, <2>6, <2>7
<1> QED
  BY <1>2, <1>3

\* Bytes that come later leave a turn what it was.
Later(r, b) == Reader(r.buf \o b, r.done, r.events)

LEMMA LaterOf ==
  ASSUME NEW b, NEW d, NEW e, NEW x
  PROVE  Later(Reader(b, d, e), x) = Reader(b \o x, d, e)
BY ReaderFields DEF Later

LEMMA SseTurnLater ==
  ASSUME NEW r \in Readers, NEW b \in Seq(Bytes)
  PROVE  /\ Later(r, b) \in Readers
         /\ SseTurn(r) # r => SseTurn(Later(r, b)) = Later(SseTurn(r), b)
<1>1. r.buf \in Seq(Bytes) /\ r.done \in BOOLEAN /\ r.events \in Seq(Text)
  BY ReaderIs
<1>t. r.buf \o b \in Seq(Bytes)
  BY <1>1
<1> PICK long \in Seq(Bytes) : long = r.buf \o b
  BY <1>t, Zenon
<1>2. /\ Later(r, b) \in Readers
      /\ Later(r, b).buf = long /\ Later(r, b).done = r.done /\ Later(r, b).events = r.events
  <2>1. Later(r, b) \in Readers
    BY <1>1, ReaderTyped DEF Later
  <2> QED
    BY <2>1 DEF Later, Reader
<1>3. ASSUME SseTurn(r) # r PROVE SseTurn(Later(r, b)) = Later(SseTurn(r), b)
  <2> PICK n : n = Boundary(r.buf)
    OBVIOUS
  <2>1. n # 0
    BY <1>3, SseTurnIs
  <2>2. n + 1 \in 0..Len(r.buf) /\ n - 1 \in 0..Len(r.buf) /\ Boundary(long) = n
    BY <1>1, <2>1, BoundaryIs
  <2>3. Drop(long, n + 1) = Drop(r.buf, n + 1) \o b /\ SubSeq(long, 1, n - 1) = SubSeq(r.buf, 1, n - 1)
    <3> PICK s \in Seq(Bytes), i \in 0..Len(r.buf), j \in 0..Len(r.buf) :
           s = r.buf /\ i = n + 1 /\ j = n - 1
      BY <1>1, <2>2
    <3>1. Drop(s \o b, i) = Drop(s, i) \o b /\ SubSeq(s \o b, 1, j) = SubSeq(s, 1, j)
      BY CutWithin, SMTT(30)
    <3> QED
      BY <3>1, Zenon
  <2>4. PayloadAt(long) = PayloadAt(r.buf)
    BY <2>2, <2>3, Zenon DEF PayloadAt
  <2> PICK d, e : /\ d = (r.done \/ PayloadAt(r.buf) = <<"DONE">>)
                  /\ e = r.events \o Heard(PayloadAt(r.buf))
    BY Zenon
  <2>5. SseTurn(r) = Reader(Drop(r.buf, n + 1), d, e)
    BY <2>1, SseTurnIs, Zenon
  <2>6. SseTurn(Later(r, b)) = Reader(Drop(r.buf, n + 1) \o b, d, e)
    BY <1>2, <2>1, <2>2, <2>3, <2>4, SseTurnIs, Zenon
  <2>7. Later(SseTurn(r), b) = Reader(Drop(r.buf, n + 1) \o b, d, e)
    BY <2>5, LaterOf
  <2> QED
    BY <2>6, <2>7, Zenon
<1> QED
  BY <1>2, <1>3

\* A turn does not look at the events heard before it.
Behind(E, r) == Reader(r.buf, r.done, E \o r.events)

LEMMA BehindOf ==
  ASSUME NEW b, NEW d, NEW e, NEW E
  PROVE  Behind(E, Reader(b, d, e)) = Reader(b, d, E \o e)
BY ReaderFields DEF Behind

LEMMA SseTurnBehind ==
  ASSUME NEW r \in Readers, NEW E \in Seq(Text)
  PROVE  /\ Behind(E, r) \in Readers /\ Behind(E, r).buf = r.buf
         /\ SseTurn(Behind(E, r)) = Behind(E, SseTurn(r))
<1>1. r.buf \in Seq(Bytes) /\ r.done \in BOOLEAN /\ r.events \in Seq(Text)
  BY ReaderIs
<1>j. E \o r.events \in Seq(Text)
  BY <1>1, EventsJoin
<1>a. \A h \in Seq(Text) : (E \o r.events) \o h = E \o (r.events \o h)
  BY <1>1, EventsJoin, ZenonT(30)
<1>2. /\ Behind(E, r) \in Readers
      /\ Behind(E, r).buf = r.buf /\ Behind(E, r).done = r.done /\ Behind(E, r).events = E \o r.events
  <2>1. Behind(E, r) \in Readers
    BY <1>1, <1>j, ReaderTyped DEF Behind
  <2> QED
    BY <2>1 DEF Behind, Reader
<1>3. CASE Boundary(r.buf) = 0
  BY <1>2, <1>3, SseTurnIs
<1>4. CASE Boundary(r.buf) # 0
  <2> PICK n, h, d : /\ n = Boundary(r.buf) /\ h = Heard(PayloadAt(r.buf))
                     /\ d = (r.done \/ PayloadAt(r.buf) = <<"DONE">>)
    BY Zenon
  <2>1. h \in Seq(Text)
    BY <1>1, <1>4, PayloadTyped, HeardTyped
  <2>2. SseTurn(r) = Reader(Drop(r.buf, n + 1), d, r.events \o h)
    BY <1>4, SseTurnIs, Zenon
  <2>3. SseTurn(Behind(E, r)) = Reader(Drop(r.buf, n + 1), d, (E \o r.events) \o h)
    BY <1>2, <1>4, SseTurnIs, Zenon
  <2>4. Behind(E, SseTurn(r)) = Reader(Drop(r.buf, n + 1), d, E \o (r.events \o h))
    BY <2>2, BehindOf
  <2>5. (E \o r.events) \o h = E \o (r.events \o h)
    BY <1>a, <2>1, Zenon
  <2> QED
    BY <1>2, <2>3, <2>4, <2>5, Zenon
<1> QED
  BY <1>3, <1>4

ReaderTurn == [r \in Readers |-> SseTurn(r)]
ReaderSupply == [r \in Readers |-> Len(r.buf)]

LEMMA ReaderLoop == Loop(ReaderTurn, ReaderSupply, Readers)
<1> PICK X : X = Readers
  OBVIOUS
<1>1. ASSUME NEW r \in X
      PROVE  /\ SseTurn(r) \in X /\ Len(r.buf) \in Nat
             /\ SseTurn(r) = r \/ Len(SseTurn(r).buf) < Len(r.buf)
  <2>1. r.buf \in Seq(Bytes)
    BY ReaderIs
  <2> QED
    BY <2>1, SseTurnTyped
<1> PICK t, m : t = ReaderTurn /\ m = ReaderSupply
  OBVIOUS
<1>2. /\ t \in [X -> X] /\ m \in [X -> Nat]
      /\ \A r \in X : t[r] = SseTurn(r) /\ m[r] = Len(r.buf)
  BY <1>1 DEF ReaderTurn, ReaderSupply
<1> QED
  BY <1>1, <1>2 DEF Loop

LEMMA RunSseIsEnd ==
  ASSUME NEW r \in Readers
  PROVE  RunSseTurns(r) = End(ReaderTurn, ReaderSupply, r)
<1> PICK X, t, m : X = Readers /\ t = ReaderTurn /\ m = ReaderSupply
  OBVIOUS
<1>1. Loop(t, m, X) /\ r \in X
  BY ReaderLoop
<1>2. \A e \in X : t[e] = SseTurn(e) /\ m[e] = Len(e.buf)
  BY DEF ReaderTurn, ReaderSupply
<1> PICK n : n = Len(r.buf)
  OBVIOUS
<1>3. n = m[r] /\ n \in Nat
  BY <1>1, <1>2 DEF Loop
<1> DEFINE Turns(f) == f = [k \in 0..n |-> IF k = 0 THEN r ELSE SseTurn(f[k-1])]
           after == CHOOSE f : Turns(f)
<1>4. RunSseTurns(r) = after[n]
  BY Zenon DEF RunSseTurns
<1>5. \E f : Turns(f)
  <2> PICK g : g = Orbit(t, r, n)
    OBVIOUS
  <2>1. g[0] = r /\ \A k \in 1..n : g[k] = t[g[k-1]]
    BY <1>3, OrbitIs
  <2>2. \A k \in 0..n : g[k] \in X
    BY <1>1, <1>3, OrbitSinks
  <2> DEFINE f == [k \in 0..n |-> g[k]]
  <2>3. ASSUME NEW k \in 0..n PROVE f[k] = IF k = 0 THEN r ELSE SseTurn(f[k-1])
    <3>1. CASE k = 0
      BY <2>1, <3>1
    <3>2. CASE k # 0
      <4>1. k \in 1..n /\ k-1 \in 0..n
        BY <3>2
      <4>2. g[k] = t[g[k-1]] /\ g[k-1] \in X
        BY <2>1, <2>2, <4>1
      <4>3. g[k] = SseTurn(g[k-1])
        BY <1>2, <4>2
      <4> QED
        BY <3>2, <4>1, <4>3
    <3> QED
      BY <3>1, <3>2
  <2>4. Turns(f)
    BY <2>3
  <2> HIDE DEF f, Turns
  <2> QED
    BY <2>4
<1>6. Turns(after)
  <2> HIDE DEF Turns
  <2> QED
    BY <1>5
<1> HIDE DEF after
<1>7. after[0] = r /\ \A k \in 1..n : after[k-1] \in X => after[k] = t[after[k-1]]
  <2>1. ASSUME NEW k \in 1..n, after[k-1] \in X PROVE after[k] = t[after[k-1]]
    <3>1. k \in 0..n /\ k # 0
      BY <1>3
    <3>2. after[k] = SseTurn(after[k-1])
      BY <1>6, <3>1
    <3> QED
      BY <1>2, <2>1, <3>2
  <2>2. 0 \in 0..n
    BY <1>3
  <2>3. after[0] = r
    BY <1>6, <2>2
  <2> HIDE DEF Turns
  <2> QED
    BY <2>1, <2>3
<1>8. after[n] = End(t, m, r)
  BY <1>1, <1>3, <1>7, LoopComputes
<1> QED
  BY <1>4, <1>8

LEMMA SseRests ==
  ASSUME NEW r \in Readers
  PROVE  /\ RunSseTurns(r) \in Readers
         /\ RunSseTurns(r) = RunSseTurns(SseTurn(r))
         /\ Boundary(r.buf) = 0 => RunSseTurns(r) = r
<1> PICK X, t, m : X = Readers /\ t = ReaderTurn /\ m = ReaderSupply
  OBVIOUS
<1>1. Loop(t, m, X) /\ \A e \in X : t[e] = SseTurn(e) /\ RunSseTurns(e) = End(t, m, e)
  BY ReaderLoop, RunSseIsEnd DEF ReaderTurn
<1>2. End(t, m, r) \in X /\ End(t, m, r) = End(t, m, t[r]) /\ t[r] \in X
  BY <1>1, LoopEnds, SseTurnTyped
<1>3. Boundary(r.buf) = 0 => t[r] = r
  BY <1>1, SseTurnIs
<1>4. t[r] = r => End(t, m, r) = r
  BY <1>1, LoopRests
<1> QED
  BY <1>1, <1>2, <1>3, <1>4

LEMMA SseRunsLater ==
  ASSUME NEW r \in Readers, NEW b \in Seq(Bytes)
  PROVE  RunSseTurns(Later(RunSseTurns(r), b)) = RunSseTurns(Later(r, b))
<1> PICK X, t, m : X = Readers /\ t = ReaderTurn /\ m = ReaderSupply
  OBVIOUS
<1>1. Loop(t, m, X) /\ \A e \in X : t[e] = SseTurn(e) /\ RunSseTurns(e) = End(t, m, e)
  BY ReaderLoop, RunSseIsEnd DEF ReaderTurn
<1> DEFINE a == [e \in X |-> Later(e, b)]
<1>2. a \in [X -> X] /\ \A e \in X : a[e] = Later(e, b)
  BY SseTurnLater
<1> HIDE DEF a
<1>3. ASSUME NEW y \in X, t[y] # y PROVE t[a[y]] = a[t[y]]
  <2>1. SseTurn(y) # y /\ t[y] = SseTurn(y) /\ SseTurn(y) \in X
    BY <1>1, <1>3, SseTurnTyped
  <2>2. SseTurn(Later(y, b)) = Later(SseTurn(y), b)
    BY <2>1, SseTurnLater
  <2>3. a[y] = Later(y, b) /\ a[t[y]] = Later(SseTurn(y), b) /\ a[y] \in X
    BY <1>2, <2>1
  <2> QED
    BY <1>1, <2>2, <2>3
<1>4. End(t, m, a[End(t, m, r)]) = End(t, m, a[r])
  BY <1>1, <1>2, <1>3, LoopMore
<1>5. RunSseTurns(r) \in X /\ End(t, m, r) = RunSseTurns(r)
  BY <1>1, SseRests
<1>6. a[RunSseTurns(r)] = Later(RunSseTurns(r), b) /\ a[r] = Later(r, b)
      /\ Later(RunSseTurns(r), b) \in X /\ Later(r, b) \in X
  BY <1>2, <1>5
<1> QED
  BY <1>1, <1>4, <1>5, <1>6

LEMMA SseRunsBehind ==
  ASSUME NEW r \in Readers, NEW E \in Seq(Text)
  PROVE  RunSseTurns(Behind(E, r)) = Behind(E, RunSseTurns(r))
<1> PICK X, t, m : X = Readers /\ t = ReaderTurn /\ m = ReaderSupply
  OBVIOUS
<1>1. Loop(t, m, X) /\ \A e \in X : /\ t[e] = SseTurn(e) /\ RunSseTurns(e) = End(t, m, e)
                                    /\ m[e] = Len(e.buf)
  BY ReaderLoop, RunSseIsEnd DEF ReaderTurn, ReaderSupply
<1> DEFINE p == [e \in X |-> Behind(E, e)]
<1>2. p \in [X -> X] /\ \A e \in X : p[e] = Behind(E, e)
  BY SseTurnBehind
<1> HIDE DEF p
<1>3. ASSUME NEW y \in X PROVE t[p[y]] = p[t[y]] /\ m[p[y]] = m[y]
  <2>1. /\ SseTurn(Behind(E, y)) = Behind(E, SseTurn(y)) /\ Behind(E, y).buf = y.buf
        /\ SseTurn(y) \in X
    BY SseTurnBehind, SseTurnTyped
  <2>2. p[y] = Behind(E, y) /\ p[y] \in X /\ t[y] = SseTurn(y) /\ p[t[y]] = Behind(E, SseTurn(y))
    BY <1>1, <1>2, <2>1
  <2>3. t[p[y]] = SseTurn(Behind(E, y)) /\ m[p[y]] = Len(y.buf) /\ m[y] = Len(y.buf)
    BY <1>1, <2>1, <2>2
  <2> QED
    BY <2>1, <2>2, <2>3
<1>4. End(t, m, p[r]) = p[End(t, m, r)]
  BY <1>1, <1>2, <1>3, LoopAlong
<1>5. RunSseTurns(r) \in X
  BY SseRests
<1> QED
  BY <1>1, <1>2, <1>4, <1>5

LEMMA SseFeedIs ==
  ASSUME NEW r, NEW b
  PROVE  SseFeed(r, b) = RunSseTurns(Reader(r.buf \o b, r.done, <<>>))
BY Zenon DEF SseFeed, Reader

LEMMA NewReader ==
  ASSUME NEW c \in Seq(Bytes)
  PROVE  /\ Reader(c, FALSE, <<>>) \in Readers
         /\ SseFeed(NewSse, c) = RunSseTurns(Reader(c, FALSE, <<>>))
         /\ SseFeed(NewSse, c) \in Readers
<1>1. Reader(c, FALSE, <<>>) \in Readers
  BY NoEvents, ReaderTyped
<1>2. SseFeed(NewSse, c) = RunSseTurns(Reader(c, FALSE, <<>>))
  <2>1. <<>> \o c = c
    BY NoTokens
  <2>2. NewSse.buf = <<>> /\ NewSse.done = FALSE
    BY DEF NewSse
  <2> QED
    BY <2>1, <2>2, SseFeedIs, Zenon
<1> QED
  BY <1>1, <1>2, SseRests

\* A reader that has been given c and then x is where one is that was given both
\* at once; what it heard first comes before what it hears then.
LEMMA SseMoreComes ==
  ASSUME NEW c \in Seq(Bytes), NEW x \in Seq(Bytes),
         NEW r, r.buf = SseFeed(NewSse, c).buf, r.done = SseFeed(NewSse, c).done
  PROVE  /\ SseFeed(r, x) \in Readers
         /\ SseFeed(NewSse, c \o x) = Behind(SseFeed(NewSse, c).events, SseFeed(r, x))
<1> PICK F \in Readers : F = SseFeed(NewSse, c)
  BY NewReader
<1>1. F.buf \in Seq(Bytes) /\ F.done \in BOOLEAN /\ F.events \in Seq(Text)
  BY ReaderIs
<1>t. F.buf \o x \in Seq(Bytes) /\ c \o x \in Seq(Bytes)
  BY <1>1
<1> PICK b \in Seq(Bytes), w \in Seq(Bytes) : b = F.buf \o x /\ w = c \o x
  BY <1>t, Zenon
<1> PICK e \in Seq(Text) : e = <<>>
  BY NoEvents
<1> PICK g \in Readers : g = Reader(b, F.done, e)
  BY <1>1, ReaderTyped
<1>2. SseFeed(r, x) = RunSseTurns(g)
  BY SseFeedIs, Zenon
<1>3. SseFeed(NewSse, w) = RunSseTurns(Reader(w, FALSE, e))
  BY NewReader
<1> PICK d \in Readers : d = Reader(c, FALSE, e) /\ RunSseTurns(d) = F
  BY NewReader
<1>4. Later(d, x) = Reader(w, FALSE, e)
  BY LaterOf
<1>5. RunSseTurns(Later(d, x)) = RunSseTurns(Later(F, x))
  BY SseRunsLater, ZenonT(30)
<1>6. Later(F, x) = Behind(F.events, g)
  <2>1. F.events \o e = F.events
    BY <1>1, NoEvents
  <2>2. Behind(F.events, g) = Reader(b, F.done, F.events \o e)
    BY BehindOf
  <2> QED
    BY <2>1, <2>2, Zenon DEF Later
<1>7. RunSseTurns(Behind(F.events, g)) = Behind(F.events, RunSseTurns(g))
  BY <1>1, SseRunsBehind
<1>8. SseFeed(r, x) \in Readers
  BY <1>2, SseRests
<1>9. SseFeed(NewSse, w) = Behind(F.events, SseFeed(r, x))
  BY <1>2, <1>3, <1>4, <1>5, <1>6, <1>7, Zenon
<1> QED
  BY <1>8, <1>9, Zenon

-----------------------------------------------------------------------------
(* Where the events of a body end *)

LineEnds(s) == {i \in 2..Len(s) : s[i-1] = "LF" /\ s[i] = "LF"}

LEMMA LineEndsFinite ==
  ASSUME NEW s \in Seq(Bytes)
  PROVE  IsFiniteSet(LineEnds(s)) /\ Closed(s) = Cardinality(LineEnds(s)) /\ Closed(s) \in Nat
<1>1. IsFiniteSet(2..Len(s))
  <2>1. Len(s) \in Int /\ 2 \in Int
    OBVIOUS
  <2> QED
    BY <2>1, FS_Interval
<1>2. LineEnds(s) \subseteq 2..Len(s)
  BY DEF LineEnds
<1>3. IsFiniteSet(LineEnds(s))
  BY <1>1, <1>2, FS_Subset
<1>4. Closed(s) = Cardinality(LineEnds(s))
  BY Zenon DEF Closed, LineEnds
<1> QED
  BY <1>3, <1>4, FS_CardinalityType

\* No line ends in two halves where v starts a line.
LEMMA LineEndsJoin ==
  ASSUME NEW u \in Seq(Bytes), NEW v \in Seq(Bytes), Len(v) = 0 \/ v[1] # "LF"
  PROVE  \A i : i \in LineEnds(u \o v) <=>
                  i \in LineEnds(u) \/ (i \in Nat /\ i - Len(u) \in LineEnds(v))
<1> PICK m \in Nat, n \in Nat : m = Len(u) /\ n = Len(v)
  OBVIOUS
<1> PICK w : w = u \o v
  OBVIOUS
<1>1. Len(w) = m + n /\ \A i \in 1..(m+n) : w[i] = IF i <= m THEN u[i] ELSE v[i-m]
  OBVIOUS
<1>2. ASSUME NEW i \in 2..(m+n)
      PROVE  w[i-1] = "LF" /\ w[i] = "LF" <=>
               \/ i \in 2..m /\ u[i-1] = "LF" /\ u[i] = "LF"
               \/ i-m \in 2..n /\ v[(i-m)-1] = "LF" /\ v[i-m] = "LF"
  <2>0. i \in 1..(m+n) /\ i-1 \in 1..(m+n) /\ (i-m)-1 = (i-1)-m
    OBVIOUS
  <2>1. CASE i <= m
    BY <1>1, <2>0, <2>1
  <2>2. CASE i = m+1
    <3>1. w[i] = v[1] /\ i-m = 1 /\ n # 0
      BY <1>1, <2>0, <2>2
    <3>2. w[i] # "LF" /\ i \notin 2..m /\ i-m \notin 2..n
      BY <2>2, <3>1
    <3> QED
      BY <3>2
  <2>3. CASE i > m+1
    <3>1. w[i] = v[i-m] /\ w[i-1] = v[(i-m)-1] /\ i \notin 2..m /\ i-m \in 2..n
      BY <1>1, <2>0, <2>3
    <3> QED
      BY <3>1
  <2> QED
    BY <2>1, <2>2, <2>3
<1>3. ASSUME NEW i
      PROVE  i \in LineEnds(w) <=> i \in LineEnds(u) \/ (i \in Nat /\ i-m \in LineEnds(v))
  <2>1. i \in LineEnds(w) <=> i \in 2..(m+n) /\ w[i-1] = "LF" /\ w[i] = "LF"
    BY <1>1 DEF LineEnds
  <2>2. i \in LineEnds(u) <=> i \in 2..m /\ u[i-1] = "LF" /\ u[i] = "LF"
    BY DEF LineEnds
  <2>3. i-m \in LineEnds(v) <=> i-m \in 2..n /\ v[(i-m)-1] = "LF" /\ v[i-m] = "LF"
    BY DEF LineEnds
  <2>4. i \in 2..m => i \in 2..(m+n)
    OBVIOUS
  <2>5. i \in Nat /\ i-m \in 2..n => i \in 2..(m+n)
    OBVIOUS
  <2>6. i \in 2..(m+n) => i \in Nat
    OBVIOUS
  <2> QED
    BY <1>2, <2>1, <2>2, <2>3, <2>4, <2>5, <2>6
<1> QED
  BY <1>3

\* A payload of one line.
OneLine(p) == p \in Seq(Bytes) /\ \A i \in 1..Len(p) : p[i] # "LF"

LEMMA EventIs ==
  ASSUME NEW p, OneLine(p), NEW e, e = EventBytes(p)
  PROVE  /\ e \in Seq(Bytes) /\ Len(e) = Len(p) + 3 /\ Len(p) \in Nat
         /\ e[1] = "DATA" /\ \A i \in 1..(Len(p) + 1) : e[i] # "LF"
         /\ e[Len(p) + 2] = "LF" /\ e[Len(p) + 3] = "LF"
         /\ SubSeq(e, 1, Len(p) + 1) = <<"DATA">> \o p
<1>1. p \in Seq(Bytes) /\ \A i \in 1..Len(p) : p[i] # "LF"
  BY DEF OneLine
<1>2. e = <<"DATA">> \o p \o <<"LF", "LF">>
  BY DEF EventBytes, BlankLine
<1>3. "DATA" \in Bytes /\ "LF" \in Bytes
  BY BytesAssumption
<1>x. <<"DATA">> \in Seq(Bytes) /\ <<"LF", "LF">> \in Seq(Bytes)
  BY <1>3
<1> PICK a \in Seq(Bytes), z \in Seq(Bytes) : a = <<"DATA">> /\ z = <<"LF", "LF">>
  BY <1>x, Zenon
<1>4. Len(a) = 1 /\ a[1] = "DATA" /\ Len(z) = 2 /\ z[1] = "LF" /\ z[2] = "LF"
  OBVIOUS
<1> PICK n \in Nat : n = Len(p)
  BY <1>1
<1>t. a \o p \in Seq(Bytes)
  BY <1>1
<1> PICK b \in Seq(Bytes) : b = a \o p
  BY <1>t, Zenon
<1>5. Len(b) = n + 1 /\ b[1] = "DATA" /\ \A i \in 2..(n+1) : b[i] = p[i-1]
  BY <1>1, <1>4
<1>6. \A i \in 1..(n+1) : b[i] # "LF"
  <2>1. \A i \in 1..(n+1) : i = 1 \/ (i \in 2..(n+1) /\ i-1 \in 1..n)
    OBVIOUS
  <2> QED
    BY <1>1, <1>5, <2>1
<1>7. /\ b \o z \in Seq(Bytes) /\ Len(b \o z) = n + 3
      /\ \A i \in 1..(n+1) : (b \o z)[i] = b[i]
      /\ (b \o z)[n+2] = z[1] /\ (b \o z)[n+3] = z[2]
      /\ SubSeq(b \o z, 1, n+1) = b
  BY <1>4, <1>5
<1>8. e = b \o z
  BY <1>2, Zenon
<1>9. 1 \in 1..(n+1)
  OBVIOUS
<1> QED
  BY <1>4, <1>5, <1>6, <1>7, <1>8, <1>9

\* Until its last byte an event has no blank line; then it has one, at its end.
LEMMA EventWithin ==
  ASSUME NEW p, OneLine(p), NEW e, e = EventBytes(p), NEW i \in 0..(Len(e) - 1)
  PROVE  Boundary(SubSeq(e, 1, i)) = 0 /\ LineEnds(SubSeq(e, 1, i)) = {}
<1> PICK n \in Nat : n = Len(p)
  BY EventIs
<1>1. e \in Seq(Bytes) /\ Len(e) = n + 3 /\ \A k \in 1..(n+1) : e[k] # "LF"
  BY EventIs
<1>2. SubSeq(e, 1, i) \in Seq(Bytes) /\ Len(SubSeq(e, 1, i)) = i
      /\ \A k \in 1..i : SubSeq(e, 1, i)[k] = e[k]
  BY <1>1
<1> PICK s \in Seq(Bytes) : s = SubSeq(e, 1, i)
  BY <1>2
<1>3. \A k \in 1..(Len(s) - 1) : s[k] # "LF"
  <2>1. \A k \in 1..(Len(s) - 1) : k \in 1..i /\ k \in 1..(n+1)
    BY <1>1, <1>2
  <2> QED
    BY <1>1, <1>2, <2>1
<1>4. Boundary(s) = 0
  BY <1>3, NoPair DEF Boundary, BlankLine
<1>5. LineEnds(s) = {}
  <2>1. \A k \in 2..Len(s) : k-1 \in 1..(Len(s) - 1)
    OBVIOUS
  <2> QED
    BY <1>3, <2>1 DEF LineEnds
<1> QED
  BY <1>4, <1>5

LEMMA EventWhole ==
  ASSUME NEW p, OneLine(p), NEW e, e = EventBytes(p)
  PROVE  /\ Boundary(e) # 0 /\ Drop(e, Boundary(e) + 1) = <<>> /\ PayloadAt(e) = p
         /\ LineEnds(e) = {Len(e)}
<1> PICK n \in Nat : n = Len(p)
  BY EventIs
<1>1. /\ e \in Seq(Bytes) /\ Len(e) = n + 3 /\ \A k \in 1..(n+1) : e[k] # "LF"
      /\ e[n+2] = "LF" /\ e[n+3] = "LF" /\ SubSeq(e, 1, n+1) = <<"DATA">> \o p
  BY EventIs
<1> PICK at : at = n + 2
  OBVIOUS
<1>2. at \in 0..Len(e) /\ at # 0 /\ at < Len(e) /\ e[at] = "LF" /\ e[at+1] = "LF"
  BY <1>1
<1>3. Boundary(e) = at
  <2>1. \A k \in 1..(Len(e) - 1) : e[k] = "LF" => at <= k
    BY <1>1
  <2>2. \A k \in 1..(Len(e) - 1) : e[k] = "LF" /\ e[k+1] = "LF" => at # 0 /\ at <= k
    BY <1>2, <2>1
  <2>3. find_subslice(e, <<"LF", "LF">>) = at
    <3> PICK s \in Seq(Bytes) : s = e
      BY <1>1
    <3>1. at \in 0..Len(s) /\ (at # 0 => at < Len(s) /\ s[at] = "LF" /\ s[at+1] = "LF")
      BY <1>2
    <3>2. \A k \in 1..(Len(s) - 1) : s[k] = "LF" /\ s[k+1] = "LF" => at # 0 /\ at <= k
      BY <2>2
    <3>3. find_subslice(s, <<"LF", "LF">>) = at
      BY <3>1, <3>2, PairPlace
    <3> QED
      BY <3>3
  <2> QED
    BY <2>3 DEF Boundary, BlankLine
<1>4. Drop(e, at + 1) = <<>>
  <2>1. SubSeq(e, (at + 1) + 1, Len(e)) = <<>>
    BY <1>1, EmptySeq
  <2> QED
    BY <2>1 DEF Drop
<1>5. PayloadAt(e) = p
  <2> PICK x : x = <<"DATA">> \o p
    OBVIOUS
  <2>1. SubSeq(e, 1, at - 1) = x
    <3>1. at - 1 = n + 1
      OBVIOUS
    <3> QED
      BY <1>1, <3>1
  <2>2. x # <<>> /\ x[1] = "DATA" /\ Tail(x) = p
    <3>1. p \in Seq(Bytes) /\ "DATA" \in Bytes
      BY BytesAssumption DEF OneLine
    <3>2. /\ Len(x) = n + 1 /\ x[1] = "DATA" /\ x \in Seq(Bytes)
          /\ \A k \in 1..n : x[k+1] = p[k]
      BY <3>1
    <3>3. x # <<>>
      BY <3>2
    <3>4. Tail(x) \in Seq(Bytes) /\ Len(Tail(x)) = n /\ \A k \in 1..n : Tail(x)[k] = x[k+1]
      BY <3>2, <3>3
    <3>5. Tail(x) = p
      BY <3>1, <3>2, <3>4, SeqEqual
    <3> QED
      BY <3>2, <3>3, <3>5
  <2> QED
    BY <1>3, <2>1, <2>2, Zenon DEF PayloadAt, strip_data_prefix
<1>6. LineEnds(e) = {Len(e)}
  <2>1. \A k \in 2..(n+2) : e[k-1] # "LF"
    <3>1. \A k \in 2..(n+2) : k-1 \in 1..(n+1)
      OBVIOUS
    <3> QED
      BY <1>1, <3>1
  <2>2. n+3 \in 2..(n+3) /\ (n+3)-1 = n+2 /\ \A k \in 2..(n+3) : k \in 2..(n+2) \/ k = n+3
    OBVIOUS
  <2> QED
    BY <1>1, <2>1, <2>2 DEF LineEnds
<1> QED
  BY <1>2, <1>3, <1>4, <1>5, <1>6

\* How many events lie within what has come.
LEMMA ClosedMore ==
  ASSUME NEW u \in Seq(Bytes), NEW p, OneLine(p), NEW e, e = EventBytes(p)
  PROVE  /\ \A i \in 0..(Len(e) - 1) : Closed(u \o SubSeq(e, 1, i)) = Closed(u)
         /\ Closed(u \o e) = Closed(u) + 1
<1> PICK n \in Nat : n = Len(p)
  BY EventIs
<1>1. e \in Seq(Bytes) /\ Len(e) = n + 3 /\ e[1] # "LF"
  BY EventIs
<1>2. ASSUME NEW i \in 0..(Len(e) - 1) PROVE Closed(u \o SubSeq(e, 1, i)) = Closed(u)
  <2>1. SubSeq(e, 1, i) \in Seq(Bytes) /\ (Len(SubSeq(e, 1, i)) = 0 \/ SubSeq(e, 1, i)[1] # "LF")
    BY <1>1
  <2> PICK s \in Seq(Bytes) : s = SubSeq(e, 1, i) /\ (Len(s) = 0 \/ s[1] # "LF")
    BY <2>1
  <2>2. LineEnds(s) = {}
    BY EventWithin
  <2>3. LineEnds(u \o s) = LineEnds(u)
    <3>1. \A j : j \in LineEnds(u \o s) <=>
                   j \in LineEnds(u) \/ (j \in Nat /\ j - Len(u) \in LineEnds(s))
      BY LineEndsJoin
    <3> QED
      BY <2>2, <3>1
  <2>4. u \o s \in Seq(Bytes)
    OBVIOUS
  <2> QED
    BY <2>3, <2>4, LineEndsFinite
<1>3. Closed(u \o e) = Closed(u) + 1
  <2> PICK m \in Nat, x \in Nat : m = Len(u) /\ x = m + Len(e)
    <3>1. Len(e) \in Nat /\ Len(u) \in Nat
      BY <1>1
    <3> QED
      BY <3>1
  <2>1. LineEnds(e) = {Len(e)}
    BY EventWhole
  <2>2. \A i : i \in LineEnds(u \o e) <=> i \in LineEnds(u) \/ (i \in Nat /\ i - m = Len(e))
    BY <1>1, <2>1, LineEndsJoin
  <2>3. LineEnds(u \o e) = LineEnds(u) \cup {x}
    <3>1. \A i : i \in Nat /\ i - m = Len(e) <=> i = x
      BY <1>1
    <3> QED
      BY <2>2, <3>1
  <2>4. x \notin LineEnds(u)
    <3>1. x \notin 2..m
      BY <1>1
    <3> QED
      BY <3>1 DEF LineEnds
  <2>5. u \o e \in Seq(Bytes)
    BY <1>1
  <2>6. Cardinality(LineEnds(u) \cup {x}) = Cardinality(LineEnds(u)) + 1
    BY <2>4, LineEndsFinite, FS_AddElement
  <2> QED
    BY <2>3, <2>5, <2>6, LineEndsFinite
<1> QED
  BY <1>2, <1>3

LEMMA NoBoundary == Boundary(<<>>) = 0 /\ Closed(<<>>) = 0
<1>1. <<>> \in Seq(Bytes) /\ \A i \in 1..(Len(<<>>) - 1) : FALSE
  OBVIOUS
<1>2. Boundary(<<>>) = 0
  BY <1>1, NoPair DEF Boundary, BlankLine
<1>3. LineEnds(<<>>) = {}
  BY DEF LineEnds
<1> QED
  BY <1>1, <1>2, <1>3, LineEndsFinite, FS_EmptySet

-----------------------------------------------------------------------------
(* A function mapped over a sequence *)

Mapped(f, w) == [i \in 1..Len(w) |-> f[w[i]]]

LEMMA MappedTyped ==
  ASSUME NEW S, NEW T, NEW f \in [S -> T], NEW w \in Seq(S)
  PROVE  Mapped(f, w) \in Seq(T)
BY DEF Mapped

LEMMA MappedAppend ==
  ASSUME NEW S, NEW T, NEW f \in [S -> T], NEW w \in Seq(S), NEW x \in S
  PROVE  Mapped(f, Append(w, x)) = Append(Mapped(f, w), f[x])
<1>0. Append(w, x) \in Seq(S) /\ Len(w) \in Nat
  OBVIOUS
<1> PICK n \in Nat, v \in Seq(S) : n = Len(w) /\ v = Append(w, x)
  BY <1>0, Zenon
<1>1. Len(v) = n + 1 /\ \A i \in 1..(n+1) : v[i] = IF i <= n THEN w[i] ELSE x
  OBVIOUS
<1>2. ASSUME NEW u \in Seq(S)
      PROVE  /\ Mapped(f, u) \in Seq(T) /\ Len(Mapped(f, u)) = Len(u)
             /\ \A i \in 1..Len(u) : Mapped(f, u)[i] = f[u[i]]
  BY DEF Mapped
<1> PICK l \in Seq(T), b \in Seq(T), e \in T : l = Mapped(f, v) /\ b = Mapped(f, w) /\ e = f[x]
  BY <1>2
<1>3. /\ Len(l) = n + 1 /\ \A i \in 1..(n+1) : l[i] = f[v[i]]
      /\ Len(b) = n /\ \A i \in 1..n : b[i] = f[w[i]]
  BY <1>1, <1>2
<1>4. /\ Append(b, e) \in Seq(T) /\ Len(Append(b, e)) = n + 1
      /\ \A i \in 1..(n+1) : Append(b, e)[i] = IF i <= n THEN b[i] ELSE e
  BY <1>3
<1>5. \A i \in 1..(n+1) : l[i] = Append(b, e)[i]
  BY <1>1, <1>3, <1>4
<1>6. l = Append(b, e)
  BY <1>3, <1>4, <1>5, SeqEqual
<1> QED
  BY <1>6

-----------------------------------------------------------------------------
(* The events up to one *)

Kept(p) == IF p = <<>> THEN <<>> ELSE <<p>>

LEMMA NonEmptyAppend ==
  ASSUME NEW q \in Seq(Text), NEW p \in Text
  PROVE  /\ NonEmpty(q) \in Seq(Text)
         /\ NonEmpty(Append(q, p)) = NonEmpty(q) \o Kept(p)
<1>1. PICK T : Parts(T, Text) /\ \A y \in Text : Kept(y) \in T
  <2> PICK S : S = Text
    OBVIOUS
  <2>1. \A y \in S : Kept(y) \in Seq(S)
    BY DEF Kept
  <2> QED
    BY <2>1 DEF Parts
<1>2. PICK f \in [Text -> T] : \A y \in Text : f[y] = Kept(y) /\ f[y] \in T
  <2> DEFINE g == [y \in Text |-> Kept(y)]
  <2>1. g \in [Text -> T] /\ \A y \in Text : g[y] = Kept(y) /\ g[y] \in T
    BY <1>1
  <2> HIDE DEF g
  <2> QED
    BY <2>1, Zenon
<1>3. ASSUME NEW u \in Seq(Text) PROVE NonEmpty(u) = FlattenSeq(Mapped(f, u))
  <2>1. \A i \in 1..Len(u) : f[u[i]] = IF u[i] = <<>> THEN <<>> ELSE <<u[i]>>
    <3>1. \A i \in 1..Len(u) : u[i] \in Text
      <4> PICK S : S = Text
        OBVIOUS
      <4>1. \A i \in 1..Len(u) : u[i] \in S
        OBVIOUS
      <4> QED
        BY <4>1, Zenon
    <3> QED
      BY <1>2, <3>1, Zenon DEF Kept
  <2>2. [i \in 1..Len(u) |-> IF u[i] = <<>> THEN <<>> ELSE <<u[i]>>] = [i \in 1..Len(u) |-> f[u[i]]]
    BY <2>1, Zenon
  <2> QED
    BY <2>2, Zenon DEF NonEmpty, Mapped
<1>4. Append(q, p) \in Seq(Text)
  <2> PICK S : S = Text
    OBVIOUS
  <2>1. Append(q, p) \in Seq(S)
    OBVIOUS
  <2> QED
    BY <2>1, Zenon
<1>5. Mapped(f, q) \in Seq(T) /\ Mapped(f, Append(q, p)) = Append(Mapped(f, q), f[p])
  <2>1. Mapped(f, q) \in Seq(T)
    BY MappedTyped, Zenon
  <2>2. Mapped(f, Append(q, p)) = Append(Mapped(f, q), f[p])
    BY MappedAppend, Zenon
  <2> QED
    BY <2>1, <2>2
<1>6. FlattenSeq(Mapped(f, q)) \in Seq(Text)
  BY <1>1, <1>5, FlatTyped
<1>7. FlattenSeq(Append(Mapped(f, q), f[p])) = FlattenSeq(Mapped(f, q)) \o f[p]
  <2>1. f[p] \in T
    BY <1>2
  <2> QED
    BY <1>1, <1>5, <2>1, FlatAppend
<1> QED
  BY <1>2, <1>3, <1>4, <1>5, <1>6, <1>7, Zenon

LEMMA NonEmptyNone == NonEmpty(<<>>) = <<>>
<1>1. [k \in 1..Len(<<>>) |-> IF <<>>[k] = <<>> THEN <<>> ELSE <<<<>>[k]>>] = <<>>
  OBVIOUS
<1> QED
  BY <1>1, FlatEmpty, Zenon DEF NonEmpty

LEMMA PayloadIs ==
  ASSUME NEW r \in Responses, NEW k \in 1..(Len(r.events) + 1)
  PROVE  /\ OneLine(Payloads(r)[k])
         /\ k <= Len(r.events) => /\ Payloads(r)[k] = r.events[k] /\ r.events[k] # <<"DONE">>
         /\ k = Len(r.events) + 1 => Payloads(r)[k] = <<"DONE">>
<1> PICK T : T = Text
  OBVIOUS
<1>1. r.events \in Seq(T)
  BY ResponsesAssumption DEF Text
<1>2. \A i \in 1..Len(r.events) : /\ r.events[i] # <<"DONE">>
                                   /\ \A j \in 1..Len(r.events[i]) : r.events[i][j] # "LF"
  BY ResponsesAssumption, Zenon
<1> PICK e \in Seq(T) : e = r.events
  BY <1>1
<1> PICK d : d = <<"DONE">>
  OBVIOUS
<1>3. d \in Text
  BY BytesAssumption DEF Text
<1>4. Payloads(r)[k] = IF k <= Len(e) THEN e[k] ELSE d
  <2>1. \A i \in 1..(Len(e) + 1) : Append(e, d)[i] = IF i <= Len(e) THEN e[i] ELSE d
    BY <1>3
  <2> QED
    BY <2>1 DEF Payloads
<1>5. Len(e) \in Nat
  OBVIOUS
<1>6. CASE k <= Len(e)
  <2>1. k \in 1..Len(e) /\ k # Len(e) + 1
    BY <1>5, <1>6
  <2>2. e[k] \in Seq(Bytes)
    BY <2>1 DEF Text
  <2>3. OneLine(e[k])
    BY <1>2, <2>1, <2>2, Zenon DEF OneLine
  <2> QED
    BY <1>2, <1>4, <1>6, <2>1, <2>3, Zenon
<1>7. CASE ~ k <= Len(e)
  <2>1. OneLine(d)
    <3>1. d \in Seq(Bytes) /\ Len(d) = 1 /\ d[1] = "DONE"
      BY <1>3 DEF Text
    <3> QED
      BY <3>1 DEF OneLine
  <2> QED
    BY <1>4, <1>7, <2>1, Zenon
<1> QED
  BY <1>6, <1>7

\* The bytes of the first j events.
FirstEvents(r, j) == FlattenSeq(SubSeq([k \in 1..Len(Payloads(r)) |-> EventBytes(Payloads(r)[k])], 1, j))

LEMMA FirstEventsGrow ==
  ASSUME NEW r \in Responses
  PROVE  /\ FirstEvents(r, 0) = <<>>
         /\ \A j \in 0..(Len(r.events) + 1) : FirstEvents(r, j) \in Seq(Bytes)
         /\ \A j \in 0..Len(r.events) :
              FirstEvents(r, j+1) = FirstEvents(r, j) \o EventBytes(Payloads(r)[j+1])
         /\ FirstEvents(r, Len(r.events) + 1) = Body(r)
<1> PICK T : T = Text
  OBVIOUS
<1> PICK n \in Nat : n = Len(r.events)
  BY ResponseTyped
<1> PICK c : c = [k \in 1..Len(Payloads(r)) |-> EventBytes(Payloads(r)[k])]
  OBVIOUS
<1>1. \A k \in 1..(n+1) : EventBytes(Payloads(r)[k]) \in T
  <2>1. \A k \in 1..(n+1) : Payloads(r)[k] \in Text
    BY PayloadIs DEF OneLine, Text
  <2> QED
    BY <2>1, EventTyped
<1>2. Len(Payloads(r)) = n+1
  BY ResponseTyped
<1>3. c \in Seq(T) /\ Len(c) = n+1 /\ \A k \in 1..(n+1) : c[k] = EventBytes(Payloads(r)[k])
  BY <1>1, <1>2
<1>4. \A j : FirstEvents(r, j) = FlattenSeq(SubSeq(c, 1, j))
  BY Zenon DEF FirstEvents
<1>5. Parts(T, Bytes)
  BY DEF Parts, Text
<1>6. FirstEvents(r, 0) = <<>>
  <2>1. SubSeq(c, 1, 0) = <<>>
    BY <1>3, WholePrefix
  <2> QED
    BY <1>4, <2>1, FlatEmpty, Zenon
<1>7. ASSUME NEW j \in 0..(n+1) PROVE FirstEvents(r, j) \in Seq(Bytes)
  <2>1. SubSeq(c, 1, j) \in Seq(T)
    BY <1>3
  <2> QED
    BY <1>4, <1>5, <2>1, FlatTyped
<1>8. ASSUME NEW j \in 0..n
      PROVE  FirstEvents(r, j+1) = FirstEvents(r, j) \o EventBytes(Payloads(r)[j+1])
  <2>1. j \in 0..(Len(c) - 1)
    BY <1>3
  <2>2. PICK u \in Seq(T), x \in T : u = SubSeq(c, 1, j) /\ x = c[j+1]
    BY <1>3, <2>1, PrefixGrows
  <2>3. SubSeq(c, 1, j+1) = Append(u, x)
    BY <1>3, <2>1, <2>2, PrefixGrows
  <2>4. FlattenSeq(Append(u, x)) = FlattenSeq(u) \o x
    BY <1>5, FlatAppend
  <2>5. x = EventBytes(Payloads(r)[j+1])
    BY <1>3, <2>2
  <2> QED
    BY <1>4, <2>2, <2>3, <2>4, <2>5, Zenon
<1>9. FirstEvents(r, n+1) = Body(r)
  <2>1. SubSeq(c, 1, n+1) = c
    BY <1>3, WholePrefix
  <2> QED
    BY <1>4, <2>1, Zenon DEF Body
<1> QED
  BY <1>6, <1>7, <1>8, <1>9

\* What the caller has heard once j events are complete.
HeardOf(r, j) == NonEmpty(SubSeq(r.events, 1, IF j <= Len(r.events) THEN j ELSE Len(r.events)))

LEMMA HeardGrows ==
  ASSUME NEW r \in Responses
  PROVE  /\ HeardOf(r, 0) = <<>>
         /\ \A j \in 0..(Len(r.events) + 1) : HeardOf(r, j) \in Seq(Text)
         /\ \A j \in 0..Len(r.events) :
              HeardOf(r, j+1) = HeardOf(r, j) \o Heard(Payloads(r)[j+1])
<1> PICK n \in Nat : n = Len(r.events)
  BY ResponseTyped
<1> PICK E \in Seq(Text) : E = r.events
  BY ResponsesAssumption DEF Text
<1>c. ASSUME NEW j \in 0..n PROVE SubSeq(E, 1, j) \in Seq(Text)
  <2> PICK T : T = Text
    OBVIOUS
  <2>1. SubSeq(E, 1, j) \in Seq(T)
    OBVIOUS
  <2> QED
    BY <2>1, Zenon
<1>1. HeardOf(r, 0) = <<>>
  <2>1. SubSeq(E, 1, 0) = <<>> /\ 0 <= n
    BY WholePrefix
  <2> QED
    BY <2>1, NonEmptyNone, Zenon DEF HeardOf
<1>2. ASSUME NEW j \in 0..(n+1) PROVE HeardOf(r, j) \in Seq(Text)
  <2>p. <<"DONE">> \in Text
    BY BytesAssumption DEF Text
  <2>1. PICK p \in Text : p = <<"DONE">>
    BY <2>p, Zenon
  <2>2. \A q \in Seq(Text) : NonEmpty(q) \in Seq(Text)
    BY <2>1, NonEmptyAppend
  <2> PICK k \in 0..n : k = IF j <= n THEN j ELSE n
    OBVIOUS
  <2> QED
    BY <1>c, <2>2, Zenon DEF HeardOf
<1>3. ASSUME NEW j \in 0..n
      PROVE  HeardOf(r, j+1) = HeardOf(r, j) \o Heard(Payloads(r)[j+1])
  <2> PICK k \in 1..(n+1) : k = j + 1
    OBVIOUS
  <2> PICK p : p = Payloads(r)[k]
    OBVIOUS
  <2>0. HeardOf(r, j) = NonEmpty(SubSeq(E, 1, j))
    <3>1. j <= n
      OBVIOUS
    <3> QED
      BY <3>1, Zenon DEF HeardOf
  <2>1. CASE k <= n
    <3>1. p = E[k] /\ p # <<"DONE">>
      BY <2>1, PayloadIs
    <3>2. HeardOf(r, k) = NonEmpty(SubSeq(E, 1, k))
      BY <2>1, Zenon DEF HeardOf
    <3>3. j \in 0..(Len(E) - 1)
      BY <2>1
    <3>4. PICK u \in Seq(Text), x \in Text : u = SubSeq(E, 1, j) /\ x = E[j+1]
      BY <3>3, PrefixGrows
    <3>5. SubSeq(E, 1, j+1) = Append(u, x)
      BY <3>3, <3>4, PrefixGrows
    <3>6. NonEmpty(Append(u, x)) = NonEmpty(u) \o Kept(x)
      BY NonEmptyAppend
    <3>7. x = p
      BY <3>1, <3>4
    <3>8. Kept(p) = Heard(p)
      BY <3>1, Zenon DEF Kept, Heard
    <3> QED
      BY <2>0, <3>2, <3>4, <3>5, <3>6, <3>7, <3>8, Zenon
  <2>2. CASE ~ k <= n
    <3>1. k = n + 1 /\ j = n
      BY <2>2
    <3>2. p = <<"DONE">>
      BY <3>1, PayloadIs
    <3>3. Heard(p) = <<>>
      BY <3>2, Zenon DEF Heard
    <3>4. HeardOf(r, k) = NonEmpty(SubSeq(E, 1, n))
      BY <2>2, Zenon DEF HeardOf
    <3>5. HeardOf(r, j) \o <<>> = HeardOf(r, j)
      BY <1>2, NoEvents, j \in 0..(n+1)
    <3> QED
      BY <2>0, <3>1, <3>3, <3>4, <3>5, Zenon
  <2> QED
    BY <2>1, <2>2
<1> QED
  BY <1>1, <1>2, <1>3

\* Once an event is complete the reader holds nothing back.
LEMMA ReaderOfEvents ==
  ASSUME NEW r \in Responses, NEW j \in 0..(Len(r.events) + 1)
  PROVE  /\ SseFeed(NewSse, FirstEvents(r, j)) = Reader(<<>>, j = Len(r.events) + 1, HeardOf(r, j))
         /\ Closed(FirstEvents(r, j)) = j
<1> PICK n \in Nat : n = Len(r.events)
  BY ResponseTyped
<1> DEFINE P == {k \in 0..(n+1) :
                   /\ SseFeed(NewSse, FirstEvents(r, k)) = Reader(<<>>, k = n + 1, HeardOf(r, k))
                   /\ Closed(FirstEvents(r, k)) = k}
<1>1. 0 \in P
  <2> PICK z \in Readers : z = Reader(<<>>, FALSE, <<>>)
    BY NoTokens, NoEvents, ReaderTyped
  <2>1. SseFeed(NewSse, <<>>) = RunSseTurns(z)
    BY NewReader, NoTokens
  <2>2. z.buf = <<>>
    BY DEF Reader
  <2>3. RunSseTurns(z) = z
    BY <2>2, NoBoundary, SseRests
  <2>4. FirstEvents(r, 0) = <<>> /\ HeardOf(r, 0) = <<>>
    BY FirstEventsGrow, HeardGrows
  <2>5. (0 = n + 1) = FALSE /\ 0 \in 0..(n+1)
    OBVIOUS
  <2>6. SseFeed(NewSse, FirstEvents(r, 0)) = Reader(<<>>, 0 = n + 1, HeardOf(r, 0))
    BY <2>1, <2>3, <2>4, <2>5, Zenon
  <2> QED
    BY <2>4, <2>5, <2>6, NoBoundary, Zenon
<1>2. ASSUME NEW k \in 0..((n+1) - 1), k \in P PROVE k+1 \in P
  <2>0. k \in 0..n /\ k \in 0..(n+1) /\ k+1 \in 1..(n+1) /\ k+1 \in 0..(n+1) /\ k # n+1
    OBVIOUS
  <2> PICK u \in Seq(Bytes) : u = FirstEvents(r, k)
    BY <2>0, FirstEventsGrow
  <2> PICK p : p = Payloads(r)[k+1]
    OBVIOUS
  <2> PICK h \in Seq(Text) : h = HeardOf(r, k)
    BY <2>0, HeardGrows
  <2> PICK hp : hp = Heard(p)
    OBVIOUS
  <2>1. OneLine(p)
    BY <2>0, PayloadIs
  <2> PICK e \in Seq(Bytes) : e = EventBytes(p)
    BY <2>1, EventIs
  <2>2. FirstEvents(r, k+1) = u \o e
    BY <2>0, FirstEventsGrow
  <2>3. Closed(u) = k /\ SseFeed(NewSse, u) = Reader(<<>>, FALSE, h)
    <3>1. (k = n+1) = FALSE
      BY <2>0
    <3>2. SseFeed(NewSse, FirstEvents(r, k)) = Reader(<<>>, k = n + 1, HeardOf(r, k))
          /\ Closed(FirstEvents(r, k)) = k
      BY <1>2
    <3> QED
      BY <3>1, <3>2, Zenon
  <2>4. Closed(u \o e) = k + 1
    BY <2>1, <2>3, ClosedMore
  <2> PICK z : z = Reader(<<>>, FALSE, h)
    OBVIOUS
  <2>5. z.buf = <<>> /\ z.done = FALSE /\ z.events = h
    BY DEF Reader
  <2>6. SseFeed(NewSse, u \o e) = Behind(h, SseFeed(z, e))
    <3>1. SseFeed(NewSse, u) = z
      BY <2>3, Zenon
    <3> QED
      <4>1. z.buf = SseFeed(NewSse, u).buf /\ z.done = SseFeed(NewSse, u).done
        BY <3>1
      <4>2. SseFeed(NewSse, u \o e) = Behind(SseFeed(NewSse, u).events, SseFeed(z, e))
        BY <4>1, SseMoreComes, ZenonT(30)
      <4> QED
        BY <2>5, <3>1, <4>2, Zenon
  <2> PICK none \in Seq(Text) : none = <<>>
    BY NoEvents
  <2> PICK x \in Readers : x = Reader(e, FALSE, none)
    BY ReaderTyped
  <2>7. SseFeed(z, e) = RunSseTurns(x)
    <3>1. <<>> \o e = e
      BY NoTokens
    <3> QED
      BY <2>5, <3>1, SseFeedIs, Zenon
  <2>8. x.buf = e /\ x.done = FALSE /\ x.events = none
    BY DEF Reader
  <2>9. Boundary(e) # 0 /\ Drop(e, Boundary(e) + 1) = <<>> /\ PayloadAt(e) = p
    BY <2>1, EventWhole
  <2>10. hp \in Seq(Text) /\ none \o hp = hp
    <3>1. p \in Text
      BY <2>1 DEF OneLine, Text
    <3> QED
      BY <3>1, HeardTyped, NoEvents
  <2>11. PICK d \in BOOLEAN : d = (FALSE \/ p = <<"DONE">>)
    OBVIOUS
  <2> PICK y \in Readers : y = Reader(<<>>, d, hp)
    BY <2>10, NoTokens, ReaderTyped
  <2>12. SseTurn(x) = y
    <3>1. SseTurn(x) = Reader(Drop(x.buf, Boundary(x.buf) + 1),
                              x.done \/ PayloadAt(x.buf) = <<"DONE">>,
                              x.events \o Heard(PayloadAt(x.buf)))
      BY <2>8, <2>9, SseTurnIs
    <3> QED
      BY <2>8, <2>9, <2>10, <2>11, <3>1, Zenon
  <2>13. RunSseTurns(x) = y
    <3>1. RunSseTurns(x) = RunSseTurns(y)
      BY <2>12, SseRests
    <3>2. y.buf = <<>>
      BY DEF Reader
    <3> QED
      BY <3>1, <3>2, NoBoundary, SseRests
  <2>14. SseFeed(NewSse, u \o e) = Reader(<<>>, d, h \o hp)
    <3>1. Behind(h, Reader(<<>>, d, hp)) = Reader(<<>>, d, h \o hp)
      BY BehindOf
    <3> QED
      BY <2>6, <2>7, <2>13, <3>1, Zenon
  <2>15. HeardOf(r, k+1) = h \o hp
    BY <2>0, HeardGrows
  <2>16. d = (k + 1 = n + 1)
    <3>1. CASE k + 1 <= n
      <4>1. p # <<"DONE">> /\ k + 1 # n + 1
        BY <2>0, <3>1, PayloadIs
      <4> QED
        BY <2>11, <4>1
    <3>2. CASE ~ k + 1 <= n
      <4>1. k + 1 = n + 1
        BY <2>0, <3>2
      <4>2. p = <<"DONE">>
        BY <2>0, <4>1, PayloadIs
      <4> QED
        BY <2>11, <4>1, <4>2
    <3> QED
      BY <3>1, <3>2
  <2>17. SseFeed(NewSse, FirstEvents(r, k+1)) = Reader(<<>>, k + 1 = n + 1, HeardOf(r, k+1))
    BY <2>2, <2>14, <2>15, <2>16, Zenon
  <2> QED
    BY <2>0, <2>2, <2>4, <2>17, Zenon
<1>3. j \in P
  <2> HIDE DEF P
  <2> QED
    BY <1>1, <1>2, IntervalInduction, n+1 \in Nat
<1> QED
  BY <1>3

\* The reader that was given c has heard the events c completes, and no more.
Exact(r, c) ==
  /\ SseFeed(NewSse, c).events = EventsWithin(r, c)
  /\ SseFeed(NewSse, c).done <=> Closed(c) > Len(r.events)

LEMMA EventsWithinIs ==
  ASSUME NEW r \in Responses, NEW c, NEW j \in 0..(Len(r.events) + 1), Closed(c) = j
  PROVE  EventsWithin(r, c) = HeardOf(r, j)
<1> PICK n \in Nat : n = Len(r.events)
  BY ResponseTyped
<1>1. Min({j, n}) = IF j <= n THEN j ELSE n
  <2>1. {j, n} \subseteq Nat
    OBVIOUS
  <2> PICK m : m = Min({j, n})
    OBVIOUS
  <2>2. m \in {j, n} /\ \A x \in {j, n} : m <= x
    BY <2>1, LeastIs
  <2> QED
    BY <2>2
<1> QED
  BY <1>1, Zenon DEF EventsWithin, HeardOf

LEMMA ExactWithin ==
  ASSUME NEW r \in Responses, NEW j \in 0..Len(r.events),
         NEW e, e = EventBytes(Payloads(r)[j+1]), NEW i \in 0..(Len(e) - 1)
  PROVE  Exact(r, FirstEvents(r, j) \o SubSeq(e, 1, i))
<1> PICK n \in Nat : n = Len(r.events)
  BY ResponseTyped
<1>0. j+1 \in 1..(n+1) /\ j \in 0..(n+1) /\ (j = n+1) = FALSE
  OBVIOUS
<1> PICK p : p = Payloads(r)[j+1]
  OBVIOUS
<1>1. OneLine(p)
  BY <1>0, PayloadIs
<1> PICK u \in Seq(Bytes), h \in Seq(Text) : u = FirstEvents(r, j) /\ h = HeardOf(r, j)
  BY <1>0, FirstEventsGrow, HeardGrows
<1>2. SseFeed(NewSse, u) = Reader(<<>>, FALSE, h) /\ Closed(u) = j
  BY <1>0, ReaderOfEvents, Zenon
<1>3. SubSeq(e, 1, i) \in Seq(Bytes)
  <2>1. e \in Seq(Bytes)
    BY <1>1, EventIs
  <2> QED
    BY <2>1
<1> PICK s \in Seq(Bytes) : s = SubSeq(e, 1, i)
  BY <1>3, Zenon
<1>4. Boundary(s) = 0 /\ Closed(u \o s) = j
  BY <1>1, <1>2, EventWithin, ClosedMore
<1> PICK z : z = Reader(<<>>, FALSE, h)
  OBVIOUS
<1>5. z.buf = <<>> /\ z.done = FALSE /\ z.events = h
  BY DEF Reader
<1>6. SseFeed(NewSse, u \o s) = Behind(h, SseFeed(z, s))
  <2>1. SseFeed(NewSse, u) = z
    BY <1>2, Zenon
  <2> QED
    <3>1. z.buf = SseFeed(NewSse, u).buf /\ z.done = SseFeed(NewSse, u).done
      BY <2>1
    <3>2. SseFeed(NewSse, u \o s) = Behind(SseFeed(NewSse, u).events, SseFeed(z, s))
      BY <3>1, SseMoreComes, ZenonT(30)
    <3> QED
      BY <1>5, <2>1, <3>2, Zenon
<1> PICK none \in Seq(Text) : none = <<>> /\ h \o none = h
  BY NoEvents
<1> PICK x \in Readers : x = Reader(s, FALSE, none)
  BY ReaderTyped
<1>7. SseFeed(z, s) = RunSseTurns(x)
  <2>1. <<>> \o s = s
    BY NoTokens
  <2> QED
    BY <1>5, <2>1, SseFeedIs, Zenon
<1>8. RunSseTurns(x) = x
  <2>1. x.buf = s
    BY DEF Reader
  <2> QED
    BY <1>4, <2>1, SseRests
<1>9. SseFeed(NewSse, u \o s) = Reader(s, FALSE, h)
  <2>1. Behind(h, Reader(s, FALSE, none)) = Reader(s, FALSE, h \o none)
    BY DEF Behind, Reader
  <2>2. Behind(h, x) = Reader(s, FALSE, h)
    BY <2>1, Zenon
  <2> QED
    BY <1>6, <1>7, <1>8, <2>2, Zenon
<1>10. SseFeed(NewSse, u \o s).events = h /\ SseFeed(NewSse, u \o s).done = FALSE
  BY <1>9 DEF Reader
<1>11. EventsWithin(r, u \o s) = h
  BY <1>0, <1>4, EventsWithinIs
<1>12. ~ Closed(u \o s) > n
  BY <1>4
<1> QED
  BY <1>10, <1>11, <1>12, Zenon DEF Exact

LEMMA ExactWhole ==
  ASSUME NEW r \in Responses, NEW j \in 0..(Len(r.events) + 1)
  PROVE  Exact(r, FirstEvents(r, j))
<1> PICK n \in Nat : n = Len(r.events)
  BY ResponseTyped
<1> PICK u : u = FirstEvents(r, j)
  OBVIOUS
<1>1. SseFeed(NewSse, u) = Reader(<<>>, j = n + 1, HeardOf(r, j)) /\ Closed(u) = j
  BY ReaderOfEvents, Zenon
<1>2. SseFeed(NewSse, u).events = HeardOf(r, j) /\ SseFeed(NewSse, u).done = (j = n + 1)
  BY <1>1, ReaderFields
<1>3. EventsWithin(r, u) = HeardOf(r, j)
  BY <1>1, EventsWithinIs
<1>4. j = n + 1 <=> j > n
  OBVIOUS
<1> QED
  BY <1>1, <1>2, <1>3, <1>4, Zenon DEF Exact

\* Of a body that has come so far the reader has heard exactly the complete events.
LEMMA ExactlyTheEvents ==
  ASSUME NEW r \in Responses, NEW m \in 0..Len(Body(r))
  PROVE  Exact(r, SubSeq(Body(r), 1, m))
<1> PICK n \in Nat : n = Len(r.events)
  BY ResponseTyped
<1> DEFINE u(j) == FirstEvents(r, j)
           P == {j \in 0..(n+1) : \A i \in 0..Len(u(j)) : Exact(r, SubSeq(u(j), 1, i))}
<1>1. 0 \in P
  <2>1. u(0) = <<>>
    BY FirstEventsGrow
  <2>2. Exact(r, u(0))
    BY ExactWhole, 0 \in 0..(n+1)
  <2>3. \A i \in 0..Len(<<>>) : SubSeq(<<>>, 1, i) = <<>>
    OBVIOUS
  <2>4. \A i \in 0..Len(u(0)) : SubSeq(u(0), 1, i) = u(0)
    BY <2>1, <2>3, Zenon
  <2> HIDE DEF u
  <2> QED
    BY <2>2, <2>4, 0 \in 0..(n+1)
<1>2. ASSUME NEW j \in 0..((n+1) - 1), j \in P PROVE j+1 \in P
  <2>0. j \in 0..n /\ j \in 0..(n+1) /\ j+1 \in 0..(n+1) /\ j+1 \in 1..(n+1)
    OBVIOUS
  <2> PICK v \in Seq(Bytes), w \in Seq(Bytes) : v = u(j) /\ w = u(j+1)
    BY <2>0, FirstEventsGrow
  <2> PICK p : p = Payloads(r)[j+1]
    OBVIOUS
  <2>1. OneLine(p)
    BY <2>0, PayloadIs
  <2> PICK e \in Seq(Bytes) : e = EventBytes(p)
    BY <2>1, EventIs
  <2>2. w = v \o e
    BY <2>0, FirstEventsGrow
  <2>3. Len(w) = Len(v) + Len(e) /\ Len(v) \in Nat /\ Len(e) \in Nat
    BY <2>2
  <2>4. ASSUME NEW i \in 0..Len(w) PROVE Exact(r, SubSeq(w, 1, i))
    <3>1. CASE i <= Len(v)
      <4>1. i \in 0..Len(v)
        BY <3>1
      <4>2. SubSeq(w, 1, i) = SubSeq(v, 1, i)
        BY <2>2, <4>1, CutWithin
      <4> QED
        BY <1>2, <4>1, <4>2
    <3>2. CASE i > Len(v) /\ i < Len(w)
      <4>1. i - Len(v) \in 0..(Len(e) - 1) /\ i - Len(v) \in 0..Len(e)
        BY <2>3, <3>2
      <4>2. PICK k \in 0..(Len(e) - 1) : k = i - Len(v)
        BY <4>1
      <4>3. SubSeq(w, 1, i) = v \o SubSeq(e, 1, k)
        <5>1. i \in Len(v)..(Len(v) + Len(e))
          BY <2>3, <3>2
        <5> QED
          BY <2>2, <4>2, <5>1, CutPast
      <4> QED
        BY <2>0, <4>3, ExactWithin
    <3>3. CASE i = Len(w)
      <4>1. SubSeq(w, 1, i) = w
        BY <3>3, WholePrefix
      <4> QED
        BY <2>0, <4>1, ExactWhole
    <3> QED
      BY <2>3, <3>1, <3>2, <3>3
  <2> HIDE DEF u
  <2> QED
    BY <2>0, <2>4
<1>3. n+1 \in P
  <2> HIDE DEF P
  <2> QED
    BY <1>1, <1>2, IntervalInduction, n+1 \in Nat, n+1 \in 0..(n+1)
<1>4. u(n+1) = Body(r)
  BY FirstEventsGrow
<1> QED
  BY <1>3, <1>4

\* Where a response stands on the wire.
Carried(r, w, i) == r \in Responses /\ w = encode_chunked_sse(r) /\ i \in 0..Len(w)

\* The decoder, and the body, given the next bytes are those given all of them.
AlongTheWire(w, i, j) ==
  /\ After(NewDecoder, w, j) = ChunkedFeed(After(NewDecoder, w, i), Tokens(SubSeq(w, i+1, j)))
  /\ BodyIn(SubSeq(w, 1, i)) \in Seq(Bytes) /\ BodyIn(SubSeq(w, i+1, j)) \in Seq(Bytes)
  /\ BodyIn(SubSeq(w, 1, j)) = BodyIn(SubSeq(w, 1, i)) \o BodyIn(SubSeq(w, i+1, j))

LEMMA NextBytes ==
  ASSUME NEW r, NEW w, NEW i, NEW j, Carried(r, w, i), Carried(r, w, j), i <= j
  PROVE  AlongTheWire(w, i, j)
<1>1. r \in Responses /\ i \in 0..Len(w) /\ j \in 0..Len(w) /\ w \in Seq(Mark)
  BY DecodesTheBody DEF Carried
<1>2. i \in Nat /\ j \in Nat /\ j <= Len(w)
  BY <1>1
<1> PICK a \in Seq(Mark), b \in Seq(Mark) :
      a = SubSeq(w, 1, i) /\ b = SubSeq(w, i+1, j) /\ a \o b = SubSeq(w, 1, j)
  <2>1. SubSeq(w, i+1, j) \in Seq(Mark) /\ SubSeq(w, 1, i) \o SubSeq(w, i+1, j) = SubSeq(w, 1, j)
    BY <1>1, <1>2, CutJoins
  <2>2. SubSeq(w, 1, i) \in Seq(Mark)
    BY <1>1
  <2> QED
    BY <2>1, <2>2
<1>3. BodyIn(a) \in Seq(Bytes) /\ BodyIn(b) \in Seq(Bytes) /\ BodyIn(a \o b) = BodyIn(a) \o BodyIn(b)
  <2>1. BodyIn(a) \in Text /\ BodyIn(b) \in Text
    BY BodyTyped
  <2>2. BodyIn(a \o b) = BodyIn(a) \o BodyIn(b)
    BY BodyJoin
  <2> QED
    BY <2>1, <2>2, Zenon DEF Text
<1>4. Tokens(a) \in Seq(Bytes) /\ Tokens(b) \in Seq(Bytes) /\ Tokens(a \o b) = Tokens(a) \o Tokens(b)
  <2>1. Tokens(a) \in Text /\ Tokens(b) \in Text /\ Tokens(a \o b) = Tokens(a) \o Tokens(b)
    BY TokensJoin
  <2> QED
    BY <2>1, Zenon DEF Text
<1>5. Sound(NewDecoder, Bytes)
  <2>1. Sound(Decoder("ReadingSize", 0, <<>>, <<>>), Bytes)
    BY RestsEmpty, "ReadingSize" \in States, NoTokens DEF States
  <2> QED
    BY <2>1, Zenon DEF NewDecoder
<1>6. ChunkedFeed(ChunkedFeed(NewDecoder, Tokens(a)), Tokens(b)) = ChunkedFeed(NewDecoder, Tokens(a \o b))
  <2>1. ChunkedFeed(ChunkedFeed(NewDecoder, Tokens(a)), Tokens(b))
          = ChunkedFeed(NewDecoder, Tokens(a) \o Tokens(b))
    BY <1>4, <1>5, FeedsJoin
  <2> QED
    BY <1>4, <2>1, Zenon
<1> QED
  BY <1>3, <1>4, <1>6, Zenon DEF After, AlongTheWire

\* What has arrived of the body is a prefix of it, and of that the reader hears
\* exactly the complete events.
LEMMA HearsTheEvents ==
  ASSUME NEW r, NEW w, NEW i, Carried(r, w, i)
  PROVE  Exact(r, BodyIn(SubSeq(w, 1, i)))
<1>1. r \in Responses /\ i \in 0..Len(w) /\ w \in Seq(Mark) /\ BodyIn(w) = Body(r)
  BY DecodesTheBody DEF Carried
<1>2. Carried(r, w, Len(w)) /\ i <= Len(w)
  BY <1>1 DEF Carried
<1>3. SubSeq(w, 1, Len(w)) = w
  BY <1>1, WholePrefix
<1>4. /\ BodyIn(SubSeq(w, 1, i)) \in Seq(Bytes) /\ BodyIn(SubSeq(w, i+1, Len(w))) \in Seq(Bytes)
      /\ BodyIn(SubSeq(w, 1, Len(w))) = BodyIn(SubSeq(w, 1, i)) \o BodyIn(SubSeq(w, i+1, Len(w)))
  <2>1. AlongTheWire(w, i, Len(w))
    BY <1>2, NextBytes
  <2> QED
    BY <2>1, Zenon DEF AlongTheWire
<1> PICK x \in Seq(Bytes), y \in Seq(Bytes) :
      x = BodyIn(SubSeq(w, 1, i)) /\ y = BodyIn(SubSeq(w, i+1, Len(w)))
  BY <1>4, Zenon
<1> PICK b \in Seq(Bytes) : b = Body(r) /\ b = x \o y
  <2>1. x \o y \in Seq(Bytes)
    OBVIOUS
  <2>2. Body(r) = x \o y
    BY <1>1, <1>3, <1>4, Zenon
  <2> QED
    BY <2>1, <2>2, Zenon
<1>5. Len(x) \in 0..Len(b) /\ SubSeq(b, 1, Len(x)) = x
  <2>1. Len(x) \in 0..Len(x)
    OBVIOUS
  <2>2. SubSeq(x \o y, 1, Len(x)) = SubSeq(x, 1, Len(x))
    BY <2>1, CutWithin
  <2>3. SubSeq(x, 1, Len(x)) = x
    BY WholePrefix
  <2> QED
    BY <2>2, <2>3
<1>6. Exact(r, SubSeq(Body(r), 1, Len(x)))
  BY <1>1, <1>5, ExactlyTheEvents
<1> QED
  BY <1>5, <1>6, Zenon

-----------------------------------------------------------------------------
(* The two layers together *)

\* The reader stands, and has handed on, as if it had been given c at once.
Hears(reader, heard, c) ==
  LET whole == SseFeed(NewSse, c)
  IN  reader.buf = whole.buf /\ reader.done = whole.done /\ heard = whole.events

OnTheWire == Carried(wire.response, wire.bytes, fed)

\* The decoder is where one call with all that has arrived would leave it.
DecoderInv == chunked = After(NewDecoder, wire.bytes, fed)

\* So is the reader with all that was decoded, up to the events it handed on.
ReaderInv == Hears(sse, collected, chunked.decoded)

LayersInv == OnTheWire /\ DecoderInv /\ ReaderInv

LEMMA ReaderStarts == SseFeed(NewSse, <<>>) = NewSse
<1> PICK c \in Seq(Bytes) : c = <<>>
  BY NoTokens
<1>1. SseFeed(NewSse, c) = RunSseTurns(Reader(c, FALSE, <<>>)) /\ Reader(c, FALSE, <<>>) \in Readers
  BY NewReader
<1> PICK x \in Readers : x = Reader(c, FALSE, <<>>)
  BY <1>1, Zenon
<1>2. x.buf = <<>> /\ x = NewSse
  BY DEF Reader, NewSse
<1>3. RunSseTurns(x) = x
  BY <1>2, NoBoundary, SseRests
<1> QED
  BY <1>1, <1>2, <1>3, Zenon

LEMMA LayersStart ==
  ASSUME NEW r \in Responses, NEW w, w = encode_chunked_sse(r)
  PROVE  Carried(r, w, 0) /\ After(NewDecoder, w, 0) = NewDecoder
<1>1. w \in Seq(Mark)
  <2>1. PICK tail \in Text : tail = CRLF \o r.rest
    <3>1. r.rest \in Seq(Bytes)
      BY ResponseTyped DEF Text
    <3> QED
      BY <3>1, BehindLineEnd, Zenon DEF Text
  <2>2. PICK h \in Seq(Mark), z \in Seq(Mark) : h = Opening(r) /\ z = Framing(tail)
    BY HeadPasses, MarksOf
  <2>3. w = h \o z
    BY <2>1, <2>2, Zenon DEF encode_chunked_sse, Opening, Chunks, ChunkOf
  <2> QED
    BY <2>3
<1>2. Carried(r, w, 0)
  BY <1>1 DEF Carried
<1>3. Tokens(SubSeq(w, 1, 0)) = <<>>
  BY <1>1, NoTokens, Zenon
<1> PICK d : d = Decoder("ReadingSize", 0, <<>>, <<>>)
  OBVIOUS
<1>4. d.pending = <<>> /\ d.state = "ReadingSize" /\ d.remaining = 0 /\ d.decoded = <<>>
  BY Fields
<1>5. RunTurns(d) = d
  <2>1. "ReadingSize" \in States /\ "ReadingSize" # "ReadingData" /\ 0 \in Nat
    BY DEF States
  <2> QED
    BY <2>1, RestsEmpty, NoTokens
<1>6. <<>> \o <<>> = <<>>
  BY NoTokens
<1>7. ChunkedFeed(d, <<>>) = RunTurns(Decoder("ReadingSize", 0, <<>> \o <<>>, <<>>))
  BY <1>4, Zenon DEF ChunkedFeed
<1>8. ChunkedFeed(d, <<>>) = d
  BY <1>5, <1>6, <1>7, Zenon
<1> QED
  BY <1>2, <1>3, <1>8, Zenon DEF After, NewDecoder

\* The reader given what the decoder has added is the reader given all of it.
LEMMA ReaderGrows ==
  ASSUME NEW c \in Seq(Bytes), NEW x \in Seq(Bytes), NEW r, NEW heard, Hears(r, heard, c)
  PROVE  Hears(SseFeed(r, x), heard \o SseFeed(r, x).events, c \o x)
<1> PICK whole : whole = SseFeed(NewSse, c)
  OBVIOUS
<1>1. r.buf = whole.buf /\ r.done = whole.done /\ heard = whole.events
  BY Zenon DEF Hears
<1>2. SseFeed(NewSse, c \o x) = Behind(heard, SseFeed(r, x))
  BY <1>1, SseMoreComes
<1> PICK z : z = SseFeed(r, x)
  OBVIOUS
<1>3. Behind(heard, z).buf = z.buf /\ Behind(heard, z).done = z.done
      /\ Behind(heard, z).events = heard \o z.events
  BY DEF Behind, Reader
<1> QED
  BY <1>2, <1>3, Zenon DEF Hears

Continues(c, e) == c \in Seq(Bytes) /\ \E x \in Seq(Bytes) : e = c \o x

LEMMA BodyComes ==
  ASSUME NEW r, NEW w, NEW i, NEW j, Carried(r, w, i), Carried(r, w, j), i <= j,
         NEW c, c = After(NewDecoder, w, i).decoded, NEW e, e = After(NewDecoder, w, j).decoded
  PROVE  Continues(c, e)
<1>1. \A k : Carried(r, w, k) => After(NewDecoder, w, k).decoded = BodyIn(SubSeq(w, 1, k))
  BY DecodesTheBody DEF Carried
<1>2. c = BodyIn(SubSeq(w, 1, i)) /\ e = BodyIn(SubSeq(w, 1, j))
  BY <1>1, Zenon
<1> PICK x : x = BodyIn(SubSeq(w, i+1, j))
  OBVIOUS
<1>3. x \in Seq(Bytes) /\ c \in Seq(Bytes) /\ e = c \o x
  <2>1. AlongTheWire(w, i, j)
    BY NextBytes
  <2> QED
    BY <1>2, <2>1, Zenon DEF AlongTheWire
<1> QED
  BY <1>3, Zenon DEF Continues

LEMMA HearsMore ==
  ASSUME NEW c \in Seq(Bytes), NEW x \in Seq(Bytes), NEW e, e = c \o x,
         NEW reader, NEW heard, Hears(reader, heard, c)
  PROVE  IF Len(e) > Len(c)
         THEN LET z == SseFeed(reader, Drop(e, Len(c)))
              IN  Hears(z, heard \o z.events, e)
         ELSE Hears(reader, heard, e)
<1>1. Len(e) = Len(c) + Len(x) /\ Len(c) \in Nat /\ Len(x) \in Nat /\ Drop(e, Len(c)) = x
  <2>1. SubSeq(c \o x, Len(c) + 1, Len(c \o x)) = x
    OBVIOUS
  <2> QED
    BY <2>1 DEF Drop
<1>3. CASE Len(x) > 0
  <2> PICK z : z = SseFeed(reader, x)
    OBVIOUS
  <2>1. Hears(z, heard \o z.events, c \o x)
    BY ReaderGrows
  <2>2. Len(e) > Len(c)
    BY <1>1, <1>3
  <2> QED
    BY <1>1, <2>1, <2>2, Zenon
<1>4. CASE Len(x) = 0
  <2>1. x = <<>>
    BY <1>4, EmptySeq
  <2>2. e = c /\ ~ Len(e) > Len(c)
    BY <1>1, <1>4, <2>1
  <2> QED
    BY <2>2, Zenon
<1> QED
  BY <1>1, <1>3, <1>4

LEMMA LayersStep ==
  ASSUME LayersInv, [ReassemblyNext]_layers
  PROVE  LayersInv'
<1>1. ASSUME NEW n \in 1..Len(wire.bytes), Read(n) PROVE LayersInv'
  <2> PICK r, w, i, j : r = wire.response /\ w = wire.bytes /\ i = fed /\ j = fed + n
    OBVIOUS
  <2>1. Carried(r, w, i) /\ chunked = After(NewDecoder, w, i) /\ Hears(sse, collected, chunked.decoded)
    BY Zenon DEF LayersInv, OnTheWire, DecoderInv, ReaderInv
  <2>2. /\ wire' = wire /\ fed' = j /\ j <= Len(w)
        /\ chunked' = ChunkedFeed(chunked, Tokens(SubSeq(w, i+1, j)))
    BY <1>1 DEF Read, Deliver
  <2>3. i \in 0..Len(w) /\ r \in Responses /\ w = encode_chunked_sse(r)
    BY <2>1, Zenon DEF Carried
  <2>4. j \in 0..Len(w) /\ i <= j
    BY <1>1, <2>2, <2>3
  <2>5. Carried(r, w, j)
    BY <2>3, <2>4, Zenon DEF Carried
  <2>6. chunked' = After(NewDecoder, w, j)
    <3>1. AlongTheWire(w, i, j)
      BY <2>1, <2>4, <2>5, NextBytes
    <3> QED
      BY <2>1, <2>2, <3>1, Zenon DEF AlongTheWire
  <2> PICK c, e : c = chunked.decoded /\ e = chunked'.decoded
    OBVIOUS
  <2>7. PICK x \in Seq(Bytes) : c \in Seq(Bytes) /\ e = c \o x
    <3>1. c = After(NewDecoder, w, i).decoded /\ e = After(NewDecoder, w, j).decoded
      BY <2>1, <2>6, Zenon
    <3>2. Continues(c, e)
      BY <2>1, <2>4, <2>5, <3>1, BodyComes
    <3> QED
      BY <3>2, Zenon DEF Continues
  <2>8. IF Len(e) > Len(c)
        THEN sse' = SseFeed(sse, Drop(e, Len(c))) /\ collected' = collected \o sse'.events
        ELSE sse' = sse /\ collected' = collected
    BY <1>1 DEF Read, Deliver
  <2>9. Hears(sse', collected', e)
    <3> PICK reader, heard : reader = sse /\ heard = collected
      OBVIOUS
    <3>1. Hears(reader, heard, c)
      BY <2>1, Zenon
    <3>2. IF Len(e) > Len(c)
          THEN LET z == SseFeed(reader, Drop(e, Len(c)))
               IN  Hears(z, heard \o z.events, e)
          ELSE Hears(reader, heard, e)
      BY <2>7, <3>1, HearsMore
    <3> QED
      BY <2>8, <3>2, Zenon
  <2>10. OnTheWire' /\ DecoderInv' /\ ReaderInv'
    BY <2>2, <2>5, <2>6, <2>9 DEF OnTheWire, DecoderInv, ReaderInv
  <2> QED
    BY <2>10, Zenon DEF LayersInv
<1>2. CASE UNCHANGED layers
  BY <1>2 DEF layers, LayersInv, OnTheWire, DecoderInv, ReaderInv
<1> QED
  BY <1>1, <1>2 DEF ReassemblyNext

LEMMA LayersHold == ReassemblySpec => []LayersInv
<1>1. ReassemblyInit => LayersInv
  <2> SUFFICES ASSUME ReassemblyInit PROVE LayersInv
    OBVIOUS
  <2>1. PICK r \in Responses : wire = [response |-> r, bytes |-> encode_chunked_sse(r)]
    BY DEF ReassemblyInit
  <2> PICK w : w = encode_chunked_sse(r)
    OBVIOUS
  <2>2. wire.response = r /\ wire.bytes = w
    BY <2>1
  <2>3. fed = 0 /\ chunked = NewDecoder /\ sse = NewSse /\ collected = <<>>
    BY DEF ReassemblyInit
  <2>4. Carried(r, w, 0) /\ After(NewDecoder, w, 0) = NewDecoder
    BY LayersStart
  <2>5. NewDecoder.decoded = <<>> /\ NewSse.events = <<>>
    BY DEF NewDecoder, NewSse, Decoder
  <2>6. ReaderInv
    BY <2>3, <2>5, ReaderStarts, Zenon DEF ReaderInv, Hears
  <2> QED
    BY <2>2, <2>3, <2>4, <2>6, Zenon DEF LayersInv, OnTheWire, DecoderInv
<1>2. LayersInv /\ [ReassemblyNext]_layers => LayersInv'
  BY LayersStep
<1> QED
  BY <1>1, <1>2, PTL DEF ReassemblySpec

LEMMA LayersMean ==
  ASSUME LayersInv
  PROVE  DecodedIsBody /\ EventsAreExact /\ DoneIsExact
<1> PICK r, w, i, c : r = wire.response /\ w = wire.bytes /\ i = fed /\ c = BodyIn(SubSeq(w, 1, i))
  OBVIOUS
<1>1. Carried(r, w, i) /\ chunked = After(NewDecoder, w, i)
  BY Zenon DEF LayersInv, OnTheWire, DecoderInv
<1>2. /\ chunked.decoded = c
      /\ i >= Len(w) - Len(r.rest) => chunked.state = "Done"
      /\ chunked.state = "Done" => c = Body(r)
  BY <1>1, DecodesTheBody, ZenonT(30) DEF Carried
<1>3. Exact(r, c)
  BY <1>1, HearsTheEvents
<1>4. sse.done = SseFeed(NewSse, c).done /\ collected = SseFeed(NewSse, c).events
  BY <1>2, Zenon DEF LayersInv, ReaderInv, Hears
<1>5. /\ collected = EventsWithin(r, c)
      /\ sse.done <=> Closed(c) > Len(r.events)
  BY <1>3, <1>4, Zenon DEF Exact
<1> QED
  BY <1>2, <1>5 DEF DecodedIsBody, EventsAreExact, DoneIsExact, Arrived

\* Wherever TCP cut the stream, `decoded` holds exactly the body bytes that
\* have arrived.
THEOREM DecodedExactly == ReassemblySpec => []DecodedIsBody
BY LayersHold, LayersMean, PTL

\* Wherever TCP cut the stream, the caller has heard exactly the events that
\* were complete in it, once and in order.
THEOREM EventsExactly == ReassemblySpec => []EventsAreExact
BY LayersHold, LayersMean, PTL

\* The decoder is Done and the sentinel seen when the response has arrived, and
\* not before.
THEOREM EndsExactly == ReassemblySpec => []DoneIsExact
BY LayersHold, LayersMean, PTL
=============================================================================

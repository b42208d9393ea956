----------------------------- MODULE AuditProofs -----------------------------
(***************************************************************************)
(* What audits by samples find: a region of memory through spot checks of  *)
(* its blocks (MemoryWipe), and provers through verified outputs           *)
(* (SamplingAudit), for any model, noise, prompts, hidden bits, budgets,   *)
(* lengths and numbers of blocks, requests and attempts.                   *)
(***************************************************************************)
EXTENDS DifrProofs, SamplingAudit, MemoryWipe, TLAPS

-----------------------------------------------------------------------------
(* Spot checks *)

\* Parents come before their children; the region has its blocks.
WipeInv ==
  /\ second_parent \in [Blocks -> Blocks]
  /\ \A i \in Blocks : second_parent[i] < i \/ (i = 0 /\ second_parent[i] = 0)
  /\ region = [i \in Blocks |-> region[i]]

\* A label depends on earlier blocks alone.
LEMMA LabelReadsParents ==
  ASSUME WipeInv, NEW i \in Blocks, NEW x, NEW y, \A j \in 0..(i-1) : x[j] = y[j]
  PROVE  label_node(i, x) = label_node(i, y)
<1>1. CASE i = 0
  BY <1>1 DEF label_node
<1>2. CASE i # 0
  <2>1. i - 1 \in 0..(i-1) /\ second_parent[i] \in 0..(i-1)
    BY <1>2, WipeAssumption DEF WipeInv, Blocks
  <2>2. x[i-1] = y[i-1] /\ x[second_parent[i]] = y[second_parent[i]]
    BY <2>1
  <2> QED
    BY <1>2, <2>2 DEF label_node
<1> QED
  BY <1>1, <1>2

\* The k blocks that a pass has done hold the labels of their parents' labels.
Passed(f, k) ==
  /\ f = [i \in Blocks |-> f[i]]
  /\ \A i \in 0..(k-1) : f[i] = label_node(i, f)

LEMMA PassLabelsBlock ==
  ASSUME WipeInv, NEW k \in Blocks, NEW f, Passed(f, k),
         NEW g, g = [f EXCEPT ![k] = label_node(k, f)]
  PROVE  Passed(g, k + 1)
<1>1. k \in Nat /\ n_blocks \in Nat /\ k < n_blocks
  BY WipeAssumption DEF Blocks
<1>2. f = [i \in Blocks |-> f[i]] /\ \A i \in 0..(k-1) : f[i] = label_node(i, f)
  BY DEF Passed
<1>3. PICK new : new = label_node(k, f)
  OBVIOUS
<1>4. g = [i \in Blocks |-> IF i = k THEN new ELSE f[i]]
  BY <1>2, <1>3
<1>5. \A i \in 0..k : i \in Blocks /\ \A j \in 0..(i-1) : j \in Blocks /\ j # k
  BY <1>1 DEF Blocks
<1>6. ASSUME NEW i \in 0..k PROVE g[i] = label_node(i, g)
  <2>1. \A j \in 0..(i-1) : f[j] = g[j]
    BY <1>4, <1>5
  <2>2. label_node(i, f) = label_node(i, g)
    BY <1>5, <2>1, LabelReadsParents
  <2>3. CASE i = k
    BY <1>3, <1>4, <2>2, <2>3
  <2>4. CASE i # k
    <3>1. i \in 0..(k-1)
      BY <1>1, <2>4
    <3> QED
      BY <1>2, <1>4, <1>5, <2>2, <2>4, <3>1
  <2> QED
    BY <2>3, <2>4
<1>7. (k + 1) - 1 = k
  BY <1>1
<1>8. g = [i \in Blocks |-> g[i]]
  <2>1. \E h : g = [i \in Blocks |-> h[i]]
    <3> DEFINE h == [i \in Blocks |-> IF i = k THEN new ELSE f[i]]
    <3>1. \A i \in Blocks : h[i] = IF i = k THEN new ELSE f[i]
      OBVIOUS
    <3>2. g = [i \in Blocks |-> h[i]]
      BY <1>4, <3>1
    <3> HIDE DEF h
    <3> QED
      BY <3>2
  <2> QED
    BY <2>1
<1> QED
  BY <1>6, <1>7, <1>8 DEF Passed

LEMMA LabelledIsPassed ==
  ASSUME WipeInv
  PROVE  Passed(Labelled, n_blocks)
<1>1. n_blocks \in Nat
  BY WipeAssumption
<1> DEFINE Next1(f, k) == [f EXCEPT ![k-1] = label_node(k-1, f)]
           Unrolls(p, m) ==
             p = [k \in 0..m |-> IF k = 0 THEN [i \in Blocks |-> Untouched] ELSE Next1(p[k-1], k)]
           P == {m \in 0..n_blocks : \E p : Unrolls(p, m)}
<1>2. 0 \in P
  <2> DEFINE g == [k \in 0..0 |-> [i \in Blocks |-> Untouched]]
  <2>1. PICK start : start = [i \in Blocks |-> Untouched]
    OBVIOUS
  <2>2. ASSUME NEW k \in 0..0 PROVE start = IF k = 0 THEN start ELSE Next1(g[k-1], k)
    <3>1. k = 0
      OBVIOUS
    <3> QED
      BY <3>1, Zenon
  <2>3. g = [k \in 0..0 |-> IF k = 0 THEN start ELSE Next1(g[k-1], k)]
    <3> HIDE DEF Next1
    <3> QED
      BY <2>1, <2>2
  <2>4. Unrolls(g, 0)
    BY <2>1, <2>3, Zenon
  <2> HIDE DEF g, Unrolls
  <2> QED
    BY <1>1, <2>4, 0 \in 0..n_blocks
<1>3. ASSUME NEW m \in 0..(n_blocks-1), m \in P PROVE m+1 \in P
  <2>1. PICK p : Unrolls(p, m)
    BY <1>3
  <2>2. PICK start : start = [i \in Blocks |-> Untouched]
    OBVIOUS
  <2> DEFINE g == [k \in 0..(m+1) |-> IF k <= m THEN p[k] ELSE Next1(p[m], m+1)]
  <2>3. ASSUME NEW k \in 0..(m+1)
        PROVE  g[k] = IF k = 0 THEN start ELSE Next1(g[k-1], k)
    <3> HIDE DEF Next1
    <3>1. CASE k = m+1
      BY <3>1
    <3>2. CASE k <= m
      <4>1. p[k] = IF k = 0 THEN start ELSE Next1(p[k-1], k)
        BY <2>1, <2>2, <3>2
      <4> QED
        BY <4>1, <3>2
    <3> QED
      BY <3>1, <3>2
  <2>4. g = [k \in 0..(m+1) |-> IF k = 0 THEN start ELSE Next1(g[k-1], k)]
    <3> HIDE DEF Next1
    <3> QED
      BY <2>3
  <2>5. Unrolls(g, m+1)
    BY <2>2, <2>4, Zenon
  <2>6. m+1 \in 0..n_blocks
    BY <1>1, <1>3
  <2> HIDE DEF g, Unrolls
  <2> QED
    BY <2>5, <2>6
<1>4. n_blocks \in P
  <2> HIDE DEF P
  <2> QED
    BY <1>1, <1>2, <1>3, IntervalInduction, n_blocks \in 0..n_blocks
<1> DEFINE pass == CHOOSE p : Unrolls(p, n_blocks)
<1>5. Unrolls(pass, n_blocks)
  <2>1. PICK p : Unrolls(p, n_blocks)
    BY <1>4
  <2> HIDE DEF Unrolls
  <2> QED
    BY <2>1
<1>6. Labelled = pass[n_blocks]
  BY DEF Labelled
<1> HIDE DEF pass
<1>7. /\ pass[0] = [i \in Blocks |-> Untouched]
      /\ \A k \in 1..n_blocks : pass[k] = Next1(pass[k-1], k)
  <2> HIDE DEF Next1
  <2>1. 0 \in 0..n_blocks /\ \A k \in 1..n_blocks : k \in 0..n_blocks /\ k # 0
    BY <1>1
  <2> QED
    BY <1>5, <2>1, Zenon
<1> DEFINE Q == {k \in 0..n_blocks : Passed(pass[k], k)}
<1>8. 0 \in Q
  <2>1. pass[0] = [i \in Blocks |-> pass[0][i]]
    BY <1>7
  <2> QED
    BY <1>1, <2>1 DEF Passed
<1>9. ASSUME NEW k \in 0..(n_blocks-1), k \in Q PROVE k+1 \in Q
  <2>1. k \in Blocks /\ k+1 \in 1..n_blocks /\ k+1 \in 0..n_blocks /\ (k+1) - 1 = k
    BY <1>1 DEF Blocks
  <2>2. pass[k+1] = [pass[k] EXCEPT ![k] = label_node(k, pass[k])]
    BY <1>7, <2>1
  <2>3. Passed(pass[k], k)
    BY <1>9
  <2>4. Passed(pass[k+1], k+1)
    BY <2>1, <2>2, <2>3, PassLabelsBlock
  <2> QED
    BY <2>1, <2>4
<1>10. n_blocks \in Q
  <2> HIDE DEF Q
  <2> QED
    BY <1>1, <1>8, <1>9, IntervalInduction, n_blocks \in 0..n_blocks
<1> QED
  BY <1>6, <1>10

\* Labels that fit one another are the same, from the first block on.
LEMMA LabelsAreUnique ==
  ASSUME WipeInv, NEW x, Passed(x, n_blocks), NEW y, Passed(y, n_blocks)
  PROVE  x = y
<1>1. n_blocks \in Nat /\ Blocks = 0..(n_blocks - 1)
  BY WipeAssumption DEF Blocks
<1> DEFINE P == {k \in 0..n_blocks : \A j \in 0..(k-1) : x[j] = y[j]}
<1>2. 0 \in P
  BY <1>1
<1>3. ASSUME NEW k \in 0..(n_blocks-1), k \in P PROVE k+1 \in P
  <2>1. k \in Blocks /\ k+1 \in 0..n_blocks /\ \A j \in 0..((k+1)-1) : j = k \/ j \in 0..(k-1)
    BY <1>1
  <2>2. label_node(k, x) = label_node(k, y)
    BY <1>3, <2>1, LabelReadsParents
  <2>3. x[k] = y[k]
    BY <1>1, <2>1, <2>2 DEF Passed
  <2> QED
    BY <1>3, <2>1, <2>3
<1>4. n_blocks \in P
  <2> HIDE DEF P
  <2> QED
    BY <1>1, <1>2, <1>3, IntervalInduction, n_blocks \in 0..n_blocks
<1> QED
  BY <1>1, <1>4, Zenon DEF Passed

THEOREM WipeInvariant == WipeSpec => []WipeInv
<1>1. WipeInit => WipeInv
  BY DEF WipeInit, WipeInv
<1>2. WipeInv /\ [WipeNext]_wipeVars => WipeInv'
  BY DEF WipeInv, WipeNext, Label, Overwrite, Flip, wipeVars
<1> QED
  BY <1>1, <1>2, PTL DEF WipeSpec

\* However blocks are left out, made up, flipped or overwritten, and whatever earlier
\* block is the second parent of each: every block passes its spot check exactly if
\* the region is what an honest first pass leaves.
THEOREM SpotChecksPin == WipeSpec => []SpotChecksPinTheRegion
<1>1. WipeInv => SpotChecksPinTheRegion
  <2> SUFFICES ASSUME WipeInv PROVE SpotChecksPinTheRegion
    OBVIOUS
  <2>1. Passed(Labelled, n_blocks)
    BY LabelledIsPassed
  <2>2. (\A i \in Blocks : spot_check(i)) <=> Passed(region, n_blocks)
    BY DEF spot_check, Passed, WipeInv, Blocks
  <2> QED
    BY <2>1, <2>2, LabelsAreUnique, Zenon DEF SpotChecksPinTheRegion
<1> QED
  BY <1>1, WipeInvariant, PTL

-----------------------------------------------------------------------------
(* The best tokens of a position *)

LEMMA HighestExists ==
  ASSUME NEW S, IsFiniteSet(S), S # {}, NEW s, \A t \in S : s[t] \in Int
  PROVE  \E t \in S : \A u \in S : s[u] <= s[t]
<1> DEFINE Above(t) == {u \in S : s[u] > s[t]}
           T == {Above(t) : t \in S}
<1>1. IsWellFoundedOn(StrictSubsetOrdering(S), FiniteSubsetsOf(S))
  BY FS_StrictSubsetOrderingWellFounded
<1>2. T \subseteq FiniteSubsetsOf(S)
  <2>1. ASSUME NEW t \in S PROVE Above(t) \in FiniteSubsetsOf(S)
    <3>1. Above(t) \subseteq S
      OBVIOUS
    <3> HIDE DEF Above
    <3>2. IsFiniteSet(Above(t))
      BY <3>1, FS_Subset
    <3> QED
      BY <3>1, <3>2 DEF FiniteSubsetsOf
  <2> QED
    BY <2>1
<1>3. PICK A \in T : \A B \in T : ~ (<<B, A>> \in StrictSubsetOrdering(S))
  <2>1. T # {}
    OBVIOUS
  <2> HIDE DEF T
  <2> QED
    BY <1>1, <1>2, <2>1, WFMin
<1>4. PICK t \in S : A = Above(t)
  BY <1>3
<1>5. ASSUME NEW u \in S, s[u] > s[t] PROVE FALSE
  <2>1. Above(u) \in T
    OBVIOUS
  <2>2. Above(u) \subseteq Above(t) /\ u \in Above(t) /\ u \notin Above(u)
    BY <1>5
  <2>3. Above(u) \in SUBSET S /\ Above(t) \in SUBSET S
    OBVIOUS
  <2> HIDE DEF Above, T
  <2>4. <<Above(u), Above(t)>> \in StrictSubsetOrdering(S)
    BY <2>2, <2>3, Zenon DEF StrictSubsetOrdering
  <2> QED
    BY <1>3, <1>4, <2>1, <2>4
<1>6. \A u \in S : s[u] <= s[t]
  BY <1>5
<1> QED
  BY <1>6

\* Whatever a model's scores are, what is taken for the best token is a token.
LEMMA TopIsToken ==
  ASSUME NEW s \in [Vocab -> Int]
  PROVE  Top(s) \in Vocab
<1>1. Vocab # {} /\ \A t \in Vocab : s[t] \in Int
  BY DifrAssumption
<1>2. \E t \in Vocab : \A u \in Vocab : s[u] <= s[t]
  BY <1>1, HighestExists, SamplingAssumption
<1> QED
  BY <1>2 DEF Top

LEMMA SecondIs ==
  ASSUME NEW s, HasTop(s)
  PROVE  /\ Second(s) \in Vocab /\ Second(s) # Top(s)
         /\ \A u \in Vocab \ {Top(s)} : s[u] <= s[Second(s)]
<1> DEFINE S == Vocab \ {Top(s)}
<1>1. S # {}
  BY SamplingAssumption
<1>2. IsFiniteSet(S)
  BY SamplingAssumption, FS_Subset
<1>3. \A t \in S : s[t] \in Int
  BY DEF HasTop
<1>4. \E t \in S : \A u \in S : s[u] <= s[t]
  <2> HIDE DEF S
  <2> QED
    BY <1>1, <1>2, <1>3, HighestExists
<1> QED
  BY <1>4 DEF Second

\* Only the best token scores more than the runner-up, which is therefore never
\* outside the top k: it deviates by the difference, clipped, and by more than nothing.
LEMMA SecondDeviation ==
  ASSUME NEW s, HasTop(s), NEW cost, cost = s[Top(s)] - s[Second(s)]
  PROVE  /\ cost \in Nat \ {0}
         /\ PerToken(s, Second(s)).deviation = (IF cost < DELTA_MAX THEN cost ELSE DELTA_MAX)
<1> DEFINE top == Top(s)
           second == Second(s)
           above == {u \in Vocab : s[u] > s[second]}
           dev == IF cost < DELTA_MAX THEN cost ELSE DELTA_MAX
           big == cost >= DELTA_MAX
<1>1. top \in Vocab /\ \A u \in Vocab \ {top} : s[u] < s[top]
  BY TopIsTop
<1>2. second \in Vocab /\ second # top /\ \A u \in Vocab \ {top} : s[u] <= s[second]
  BY SecondIs
<1>3. \A u \in Vocab : s[u] \in Int
  BY DEF HasTop
<1> HIDE DEF top, second
<1>4. s[second] < s[top] /\ s[second] \in Int /\ s[top] \in Int
  BY <1>1, <1>2, <1>3
<1>5. above = {top}
  BY <1>1, <1>2, <1>3, <1>4
<1>6. Cardinality(above) = 1
  BY <1>5, FS_Singleton, Zenon
<1>7. cost \in Nat \ {0}
  BY <1>4 DEF top, second
<1>8. PerToken(s, second) = [deviation |-> dev, clipped |-> big]
  <2>1. cost = s[top] - s[second]
    BY DEF top, second
  <2>2. Cardinality(above) < TOP_K
    BY <1>6, SamplingAssumption
  <2>3. PerToken(s, second) =
          IF Cardinality(above) < TOP_K
          THEN [deviation |-> IF s[top] - s[second] < DELTA_MAX THEN s[top] - s[second] ELSE DELTA_MAX,
                clipped |-> s[top] - s[second] >= DELTA_MAX]
          ELSE [deviation |-> DELTA_MAX, clipped |-> TRUE]
    BY Zenon DEF PerToken, top
  <2> HIDE DEF above
  <2> QED
    BY <2>1, <2>2, <2>3, Zenon
<1>9. PerToken(s, second).deviation = dev
  <2> HIDE DEF dev, big
  <2> QED
    BY <1>8
<1> QED
  BY <1>7, <1>9 DEF second

-----------------------------------------------------------------------------
(* The verifier's windows, as an output grows *)

LEMMA ContextIs ==
  ASSUME NEW p \in Seq(Vocab), NEW o \in Seq(Vocab), NEW i \in 1..Len(o)
  PROVE  Context(p \o o, Len(p) + i - 1) = LeftPad(LastTokens(p \o SubSeq(o, 1, i-1)))
<1> DEFINE full == p \o o
           before == SubSeq(o, 1, i-1)
           seen == p \o before
<1>1. before \in Seq(Vocab) /\ Len(before) = i-1 /\ \A j \in 1..(i-1) : before[j] = o[j]
  OBVIOUS
<1>2. full \in Seq(Vocab) /\ Len(full) = Len(p) + Len(o)
  OBVIOUS
<1> HIDE DEF before
<1>3. seen \in Seq(Vocab) /\ Len(seen) = Len(p) + i - 1 /\ Len(seen) <= Len(full)
  <2>1. seen \in Seq(Vocab) /\ Len(seen) = Len(p) + Len(before)
    <3>1. before \in Seq(Vocab)
      BY <1>1
    <3> HIDE DEF full
    <3> QED
      BY <3>1
  <2>2. Len(p) \in Nat /\ Len(o) \in Nat
    OBVIOUS
  <2> HIDE DEF seen, full
  <2> QED
    BY <1>1, <1>2, <2>1, <2>2, SMTT(20)
<1>4. ASSUME NEW j \in 1..Len(seen) PROVE seen[j] = full[j]
  <2>1. CASE j <= Len(p)
    BY <1>1, <1>3, <2>1
  <2>2. CASE j > Len(p)
    <3>1. j - Len(p) \in 1..(i-1) /\ j \in 1..Len(full)
      BY <1>3, <1>2, <2>2
    <3>2. seen[j] = before[j - Len(p)] /\ full[j] = o[j - Len(p)]
      BY <1>1, <1>2, <1>3, <2>2, <3>1
    <3> QED
      BY <1>1, <3>1, <3>2
  <2> QED
    BY <1>3, <2>1, <2>2
<1>5. Context(full, Len(p) + i - 1) = LeftPad(LastTokens(seen))
  <2> HIDE DEF seen, full
  <2> QED
    BY <1>2, <1>3, <1>4, SameWindow
<1> QED
  BY <1>5 DEF before

LEMMA PrefixesStay ==
  ASSUME NEW o \in Seq(Vocab), NEW t \in Vocab
  PROVE  /\ Append(o, t) \in Seq(Vocab) /\ Len(Append(o, t)) = Len(o) + 1
         /\ \A i \in 1..Len(o) : Append(o, t)[i] = o[i]
         /\ Append(o, t)[Len(o) + 1] = t
         /\ \A i \in 1..Len(o) : SubSeq(Append(o, t), 1, i-1) = SubSeq(o, 1, i-1)
         /\ SubSeq(Append(o, t), 1, Len(o)) = o
OBVIOUS

LEMMA ContextGrows ==
  ASSUME NEW p \in Seq(Vocab), NEW o \in Seq(Vocab), NEW t \in Vocab
  PROVE  /\ \A i \in 1..Len(o) : Context(p \o Append(o, t), Len(p) + i - 1) = Context(p \o o, Len(p) + i - 1)
         /\ Context(p \o Append(o, t), Len(p) + (Len(o) + 1) - 1) = LeftPad(LastTokens(p \o o))
<1>1. PICK grown : grown = Append(o, t)
  OBVIOUS
<1>2. /\ grown \in Seq(Vocab) /\ Len(grown) = Len(o) + 1
      /\ \A i \in 1..Len(o) : SubSeq(grown, 1, i-1) = SubSeq(o, 1, i-1)
      /\ SubSeq(grown, 1, Len(o)) = o
  BY <1>1, PrefixesStay
<1>3. ASSUME NEW i \in 1..Len(o)
      PROVE  Context(p \o grown, Len(p) + i - 1) = Context(p \o o, Len(p) + i - 1)
  <2>1. i \in 1..Len(grown)
    BY <1>2
  <2>2. Context(p \o grown, Len(p) + i - 1) = LeftPad(LastTokens(p \o SubSeq(grown, 1, i-1)))
    BY <1>2, <2>1, ContextIs
  <2>3. Context(p \o o, Len(p) + i - 1) = LeftPad(LastTokens(p \o SubSeq(o, 1, i-1)))
    BY ContextIs
  <2> QED
    BY <1>2, <2>2, <2>3, Zenon
<1>4. Context(p \o grown, Len(p) + (Len(o) + 1) - 1) = LeftPad(LastTokens(p \o o))
  <2>1. Len(o) + 1 \in 1..Len(grown) /\ (Len(o) + 1) - 1 = Len(o)
    BY <1>2
  <2>2. Context(p \o grown, Len(p) + (Len(o) + 1) - 1)
          = LeftPad(LastTokens(p \o SubSeq(grown, 1, (Len(o) + 1) - 1)))
    BY <1>2, <2>1, ContextIs
  <2> QED
    BY <1>2, <2>1, <2>2, Zenon
<1> QED
  BY <1>1, <1>3, <1>4, Zenon

\* The verdict on a token stays what it was while more tokens follow.
LEMMA TokensGrow ==
  ASSUME NEW p \in Seq(Vocab), NEW o \in Seq(Vocab), NEW t \in Vocab, NEW sd, NEW T
  PROVE  /\ \A i \in 1..Len(o) : per_token(p, Append(o, t), sd, T)[i] = per_token(p, o, sd, T)[i]
         /\ per_token(p, Append(o, t), sd, T)[Len(o) + 1]
              = PerToken(Scores(LeftPad(LastTokens(p \o o)), sd, Len(p) + Len(o), T), t)
<1>1. PICK grown : grown = Append(o, t)
  OBVIOUS
<1>2. /\ grown \in Seq(Vocab) /\ Len(grown) = Len(o) + 1
      /\ \A i \in 1..Len(o) : grown[i] = o[i]
      /\ grown[Len(o) + 1] = t
  BY <1>1, PrefixesStay
<1>3. /\ \A i \in 1..Len(o) : Context(p \o grown, Len(p) + i - 1) = Context(p \o o, Len(p) + i - 1)
      /\ Context(p \o grown, Len(p) + (Len(o) + 1) - 1) = LeftPad(LastTokens(p \o o))
  BY <1>1, ContextGrows
<1> DEFINE At(c, i) == PerToken(Scores(Context(p \o c, Len(p) + i - 1), sd, Len(p) + i - 1, T), c[i])
<1>4. \A c : \A i \in 1..Len(c) : per_token(p, c, sd, T)[i] = At(c, i)
  BY DEF per_token
<1>5. \A i \in 1..Len(o) : i \in 1..Len(grown)
  BY <1>2
<1>6. ASSUME NEW i \in 1..Len(o) PROVE per_token(p, grown, sd, T)[i] = per_token(p, o, sd, T)[i]
  <2>1. At(grown, i) = At(o, i)
    BY <1>2, <1>3, Zenon
  <2> HIDE DEF At
  <2> QED
    BY <1>4, <1>5, <2>1
<1>7. per_token(p, grown, sd, T)[Len(o) + 1]
        = PerToken(Scores(LeftPad(LastTokens(p \o o)), sd, Len(p) + Len(o), T), t)
  <2>1. Len(o) + 1 \in 1..Len(grown) /\ Len(p) + (Len(o) + 1) - 1 = Len(p) + Len(o)
    BY <1>2
  <2>2. per_token(p, grown, sd, T)[Len(o) + 1] = At(grown, Len(o) + 1)
    BY <1>4, <2>1, Zenon
  <2> QED
    BY <1>2, <1>3, <2>1, <2>2, Zenon
<1> QED
  BY <1>1, <1>6, <1>7, Zenon

-----------------------------------------------------------------------------
(* Totals *)

\* Deviations of at most c each add up to at most c times their number.
LEMMA TotalIsBounded ==
  ASSUME NEW tks, NEW n \in Nat, Len(tks) = n, NEW c \in Nat,
         \A i \in 1..n : tks[i].deviation \in Nat /\ tks[i].deviation <= c
  PROVE  Total(tks) <= c * n
<1>1. PICK sum : /\ sum = [k \in 0..n |-> IF k = 0 THEN 0 ELSE sum[k-1] + tks[k].deviation]
                 /\ Total(tks) = sum[n]
  BY SumDef
<1> DEFINE P == {k \in 0..n : sum[k] \in Nat /\ sum[k] <= c * k}
<1>2. 0 \in P
  <2>1. sum[0] = 0 /\ c * 0 = 0 /\ 0 \in 0..n
    BY <1>1
  <2> QED
    BY <2>1
<1>3. ASSUME NEW k \in 0..(n-1), k \in P PROVE k+1 \in P
  <2>1. k+1 \in 1..n /\ k+1 \in 0..n /\ (k+1) - 1 = k /\ k+1 # 0
    OBVIOUS
  <2>2. sum[k+1] = sum[k] + tks[k+1].deviation
    BY <1>1, <2>1
  <2>3. tks[k+1].deviation \in Nat /\ tks[k+1].deviation <= c /\ sum[k] \in Nat /\ sum[k] <= c * k
    BY <1>3, <2>1
  <2>4. c * (k+1) = c * k + c /\ c * k \in Int
    OBVIOUS
  <2> QED
    BY <2>1, <2>2, <2>3, <2>4
<1>4. n \in P
  <2> HIDE DEF P
  <2> QED
    BY <1>2, <1>3, IntervalInduction, n \in 0..n
<1> QED
  BY <1>1, <1>4

\* An output whose tokens deviate by at most c each is within c on average.
LEMMA AverageIsBounded ==
  ASSUME NEW p, NEW o, NEW n \in Nat, Len(o) = n, NEW sd, NEW T, NEW c \in Nat,
         \A i \in 1..n : /\ per_token(p, o, sd, T)[i].deviation \in Nat
                         /\ per_token(p, o, sd, T)[i].deviation <= c
  PROVE  avg_at_most(Recompute(p, o, sd, T), c)
<1>1. PICK tks : tks = per_token(p, o, sd, T)
  OBVIOUS
<1>2. Len(tks) = n
  BY <1>1 DEF per_token
<1>3. Total(tks) <= c * n
  BY <1>1, <1>2, TotalIsBounded
<1>4. Recompute(p, o, sd, T).total = Total(tks) /\ Recompute(p, o, sd, T).n_tokens = n
  BY <1>1 DEF Recompute
<1> QED
  BY <1>3, <1>4 DEF avg_at_most

-----------------------------------------------------------------------------
(* The provers' outputs, and what their trials count *)

\* The generators that take the verifier's choice.
Faithful == {"honest", "committed", "dormant"}
\* Those that hide bits.
Smugglers == {"stego", "committed_stego"}

Tallies == [trials : Int, created : Int, reported : Int, shopped_pass : Int,
            single_attempt_pass : Int, both_pass : Int]

SamplingTypeOK ==
  /\ prover \in Provers /\ seed \in Seeds
  /\ prompt \in Seq(Vocab) /\ Len(prompt) <= MaxText
  /\ out \in Seq(Vocab) /\ Len(out) <= MAX_TOKENS
  /\ scored \in Seq(Nat) /\ encoded \in Nat
  /\ attempt \in Nat /\ first_attempt_result \in BOOLEAN
  /\ devs \in Seq(Nat) /\ tally \in Tallies

FaithfulOK == generator \in Faithful => \A i \in 1..Len(out) : tokens[i].deviation = 0

\* The tokens that deviate at all.
deviating == Cardinality({i \in 1..Len(out) : tokens[i].deviation > 0})

SmugglingOK ==
  prover.by \in Smugglers =>
    /\ \A i \in 1..Len(out) : tokens[i].deviation <= PER_TOKEN_BUDGET
    /\ encoded <= Len(prover.bits)
    /\ deviating = Cardinality({j \in 1..encoded : prover.bits[j] = 1})

\* What was committed to at each position is what the verifier's model says there.
CommittedOK ==
  committed = IF prover.loop = "warden"
              THEN [i \in 1..Len(out) |->
                      commit(Logits(Context(prompt \o out, Len(prompt) + i - 1), prover.T))]
              ELSE <<>>

OutputOK == FaithfulOK /\ SelfScoreIsTheVerifiers /\ SmugglingOK /\ CommittedOK

\* A faithful prover's short output has passed; the two outputs of a prompt alternate;
\* the first attempt of a request that goes on has failed; and each attempt after the
\* first leaves a session that no further pass makes up for.
TrialsOK ==
  /\ HonestLeavesNoTrace
  /\ prover.by \in Faithful /\ prover.loop = "resampling" /\ attempt = 2 => first_attempt_result
  /\ prover.loop = "prompt_set" => (Len(devs) % 2 = 1 <=> attempt = 2)
  /\ prover.loop = "shopping" =>
       /\ attempt > 1 => ~ first_attempt_result
       /\ (tally.shopped_pass - tally.single_attempt_pass) + (IF attempt > 1 THEN attempt - 1 ELSE 0)
            <= tally.created - tally.reported - Open

SamplingInv == SamplingTypeOK /\ OutputOK /\ TrialsOK

\* Which generators run in which loops.
LEMMA KindOf ==
  ASSUME SamplingTypeOK
  PROVE  /\ prover.T \in Temperatures /\ prover.bits \in Seq({0, 1})
         /\ prover.loop # "prompt_set" => generator = prover.by
         /\ attempt # 1 => generator = prover.by
         /\ prover.loop = "prompt_set" /\ attempt = 1 => generator = "honest"
         /\ generator = "stego" <=> prover.by = "stego"
         /\ generator = "committed" <=> prover.by = "committed"
         /\ generator = "committed_stego" <=> prover.by = "committed_stego"
         /\ prover.loop = "warden" <=> generator \in {"committed", "committed_stego"}
         /\ prover.loop = "stego" <=> generator = "stego"
BY SamplingAssumption DEF SamplingTypeOK, generator

LEMMA Lengths0 ==
  ASSUME SamplingTypeOK
  PROVE  /\ Len(out) \in Nat /\ Len(out) <= MaxText /\ Len(prompt) \in Nat
         /\ max_tokens \in Nat /\ max_tokens <= MAX_TOKENS
         /\ position \in 0..(2 * MaxText)
<1>1. /\ SHORT_TOKENS \in 1..MAX_TOKENS /\ MAX_TOKENS \in 1..MaxText /\ MaxText \in Nat
  BY SamplingAssumption, DifrAssumption
<1>2. max_tokens \in {SHORT_TOKENS, MAX_TOKENS}
  BY DEF max_tokens
<1>3. Len(out) \in Nat /\ Len(prompt) \in Nat /\ Len(out) <= MAX_TOKENS /\ Len(prompt) <= MaxText
  BY DEF SamplingTypeOK
<1> QED
  BY <1>1, <1>2, <1>3 DEF position

\* The verifier's model scores the position that comes next.
LEMMA ScoresAre ==
  ASSUME SamplingTypeOK
  PROVE  /\ HasTop(scores) /\ scores \in [Vocab -> Int]
         /\ window \in Windows
         /\ prompt \o out \in [1..Len(prompt \o out) -> Vocab] /\ Len(prompt \o out) \in 0..(2 * MaxText)
<1>1. prompt \in Seq(Vocab) /\ out \in Seq(Vocab) /\ Len(prompt) <= MaxText /\ seed \in Seeds
  BY DEF SamplingTypeOK
<1>2. Len(out) <= MaxText
  BY Lengths0
<1>3. prover.T \in Temperatures
  BY KindOf
<1>4. HasTop(scores)
  BY <1>1, <1>2, <1>3, NextTokenType DEF scores, window, position
<1>5. prompt \o out \in Seq(Vocab) /\ Len(prompt \o out) = Len(prompt) + Len(out)
  BY <1>1
<1>6. window \in Windows
  BY <1>5, LastTokensFit, WindowIsWindow DEF window
<1>7. Len(prompt) + Len(out) \in 0..(2 * MaxText)
  BY Lengths0 DEF position
<1>8. PICK s : s = prompt \o out
  OBVIOUS
<1>9. s \in [1..Len(s) -> Vocab] /\ Len(s) \in 0..(2 * MaxText)
  <2>1. s \in Seq(Vocab) /\ Len(s) = Len(prompt) + Len(out)
    BY <1>5, <1>8, Zenon
  <2>2. s \in [1..Len(s) -> Vocab]
    BY <2>1
  <2> QED
    BY <1>7, <2>1, <2>2, Zenon
<1> QED
  BY <1>4, <1>6, <1>8, <1>9, Zenon DEF HasTop

LEMMA TokensAre ==
  ASSUME SamplingTypeOK
  PROVE  /\ \A i \in 1..Len(out) : tokens[i].deviation \in Nat
         /\ result.total = Total(tokens) /\ Total(tokens) \in Nat
<1>1. prompt \in Seq(Vocab) /\ out \in Seq(Vocab) /\ Len(prompt) <= MaxText /\ seed \in Seeds
  BY DEF SamplingTypeOK
<1>2. Len(out) <= MaxText /\ Len(out) \in Nat
  BY Lengths0
<1>3. prover.T \in Temperatures
  BY KindOf
<1>4. \A i \in 1..Len(out) : tokens[i].deviation \in Nat
  BY <1>1, <1>2, <1>3, PerTokenIs DEF tokens
<1>5. Len(tokens) = Len(out)
  BY DEF tokens, per_token
<1>6. Total(tokens) \in Nat
  BY <1>2, <1>4, <1>5, TotalIsZero
<1>7. result.total = Total(tokens)
  BY DEF result, tokens, Recompute
<1> QED
  BY <1>4, <1>6, <1>7

\* A faithful output passes, whatever the threshold.
LEMMA FaithfulPasses ==
  ASSUME SamplingTypeOK, FaithfulOK, generator \in Faithful
  PROVE  result.total = 0 /\ passed
<1>1. \A i \in 1..Len(out) : tokens[i].deviation = 0
  BY DEF FaithfulOK
<1>2. Len(out) \in Nat /\ PASS_TAU \in Nat
  BY Lengths0, SamplingAssumption
<1>3. Len(tokens) = Len(out)
  BY DEF tokens, per_token
<1>4. Total(tokens) = 0
  <2>1. \A i \in 1..Len(out) : tokens[i].deviation \in Nat
    BY TokensAre
  <2> QED
    BY <1>1, <1>2, <1>3, <2>1, TotalIsZero
<1>5. passed
  <2>1. 0 \in Nat /\ 0 <= PASS_TAU
    BY <1>2
  <2>2. \A i \in 1..Len(out) : /\ per_token(prompt, out, seed, prover.T)[i].deviation \in Nat
                               /\ per_token(prompt, out, seed, prover.T)[i].deviation <= PASS_TAU
    BY <1>1, <2>1 DEF tokens
  <2> QED
    BY <1>2, <2>2, AverageIsBounded DEF passed, result
<1> QED
  BY <1>4, <1>5, TokensAre

-----------------------------------------------------------------------------
(* One more token *)

LEMMA EmitStep ==
  ASSUME SamplingTypeOK, NEW t \in Vocab, Emit(t), Len(out) < max_tokens
  PROVE  /\ out' = Append(out, t) /\ out' \in Seq(Vocab)
         /\ Len(out') = Len(out) + 1 /\ Len(out') <= MAX_TOKENS
         /\ generator' = generator /\ max_tokens' = max_tokens
         /\ \A i \in 1..Len(out) : tokens'[i] = tokens[i]
         /\ tokens'[Len(out) + 1] = PerToken(scores, t)
<1>1. /\ out' = Append(out, t)
      /\ UNCHANGED <<prover, prompt, seed, attempt, first_attempt_result, devs, tally>>
  BY DEF Emit
<1>2. prompt \in Seq(Vocab) /\ out \in Seq(Vocab)
  BY DEF SamplingTypeOK
<1>3. out' \in Seq(Vocab) /\ Len(out') = Len(out) + 1
  BY <1>1, <1>2, PrefixesStay
<1>4. Len(out') <= MAX_TOKENS
  <2>1. MAX_TOKENS \in Nat
    BY SamplingAssumption, DifrAssumption
  <2> QED
    BY <1>3, <2>1, Lengths0
<1>5. generator' = generator /\ max_tokens' = max_tokens
  BY <1>1, Zenon DEF generator, max_tokens
<1>6. tokens' = per_token(prompt, Append(out, t), seed, prover.T)
  BY <1>1 DEF tokens
<1>7. /\ \A i \in 1..Len(out) : tokens'[i] = tokens[i]
      /\ tokens'[Len(out) + 1] = PerToken(scores, t)
  <2>1. tokens = per_token(prompt, out, seed, prover.T)
    BY DEF tokens
  <2>2. scores = Scores(LeftPad(LastTokens(prompt \o out)), seed, Len(prompt) + Len(out), prover.T)
    BY DEF scores, window, position
  <2>3. /\ \A i \in 1..Len(out) :
             per_token(prompt, Append(out, t), seed, prover.T)[i] = per_token(prompt, out, seed, prover.T)[i]
        /\ per_token(prompt, Append(out, t), seed, prover.T)[Len(out) + 1]
             = PerToken(Scores(LeftPad(LastTokens(prompt \o out)), seed, Len(prompt) + Len(out), prover.T), t)
    BY <1>2, TokensGrow
  <2>4. PICK new : new = per_token(prompt, Append(out, t), seed, prover.T)
    OBVIOUS
  <2>5. tokens' = new
    BY <1>6, <2>4
  <2>6. (\A i \in 1..Len(out) : new[i] = tokens[i]) /\ new[Len(out) + 1] = PerToken(scores, t)
    BY <2>1, <2>2, <2>3, <2>4, Zenon
  <2> QED
    BY <2>5, <2>6
<1> QED
  BY <1>1, <1>3, <1>4, <1>5, <1>7

LEMMA EmitType ==
  ASSUME SamplingTypeOK, NEW t \in Vocab, Emit(t), Len(out) < max_tokens,
         scored' \in Seq(Nat), encoded' \in Nat
  PROVE  SamplingTypeOK'
<1>1. UNCHANGED <<prover, prompt, seed, attempt, first_attempt_result, devs, tally>>
  BY DEF Emit
<1>2. out' \in Seq(Vocab) /\ Len(out') <= MAX_TOKENS
  BY EmitStep
<1> QED
  BY <1>1, <1>2 DEF SamplingTypeOK

LEMMA FaithfulStep ==
  ASSUME SamplingTypeOK, FaithfulOK, NEW t \in Vocab, Emit(t), Len(out) < max_tokens,
         generator \in Faithful => t = Top(scores)
  PROVE  FaithfulOK'
<1>1. /\ Len(out') = Len(out) + 1 /\ generator' = generator
      /\ \A i \in 1..Len(out) : tokens'[i] = tokens[i]
      /\ tokens'[Len(out) + 1] = PerToken(scores, t)
  BY EmitStep
<1>2. Len(out) \in Nat
  BY Lengths0
<1>3. ASSUME generator \in Faithful, NEW i \in 1..(Len(out) + 1) PROVE tokens'[i].deviation = 0
  <2>1. CASE i \in 1..Len(out)
    BY <1>1, <1>3, <2>1 DEF FaithfulOK
  <2>2. CASE i = Len(out) + 1
    <3>1. PerToken(scores, t).deviation = 0
      BY <1>3, ScoresAre, TokenDeviation
    <3> QED
      BY <1>1, <2>2, <3>1
  <2> QED
    BY <1>2, <2>1, <2>2
<1> QED
  BY <1>1, <1>3 DEF FaithfulOK

\* What an appended element makes of a sequence given as a function.
HasLength(f, n) == f = [i \in 1..n |-> f[i]]

LEMMA AppendedFunction ==
  ASSUME NEW n \in Nat, NEW f, HasLength(f, n), NEW x,
         NEW g, HasLength(g, n + 1), \A i \in 1..n : g[i] = f[i], g[n+1] = x
  PROVE  Append(f, x) = g
<1> DEFINE S == {f[i] : i \in 1..n} \cup {x}
<1>1. f \in Seq(S) /\ Len(f) = n /\ x \in S
  <2>1. f \in [1..n -> S]
    BY DEF HasLength
  <2> HIDE DEF S
  <2> QED
    BY <2>1 DEF S
<1> HIDE DEF S
<1>2. PICK a : a = Append(f, x)
  OBVIOUS
<1>3. /\ a \in Seq(S) /\ Len(a) = n + 1
      /\ \A i \in 1..n : a[i] = f[i]
      /\ a[n+1] = x
  BY <1>1, <1>2
<1>4. a = [i \in 1..(n+1) |-> a[i]]
  BY <1>3
<1>5. \A i \in 1..(n+1) : a[i] = g[i]
  <2>1. \A i \in 1..(n+1) : i \in 1..n \/ i = n + 1
    OBVIOUS
  <2> QED
    BY <1>3, <2>1
<1>6. a = g
  BY <1>4, <1>5 DEF HasLength
<1> QED
  BY <1>2, <1>6

LEMMA CommittedStep ==
  ASSUME SamplingTypeOK, CommittedOK, NEW t \in Vocab, Emit(t), Len(out) < max_tokens,
         IF prover.loop = "warden" THEN committed' = Append(committed, commit(Logits(window, prover.T)))
         ELSE committed' = committed
  PROVE  CommittedOK'
<1>1. out' = Append(out, t) /\ Len(out') = Len(out) + 1
  BY EmitStep
<1>2. prover' = prover /\ prompt' = prompt
  BY DEF Emit
<1>3. CASE prover.loop # "warden"
  BY <1>2, <1>3 DEF CommittedOK
<1>4. CASE prover.loop = "warden"
  <2> DEFINE G(o, i) == commit(Logits(Context(prompt \o o, Len(prompt) + i - 1), prover.T))
             f == [i \in 1..Len(out) |-> G(out, i)]
             g == [i \in 1..(Len(out) + 1) |-> G(Append(out, t), i)]
             x == commit(Logits(window, prover.T))
  <2>1. Len(out) \in Nat /\ prompt \in Seq(Vocab) /\ out \in Seq(Vocab)
    BY Lengths0 DEF SamplingTypeOK
  <2>2. /\ \A i \in 1..Len(out) : Context(prompt \o Append(out, t), Len(prompt) + i - 1)
                                   = Context(prompt \o out, Len(prompt) + i - 1)
        /\ Context(prompt \o Append(out, t), Len(prompt) + (Len(out) + 1) - 1) = window
    BY <2>1, ContextGrows, Zenon DEF window
  <2>3. \A i \in 1..Len(out) : G(Append(out, t), i) = G(out, i)
    BY <2>2, Zenon
  <2>4. G(Append(out, t), Len(out) + 1) = x
    BY <2>2, Zenon
  <2> HIDE DEF G, x
  <2>5. /\ \A i \in 1..Len(out) : g[i] = f[i]
        /\ g[Len(out) + 1] = x
    BY <2>1, <2>3, <2>4
  <2>6. HasLength(f, Len(out)) /\ HasLength(g, Len(out) + 1)
    BY <2>1 DEF HasLength
  <2>7. committed = f /\ committed' = Append(committed, x)
    BY <1>4 DEF CommittedOK, G, x
  <2> HIDE DEF f, g
  <2>8. committed' = g
    <3>1. Append(f, x) = g
      BY <2>1, <2>5, <2>6, AppendedFunction
    <3> QED
      BY <2>7, <3>1, Zenon
  <2>9. CommittedOK' <=> committed' = [i \in 1..Len(out') |-> G(out', i)]
    BY <1>2, <1>4 DEF CommittedOK, G
  <2> QED
    BY <1>1, <2>8, <2>9 DEF g
<1> QED
  BY <1>3, <1>4

LEMMA OwnScoreStep ==
  ASSUME SamplingTypeOK, SelfScoreIsTheVerifiers, NEW t \in Vocab, Emit(t), Len(out) < max_tokens,
         prover.by = "stego" => scored' = Append(scored, PerToken(scores, t).deviation)
  PROVE  SelfScoreIsTheVerifiers'
<1>1. /\ Len(out') = Len(out) + 1 /\ prover' = prover
      /\ \A i \in 1..Len(out) : tokens'[i] = tokens[i]
      /\ tokens'[Len(out) + 1] = PerToken(scores, t)
  BY EmitStep DEF Emit
<1>2. Len(out) \in Nat
  BY Lengths0
<1>3. CASE prover.by # "stego"
  BY <1>1, <1>3 DEF SelfScoreIsTheVerifiers
<1>4. CASE prover.by = "stego"
  <2> DEFINE f == [i \in 1..Len(out) |-> tokens[i].deviation]
             g == [i \in 1..(Len(out) + 1) |-> tokens'[i].deviation]
  <2>1. PICK x : x = PerToken(scores, t).deviation
    OBVIOUS
  <2>2. (\A i \in 1..Len(out) : g[i] = f[i]) /\ g[Len(out) + 1] = x
    BY <1>1, <1>2, <2>1
  <2>3. HasLength(f, Len(out)) /\ HasLength(g, Len(out) + 1)
    BY <1>2 DEF HasLength
  <2>4. scored = f /\ scored' = Append(scored, x)
    BY <1>4, <2>1 DEF SelfScoreIsTheVerifiers
  <2>5. g = [i \in 1..Len(out') |-> tokens'[i].deviation]
    BY <1>1
  <2> HIDE DEF f, g
  <2>6. Append(f, x) = g
    BY <1>2, <2>2, <2>3, AppendedFunction
  <2>7. scored' = g
    BY <2>4, <2>6, Zenon
  <2> QED
    BY <2>5, <2>7, Zenon DEF SelfScoreIsTheVerifiers
<1> QED
  BY <1>3, <1>4

LEMMA OneMore ==
  ASSUME NEW n \in Nat, NEW A, A \subseteq 1..n, NEW B, B \subseteq 1..(n+1),
         \A i \in 1..n : i \in B <=> i \in A
  PROVE  Cardinality(B) = IF n+1 \in B THEN Cardinality(A) + 1 ELSE Cardinality(A)
<1>1. IsFiniteSet(A)
  <2>1. IsFiniteSet(1..n)
    BY FS_Interval
  <2> QED
    BY <2>1, FS_Subset
<1>2. n+1 \notin A /\ \A i \in 1..(n+1) : i \in 1..n \/ i = n+1
  OBVIOUS
<1>3. CASE n+1 \in B
  <2>1. B = A \cup {n+1}
    BY <1>2, <1>3
  <2>2. Cardinality(A \cup {n+1}) = Cardinality(A) + 1
    BY <1>1, <1>2, FS_AddElement
  <2> QED
    BY <1>3, <2>1, <2>2
<1>4. CASE n+1 \notin B
  <2>1. B = A
    BY <1>2, <1>4
  <2> QED
    BY <1>4, <2>1
<1> QED
  BY <1>3, <1>4

\* Taking the runner-up hides a 1; anything else costs nothing and hides no 1.
LEMMA SmugglingStep ==
  ASSUME SamplingTypeOK, SmugglingOK, NEW t \in Vocab, Emit(t), Len(out) < max_tokens,
         prover.by \in Smugglers =>
           \/ t = Second(scores) /\ CanEncode /\ encoded' = encoded + 1
           \/ t = Top(scores) /\ (encoded' = encoded \/ (Wants(0) /\ encoded' = encoded + 1))
  PROVE  SmugglingOK'
<1> DEFINE n == Len(out)
           bits == prover.bits
           Costly == {i \in 1..n : tokens[i].deviation > 0}
           Costly1 == {i \in 1..(n+1) : tokens'[i].deviation > 0}
           Ones == {j \in 1..encoded : bits[j] = 1}
           Ones1 == {j \in 1..(encoded + 1) : bits[j] = 1}
           dev == PerToken(scores, t).deviation
<1>1. /\ Len(out') = n + 1 /\ prover' = prover
      /\ \A i \in 1..n : tokens'[i] = tokens[i]
      /\ tokens'[n + 1] = PerToken(scores, t)
  BY EmitStep DEF Emit
<1>2. n \in Nat /\ encoded \in Nat /\ bits \in Seq({0, 1}) /\ PER_TOKEN_BUDGET \in Nat /\ DELTA_MAX \in Nat
  BY Lengths0, KindOf, SamplingAssumption, DifrAssumption DEF SamplingTypeOK
<1>3. CASE prover.by \notin Smugglers
  BY <1>1, <1>3 DEF SmugglingOK
<1>4. CASE prover.by \in Smugglers
  <2>1. /\ \A i \in 1..n : tokens[i].deviation <= PER_TOKEN_BUDGET
        /\ encoded <= Len(bits)
        /\ Cardinality(Costly) = Cardinality(Ones)
    BY <1>4 DEF SmugglingOK, deviating
  <2>2. Cardinality(Costly1) = IF dev > 0 THEN Cardinality(Costly) + 1 ELSE Cardinality(Costly)
    <3>1. n + 1 \in Costly1 <=> dev > 0
      BY <1>1, <1>2
    <3>2. \A i \in 1..n : i \in Costly1 <=> i \in Costly
      BY <1>1, <1>2
    <3>3. Costly \subseteq 1..n /\ Costly1 \subseteq 1..(n+1)
      OBVIOUS
    <3> HIDE DEF n, Costly, Costly1, dev
    <3> QED
      BY <1>2, <3>1, <3>2, <3>3, OneMore
  <2>3. Cardinality(Ones1) = IF bits[encoded + 1] = 1 THEN Cardinality(Ones) + 1 ELSE Cardinality(Ones)
    <3>1. encoded + 1 \in Ones1 <=> bits[encoded + 1] = 1
      BY <1>2
    <3>2. \A j \in 1..encoded : j \in Ones1 <=> j \in Ones
      BY <1>2
    <3>3. Ones \subseteq 1..encoded /\ Ones1 \subseteq 1..(encoded + 1)
      OBVIOUS
    <3> HIDE DEF Ones, Ones1, bits
    <3> QED
      BY <1>2, <3>1, <3>2, <3>3, OneMore
  <2>4. PICK new : new = tokens'
    OBVIOUS
  <2>5. SmugglingOK' <=> /\ \A i \in 1..(n+1) : new[i].deviation <= PER_TOKEN_BUDGET
                         /\ encoded' <= Len(bits)
                         /\ Cardinality(Costly1) = Cardinality({j \in 1..encoded' : bits[j] = 1})
    BY <1>1, <1>4, <2>4 DEF SmugglingOK, deviating
  <2> HIDE DEF Costly, Costly1, dev
  <2>6. ASSUME dev <= PER_TOKEN_BUDGET PROVE \A i \in 1..(n+1) : new[i].deviation <= PER_TOKEN_BUDGET
    <3>1. \A i \in 1..(n+1) : i \in 1..n \/ i = n+1
      BY <1>2
    <3> QED
      BY <1>1, <2>1, <2>4, <2>6, <3>1 DEF dev
  <2>7. CASE t = Second(scores) /\ CanEncode /\ encoded' = encoded + 1
    <3> DEFINE cost == scores[Top(scores)] - scores[Second(scores)]
    <3>1. cost \in Nat \ {0} /\ dev = (IF cost < DELTA_MAX THEN cost ELSE DELTA_MAX)
      BY <2>7, ScoresAre, SecondDeviation DEF dev
    <3>2. encoded < Len(bits) /\ bits[encoded + 1] = 1 /\ cost <= PER_TOKEN_BUDGET
      BY <2>7 DEF CanEncode, Wants, cost_of_rank1
    <3> HIDE DEF cost, bits
    <3>3. DELTA_MAX > 0
      BY DifrAssumption
    <3>4. dev > 0 /\ dev <= PER_TOKEN_BUDGET
      BY <1>2, <3>1, <3>2, <3>3
    <3>5. encoded' <= Len(bits)
      BY <1>2, <2>7, <3>2
    <3>6. Cardinality(Costly1) = Cardinality(Ones1)
      BY <2>1, <2>2, <2>3, <3>2, <3>4
    <3>7. Ones1 = {j \in 1..encoded' : bits[j] = 1}
      BY <2>7
    <3> QED
      BY <2>5, <2>6, <3>4, <3>5, <3>6, <3>7, Zenon
  <2>8. CASE t = Top(scores) /\ (encoded' = encoded \/ (Wants(0) /\ encoded' = encoded + 1))
    <3>1. dev = 0
      BY <2>8, ScoresAre, TokenDeviation DEF dev
    <3>2. dev <= PER_TOKEN_BUDGET /\ Cardinality(Costly1) = Cardinality(Costly)
      BY <1>2, <2>2, <3>1
    <3> HIDE DEF bits
    <3>3. CASE encoded' = encoded
      <4>1. Ones = {j \in 1..encoded' : bits[j] = 1}
        BY <3>3
      <4> QED
        BY <2>1, <2>5, <2>6, <3>2, <3>3, <4>1
    <3>4. CASE Wants(0) /\ encoded' = encoded + 1
      <4>1. encoded < Len(bits) /\ bits[encoded + 1] = 0
        BY <3>4 DEF Wants, bits
      <4>2. Cardinality(Ones1) = Cardinality(Ones)
        BY <2>3, <4>1
      <4>3. Ones1 = {j \in 1..encoded' : bits[j] = 1}
        BY <3>4
      <4>4. encoded' <= Len(bits)
        BY <1>2, <3>4, <4>1
      <4> HIDE DEF Ones, Ones1
      <4> QED
        BY <2>1, <2>5, <2>6, <3>2, <4>2, <4>3, <4>4
    <3> QED
      BY <2>8, <3>3, <3>4
  <2> QED
    BY <1>4, <2>7, <2>8
<1> QED
  BY <1>3, <1>4

LEMMA BlankOutput ==
  ASSUME SamplingTypeOK, prover' = prover, Blank
  PROVE  OutputOK' /\ out' \in Seq(Vocab) /\ Len(out') <= MAX_TOKENS /\ scored' \in Seq(Nat) /\ encoded' \in Nat
<1>1. out' = <<>> /\ scored' = <<>> /\ encoded' = 0 /\ committed' = <<>>
  BY DEF Blank
<1>2. Len(out') = 0 /\ 1..Len(out') = {}
  BY <1>1
<1>3. FaithfulOK'
  BY <1>2 DEF FaithfulOK
<1>4. SelfScoreIsTheVerifiers'
  BY <1>1, <1>2 DEF SelfScoreIsTheVerifiers
<1>5. SmugglingOK'
  <2>1. {i \in 1..Len(out') : tokens'[i].deviation > 0} = {}
    BY <1>2
  <2>2. {j \in 1..encoded' : prover'.bits[j] = 1} = {}
    BY <1>1
  <2>3. deviating' = Cardinality({j \in 1..encoded' : prover'.bits[j] = 1})
    BY <2>1, <2>2, Zenon DEF deviating
  <2>4. encoded' <= Len(prover'.bits)
    BY <1>1, KindOf
  <2> QED
    BY <1>2, <2>3, <2>4 DEF SmugglingOK
<1>6. CommittedOK'
  BY <1>1, <1>2 DEF CommittedOK
<1>7. MAX_TOKENS \in Nat
  BY SamplingAssumption, DifrAssumption
<1> QED
  BY <1>1, <1>3, <1>4, <1>5, <1>6, <1>7 DEF OutputOK

LEMMA OutputKept ==
  ASSUME OutputOK, prover' = prover, UNCHANGED session, generator' = generator
  PROVE  OutputOK'
<1>1. /\ prompt' = prompt /\ seed' = seed /\ out' = out /\ scored' = scored
      /\ encoded' = encoded /\ committed' = committed /\ prover' = prover
  BY DEF session
<1>2. tokens' = tokens
  BY <1>1, Zenon DEF tokens
<1>3. deviating' = deviating
  BY <1>1, <1>2, Zenon DEF deviating
<1> QED
  BY <1>1, <1>2, <1>3 DEF OutputOK, FaithfulOK, SelfScoreIsTheVerifiers, SmugglingOK, CommittedOK

LEMMA TrialsKept ==
  ASSUME TrialsOK, UNCHANGED <<prover, attempt, first_attempt_result, devs, tally>>
  PROVE  TrialsOK'
BY DEF TrialsOK, HonestLeavesNoTrace, Open, One

LEMMA Emitted ==
  ASSUME SamplingInv, NEW t \in Vocab, Emit(t), Len(out) < max_tokens,
         scored' \in Seq(Nat), encoded' \in Nat,
         generator \in Faithful => t = Top(scores),
         prover.by = "stego" => scored' = Append(scored, PerToken(scores, t).deviation),
         prover.by \in Smugglers =>
           \/ t = Second(scores) /\ CanEncode /\ encoded' = encoded + 1
           \/ t = Top(scores) /\ (encoded' = encoded \/ (Wants(0) /\ encoded' = encoded + 1)),
         IF prover.loop = "warden" THEN committed' = Append(committed, commit(Logits(window, prover.T)))
         ELSE committed' = committed
  PROVE  SamplingInv'
<1>1. SamplingTypeOK /\ OutputOK /\ TrialsOK
  BY DEF SamplingInv
<1>2. SamplingTypeOK'
  BY <1>1, EmitType
<1>3. FaithfulOK'
  BY <1>1, FaithfulStep DEF OutputOK
<1>4. SelfScoreIsTheVerifiers'
  BY <1>1, OwnScoreStep DEF OutputOK
<1>5. SmugglingOK'
  BY <1>1, SmugglingStep DEF OutputOK
<1>6. CommittedOK'
  BY <1>1, CommittedStep DEF OutputOK
<1>7. TrialsOK'
  BY <1>1, TrialsKept DEF Emit
<1> QED
  BY <1>2, <1>3, <1>4, <1>5, <1>6, <1>7 DEF SamplingInv, OutputOK

LEMMA HonestStep ==
  ASSUME SamplingInv, gen_honest_t
  PROVE  SamplingInv'
<1>1. PICK t : t = Top(scores)
  OBVIOUS
<1>2. Running("honest") /\ Emit(t) /\ UNCHANGED <<scored, encoded, committed>>
  BY <1>1 DEF gen_honest_t
<1>3. SamplingTypeOK /\ generator = "honest" /\ Len(out) < max_tokens
  BY <1>2 DEF SamplingInv, Running
<1>4. t \in Vocab
  BY <1>1, <1>3, ScoresAre, TopIsTop
<1>5. prover.by # "stego" /\ prover.by \notin Smugglers /\ prover.loop # "warden"
  BY <1>3, KindOf DEF Smugglers
<1>6. scored' \in Seq(Nat) /\ encoded' \in Nat
  BY <1>2, <1>3 DEF SamplingTypeOK
<1> QED
  BY <1>1, <1>2, <1>3, <1>4, <1>5, <1>6, Emitted

LEMMA VariantStep ==
  ASSUME SamplingInv, gen_variant_t
  PROVE  SamplingInv'
<1>1. PICK t : t = Top(VariantScores(prompt \o out, seed, position, prover.T))
  OBVIOUS
<1>2. Running("variant") /\ Emit(t) /\ UNCHANGED <<scored, encoded, committed>>
  BY <1>1 DEF gen_variant_t
<1>3. SamplingTypeOK /\ generator = "variant" /\ Len(out) < max_tokens
  BY <1>2 DEF SamplingInv, Running
<1>4. t \in Vocab
  <2>1. /\ prompt \o out \in [1..Len(prompt \o out) -> Vocab] /\ Len(prompt \o out) \in 0..(2 * MaxText)
        /\ position \in 0..(2 * MaxText) /\ seed \in Seeds /\ prover.T \in Temperatures
    BY <1>3, ScoresAre, Lengths0, KindOf DEF SamplingTypeOK
  <2>2. VariantScores(prompt \o out, seed, position, prover.T) \in [Vocab -> Int]
    BY <2>1, ModelsAssumption, Zenon
  <2> QED
    BY <1>1, <2>2, TopIsToken
<1>5. generator \notin Faithful /\ prover.by # "stego" /\ prover.by \notin Smugglers /\ prover.loop # "warden"
  BY <1>3, KindOf DEF Smugglers, Faithful
<1>6. scored' \in Seq(Nat) /\ encoded' \in Nat
  BY <1>2, <1>3 DEF SamplingTypeOK
<1> QED
  BY <1>2, <1>3, <1>4, <1>5, <1>6, Emitted

LEMMA AdapterStep ==
  ASSUME SamplingInv, NEW by \in {"dormant", "active"}, gen_with_adapter(by)
  PROVE  SamplingInv'
<1>1. PICK t : t = Top(forward_with_adapter(by = "active"))
  OBVIOUS
<1>2. Running(by) /\ Emit(t) /\ UNCHANGED <<scored, encoded, committed>>
  BY <1>1 DEF gen_with_adapter
<1>3. SamplingTypeOK /\ generator = by /\ Len(out) < max_tokens
  BY <1>2 DEF SamplingInv, Running
<1>4. scores \in [Vocab -> Int] /\ Delta(window) \in [Vocab -> Int] /\ HasTop(scores)
  BY <1>3, ScoresAre, ModelsAssumption DEF Windows
<1>5. t \in Vocab
  <2>1. forward_with_adapter(by = "active") \in [Vocab -> Int]
    BY <1>4 DEF forward_with_adapter
  <2> QED
    BY <1>1, <2>1, TopIsToken
<1>6. by # "active" => t = Top(scores)
  <2>1. ASSUME by # "active" PROVE forward_with_adapter(by = "active") = scores
    BY <1>4, <2>1 DEF forward_with_adapter
  <2> QED
    BY <1>1, <2>1
<1>7. prover.by # "stego" /\ prover.by \notin Smugglers /\ prover.loop # "warden"
  BY <1>3, KindOf DEF Smugglers
<1>8. scored' \in Seq(Nat) /\ encoded' \in Nat
  BY <1>2, <1>3 DEF SamplingTypeOK
<1>9. generator \in Faithful => t = Top(scores)
  BY <1>3, <1>6 DEF Faithful
<1> QED
  BY <1>2, <1>3, <1>5, <1>7, <1>8, <1>9, Emitted

LEMMA StegoStep ==
  ASSUME SamplingInv, stego_generate_and_score
  PROVE  SamplingInv'
<1>1. SamplingTypeOK /\ generator = "stego" /\ Len(out) < max_tokens /\ UNCHANGED committed
  BY DEF SamplingInv, Running, stego_generate_and_score
<1>2. generator \notin Faithful /\ prover.by = "stego" /\ prover.loop # "warden"
  BY <1>1, KindOf DEF Faithful
<1>3. HasTop(scores) /\ scored \in Seq(Nat) /\ encoded \in Nat /\ DELTA_MAX \in Nat
  BY <1>1, ScoresAre, DifrAssumption DEF SamplingTypeOK
<1>4. ASSUME CanEncode, Emit(Second(scores)), encoded' = encoded + 1,
             scored' = Append(scored, IF cost_of_rank1 < DELTA_MAX THEN cost_of_rank1 ELSE DELTA_MAX)
      PROVE  SamplingInv'
  <2>1. PICK t : t = Second(scores)
    OBVIOUS
  <2>2. t \in Vocab
    BY <1>3, <2>1, SecondIs
  <2>3. /\ cost_of_rank1 \in Nat
        /\ PerToken(scores, t).deviation = (IF cost_of_rank1 < DELTA_MAX THEN cost_of_rank1 ELSE DELTA_MAX)
    BY <1>3, <2>1, SecondDeviation DEF cost_of_rank1
  <2>4. scored' = Append(scored, PerToken(scores, t).deviation) /\ scored' \in Seq(Nat) /\ encoded' \in Nat
    BY <1>3, <1>4, <2>3
  <2> QED
    BY <1>1, <1>2, <1>4, <2>1, <2>2, <2>4, Emitted
<1>5. ASSUME Emit(Top(scores)), scored' = Append(scored, 0),
             encoded' = encoded + (IF Wants(0) THEN 1 ELSE 0)
      PROVE  SamplingInv'
  <2>1. PICK t : t = Top(scores)
    OBVIOUS
  <2>2. t \in Vocab /\ PerToken(scores, t).deviation = 0
    BY <1>3, <2>1, TopIsTop, TokenDeviation
  <2>3. scored' = Append(scored, PerToken(scores, t).deviation) /\ scored' \in Seq(Nat)
    BY <1>3, <1>5, <2>2
  <2>4. encoded' \in Nat /\ (encoded' = encoded \/ (Wants(0) /\ encoded' = encoded + 1))
    <3>1. CASE Wants(0)
      <4>1. encoded' = encoded + 1
        BY <1>5, <3>1
      <4> QED
        BY <1>3, <3>1, <4>1
    <3>2. CASE ~ Wants(0)
      <4>1. encoded' = encoded + 0
        BY <1>5, <3>2
      <4>2. encoded' = encoded
        BY <1>3, <4>1
      <4>3. encoded' \in Nat
        BY <1>3, <4>2
      <4> QED
        BY <4>2, <4>3, Zenon
    <3> QED
      BY <3>1, <3>2
  <2> QED
    BY <1>1, <1>2, <1>5, <2>1, <2>2, <2>3, <2>4, Emitted
<1> QED
  BY <1>4, <1>5 DEF stego_generate_and_score

LEMMA CommittedHonestStep ==
  ASSUME SamplingInv, committed_generate_honest
  PROVE  SamplingInv'
<1>1. PICK t : t = Top(scores)
  OBVIOUS
<1>2. /\ Running("committed") /\ Emit(t) /\ UNCHANGED <<scored, encoded>>
      /\ committed' = Append(committed, commit(Logits(window, prover.T)))
  BY <1>1 DEF committed_generate_honest
<1>3. SamplingTypeOK /\ generator = "committed" /\ Len(out) < max_tokens
  BY <1>2 DEF SamplingInv, Running
<1>4. t \in Vocab
  BY <1>1, <1>3, ScoresAre, TopIsTop
<1>5. prover.by # "stego" /\ prover.by \notin Smugglers /\ prover.loop = "warden"
  BY <1>3, KindOf DEF Smugglers
<1>6. scored' \in Seq(Nat) /\ encoded' \in Nat
  BY <1>2, <1>3 DEF SamplingTypeOK
<1> QED
  BY <1>1, <1>2, <1>3, <1>4, <1>5, <1>6, Emitted

LEMMA CommittedStegoStep ==
  ASSUME SamplingInv, committed_generate_stego
  PROVE  SamplingInv'
<1>1. /\ SamplingTypeOK /\ generator = "committed_stego" /\ Len(out) < max_tokens /\ UNCHANGED scored
      /\ committed' = Append(committed, commit(Logits(window, prover.T)))
  BY DEF SamplingInv, Running, committed_generate_stego
<1>2. generator \notin Faithful /\ prover.by # "stego" /\ prover.loop = "warden"
  BY <1>1, KindOf DEF Faithful
<1>3. HasTop(scores) /\ scored' \in Seq(Nat) /\ encoded \in Nat
  BY <1>1, ScoresAre DEF SamplingTypeOK
<1>4. ASSUME CanEncode, Emit(Second(scores)), encoded' = encoded + 1
      PROVE  SamplingInv'
  <2>1. PICK t : t = Second(scores)
    OBVIOUS
  <2>2. t \in Vocab /\ encoded' \in Nat
    BY <1>3, <1>4, <2>1, SecondIs
  <2> QED
    BY <1>1, <1>2, <1>3, <1>4, <2>1, <2>2, Emitted
<1>5. ASSUME Emit(Top(scores)), encoded' = encoded
      PROVE  SamplingInv'
  <2>1. PICK t : t = Top(scores)
    OBVIOUS
  <2>2. t \in Vocab /\ encoded' \in Nat
    BY <1>3, <1>5, <2>1, TopIsTop
  <2>3. t = Top(scores) /\ (encoded' = encoded \/ (Wants(0) /\ encoded' = encoded + 1)) /\ Emit(t)
    BY <1>5, <2>1, Zenon DEF Emit
  <2> QED
    BY <1>1, <1>2, <1>3, <2>2, <2>3, Emitted
<1> QED
  BY <1>4, <1>5 DEF committed_generate_stego

LEMMA GenerateStepKeeps ==
  ASSUME SamplingInv, Generate
  PROVE  SamplingInv'
BY HonestStep, VariantStep, AdapterStep, StegoStep, CommittedHonestStep, CommittedStegoStep DEF Generate

-----------------------------------------------------------------------------
(* Requests and verifications *)

LEMMA RequestStep ==
  ASSUME SamplingInv, Request
  PROVE  SamplingInv'
<1>1. SamplingTypeOK /\ OutputOK /\ TrialsOK
  BY DEF SamplingInv
<1>2. PICK p \in Prompts : prompt' = Prompt(p)
  BY DEF Request
<1>3. /\ attempt = 0 /\ attempt' = 1 /\ first_attempt_result' = FALSE
      /\ prover' = prover /\ devs' = devs
  BY DEF Request
<1>4. PICK count : count = [tally EXCEPT !.trials = @ + 1]
  OBVIOUS
<1>5. \/ prover.loop = "shopping" /\ Create(count)
      \/ prover.loop # "shopping" /\ seed' \in Seeds /\ Blank /\ tally' = count
  BY <1>4, Zenon DEF Request
<1>6. seed' \in Seeds /\ Blank
  BY <1>5 DEF Create
<1>7. prompt' \in Seq(Vocab) /\ Len(prompt') <= MaxText
  <2>1. p \in Seq(Vocab) /\ Len(p) <= MaxText /\ Trigger \in Seq(Vocab) /\ ContextLen <= MaxText
    BY SamplingAssumption
  <2>2. p \o Trigger \in Seq(Vocab)
    BY <2>1
  <2>3. LastTokens(p \o Trigger) \in Seq(Vocab) /\ Len(LastTokens(p \o Trigger)) <= ContextLen
    BY <2>2, LastTokensFit
  <2>4. Len(LastTokens(p \o Trigger)) \in Nat /\ ContextLen \in Nat /\ MaxText \in Nat
    BY <2>3, DifrAssumption
  <2>5. CASE prover.by = "active"
    <3>1. prompt' = LastTokens(p \o Trigger)
      BY <1>2, <2>5 DEF Prompt
    <3>2. PICK q : q = LastTokens(p \o Trigger)
      OBVIOUS
    <3> QED
      BY <2>1, <2>3, <2>4, <3>1, <3>2
  <2>6. CASE prover.by # "active"
    BY <1>2, <2>1, <2>6 DEF Prompt
  <2> QED
    BY <2>5, <2>6
<1>8. tally \in Tallies
  BY <1>1 DEF SamplingTypeOK
<1>9. /\ count \in Tallies /\ count.trials = tally.trials + 1
      /\ count.created = tally.created /\ count.reported = tally.reported
      /\ count.shopped_pass = tally.shopped_pass /\ count.single_attempt_pass = tally.single_attempt_pass
      /\ count.both_pass = tally.both_pass
  BY <1>4, <1>8 DEF Tallies
<1>10. /\ tally' \in Tallies /\ tally'.reported = tally.reported
       /\ tally'.shopped_pass = tally.shopped_pass /\ tally'.single_attempt_pass = tally.single_attempt_pass
       /\ tally'.both_pass = tally.both_pass /\ tally'.trials = tally.trials + 1
       /\ prover.loop = "shopping" => tally'.created = tally.created + 1
  <2>1. CASE prover.loop = "shopping" /\ Create(count)
    <3>1. tally' = [count EXCEPT !.created = @ + 1]
      BY <2>1 DEF Create
    <3> QED
      BY <1>9, <3>1 DEF Tallies
  <2>2. CASE prover.loop # "shopping" /\ tally' = count
    BY <1>9, <2>2
  <2> QED
    BY <1>5, <2>1, <2>2
<1>11. OutputOK' /\ out' \in Seq(Vocab) /\ Len(out') <= MAX_TOKENS /\ scored' \in Seq(Nat) /\ encoded' \in Nat
  BY <1>1, <1>3, <1>6, BlankOutput
<1>12. SamplingTypeOK'
  BY <1>1, <1>3, <1>6, <1>7, <1>10, <1>11 DEF SamplingTypeOK
<1>13. TrialsOK'
  <2>1. Open = 0 /\ Open' = 1
    BY <1>3 DEF Open, One
  <2>2. /\ tally.created \in Int /\ tally.reported \in Int /\ tally.shopped_pass \in Int
        /\ tally.single_attempt_pass \in Int /\ tally.both_pass \in Int /\ tally.trials \in Int
    BY <1>8 DEF Tallies
  <2>3. HonestLeavesNoTrace'
    BY <1>1, <1>3, <1>10, <2>1, <2>2 DEF TrialsOK, HonestLeavesNoTrace
  <2>4. prover'.loop = "prompt_set" => (Len(devs') % 2 = 1 <=> attempt' = 2)
    BY <1>1, <1>3 DEF TrialsOK
  <2>5. prover'.loop = "shopping" =>
          tally'.shopped_pass - tally'.single_attempt_pass + 0 <= tally'.created - tally'.reported - Open'
    BY <1>1, <1>3, <1>10, <2>1, <2>2 DEF TrialsOK
  <2> QED
    BY <1>3, <2>3, <2>4, <2>5 DEF TrialsOK
<1> QED
  BY <1>11, <1>12, <1>13 DEF SamplingInv

LEMMA DevsGrow ==
  ASSUME SamplingTypeOK, devs' = Append(devs, result.total)
  PROVE  /\ devs' \in Seq(Nat) /\ Len(devs) \in Nat /\ Len(devs') = Len(devs) + 1
         /\ \A i \in 1..Len(devs) : devs'[i] = devs[i]
         /\ devs'[Len(devs) + 1] = result.total
<1>1. devs \in Seq(Nat) /\ result.total \in Nat
  BY TokensAre DEF SamplingTypeOK
<1> QED
  BY <1>1

LEMMA MeasuredStep ==
  ASSUME SamplingInv, NEW loop \in {"deviations", "case_A", "stego", "warden"}, Measured(loop)
  PROVE  SamplingInv'
<1>1. SamplingTypeOK /\ OutputOK /\ TrialsOK
  BY DEF SamplingInv
<1>2. /\ prover.loop = loop /\ prover' = prover /\ attempt' = 0
      /\ devs' = Append(devs, result.total)
      /\ UNCHANGED <<session, first_attempt_result, tally>>
  BY DEF Measured, Finished
<1>3. generator = prover.by /\ generator' = generator
  BY <1>1, <1>2, KindOf DEF generator
<1>4. OutputOK'
  BY <1>1, <1>2, <1>3, OutputKept
<1>5. /\ devs' \in Seq(Nat) /\ Len(devs) \in Nat /\ Len(devs') = Len(devs) + 1
      /\ \A i \in 1..Len(devs) : devs'[i] = devs[i]
      /\ devs'[Len(devs) + 1] = result.total
  BY <1>1, <1>2, DevsGrow
<1>6. SamplingTypeOK'
  BY <1>1, <1>2, <1>5 DEF SamplingTypeOK, session
<1>7. prover.by \in Faithful => \A i \in 1..Len(devs') : devs'[i] = 0
  <2>1. prover.by \in Faithful => result.total = 0
    BY <1>1, <1>3, FaithfulPasses DEF OutputOK
  <2>2. prover.by \in Faithful => \A i \in 1..Len(devs) : devs[i] = 0
    BY <1>1 DEF TrialsOK, HonestLeavesNoTrace, Faithful
  <2>3. \A i \in 1..Len(devs') : i \in 1..Len(devs) \/ i = Len(devs) + 1
    BY <1>5
  <2> QED
    BY <1>5, <2>1, <2>2, <2>3
<1>8. TrialsOK'
  BY <1>2, <1>7 DEF TrialsOK, HonestLeavesNoTrace, Faithful
<1> QED
  BY <1>4, <1>6, <1>8 DEF SamplingInv

LEMMA PromptSetStep ==
  ASSUME SamplingInv, verify_prompt_set
  PROVE  SamplingInv'
<1>1. SamplingTypeOK /\ OutputOK /\ TrialsOK
  BY DEF SamplingInv
<1>2. /\ prover.loop = "prompt_set" /\ prover' = prover
      /\ devs' = Append(devs, result.total)
      /\ UNCHANGED <<prompt, seed, first_attempt_result, tally>>
      /\ \/ attempt = 1 /\ attempt' = 2 /\ Blank
         \/ attempt = 2 /\ attempt' = 0 /\ UNCHANGED <<out, scored, encoded, committed>>
  BY DEF verify_prompt_set, Finished
<1>3. /\ devs' \in Seq(Nat) /\ Len(devs) \in Nat /\ Len(devs') = Len(devs) + 1
      /\ \A i \in 1..Len(devs) : devs'[i] = devs[i]
      /\ devs'[Len(devs) + 1] = result.total
  BY <1>1, <1>2, DevsGrow
<1>4. OutputOK' /\ out' \in Seq(Vocab) /\ Len(out') <= MAX_TOKENS /\ scored' \in Seq(Nat) /\ encoded' \in Nat
  <2>1. CASE attempt = 1 /\ attempt' = 2 /\ Blank
    BY <1>1, <1>2, <2>1, BlankOutput
  <2>2. CASE attempt = 2 /\ attempt' = 0 /\ UNCHANGED <<out, scored, encoded, committed>>
    <3>1. generator' = generator
      BY <1>2, <2>2 DEF generator
    <3>2. UNCHANGED session
      BY <1>2, <2>2 DEF session
    <3>3. OutputOK'
      BY <1>1, <1>2, <3>1, <3>2, OutputKept
    <3> QED
      BY <1>1, <2>2, <3>3 DEF SamplingTypeOK
  <2> QED
    BY <1>2, <2>1, <2>2
<1>5. SamplingTypeOK'
  BY <1>1, <1>2, <1>3, <1>4 DEF SamplingTypeOK
<1>6. Len(devs) % 2 = 1 <=> attempt = 2
  BY <1>1, <1>2 DEF TrialsOK
<1>7. Len(devs') % 2 = 1 <=> attempt' = 2
  <2>1. PICK n \in Nat : n = Len(devs)
    BY <1>3
  <2>2. n % 2 \in {0, 1} /\ ((n + 1) % 2 = 1 <=> n % 2 = 0)
    BY <2>1, SMTT(20)
  <2>3. Len(devs) % 2 \in {0, 1} /\ ((Len(devs) + 1) % 2 = 1 <=> Len(devs) % 2 = 0)
    BY <2>1, <2>2, Zenon
  <2> QED
    BY <1>2, <1>3, <1>6, <2>3
<1>8. \A i \in 1..Len(devs') : i \in 1..Len(devs) \/ i = Len(devs) + 1
  BY <1>3
<1>9. prover.by \in Faithful \/ attempt = 1 => result.total = 0
  <2>1. attempt # 1 => generator = prover.by
    BY <1>1, KindOf
  <2>2. attempt = 1 => generator = "honest"
    BY <1>1, <1>2, KindOf
  <2>3. prover.by \in Faithful \/ attempt = 1 => generator \in Faithful
    BY <2>1, <2>2 DEF Faithful
  <2> QED
    BY <1>1, <2>3, FaithfulPasses DEF OutputOK
<1>10. prover.by \in Faithful => \A i \in 1..Len(devs') : devs'[i] = 0
  <2>1. prover.by \in Faithful => \A i \in 1..Len(devs) : devs[i] = 0
    BY <1>1 DEF TrialsOK, HonestLeavesNoTrace, Faithful
  <2> QED
    BY <1>3, <1>8, <1>9, <2>1
<1>11. \A i \in 1..Len(devs') : i % 2 = 1 => devs'[i] = 0
  <2>1. \A i \in 1..Len(devs) : i % 2 = 1 => devs[i] = 0
    BY <1>1, <1>2 DEF TrialsOK, HonestLeavesNoTrace
  <2>2. (Len(devs) + 1) % 2 = 1 => result.total = 0
    <3>1. (Len(devs) + 1) % 2 = 1 => attempt # 2
      <4>1. Len(devs) % 2 \in {0, 1} /\ ((Len(devs) + 1) % 2 = 1 <=> Len(devs) % 2 = 0)
        BY <1>3
      <4> QED
        BY <1>6, <4>1
    <3> QED
      BY <1>2, <1>9, <3>1
  <2>3. ASSUME NEW i \in 1..Len(devs'), i % 2 = 1 PROVE devs'[i] = 0
    <3>1. CASE i \in 1..Len(devs)
      BY <1>3, <2>1, <2>3, <3>1
    <3>2. CASE i = Len(devs) + 1
      BY <1>3, <2>2, <2>3, <3>2
    <3> QED
      BY <1>8, <3>1, <3>2
  <2> QED
    BY <2>3
<1>12. TrialsOK'
  BY <1>2, <1>7, <1>10, <1>11 DEF TrialsOK, HonestLeavesNoTrace, Faithful
<1> QED
  BY <1>4, <1>5, <1>12 DEF SamplingInv

LEMMA PassedIsBoolean ==
  ASSUME SamplingTypeOK
  PROVE  passed \in BOOLEAN
<1>1. PICK r : r = result
  OBVIOUS
<1>2. r.total \in Int /\ r.n_tokens \in Int /\ PASS_TAU \in Int /\ PASS_TAU * r.n_tokens \in Int
  <2>1. r.n_tokens = Len(out)
    BY <1>1 DEF result, Recompute
  <2> QED
    BY <1>1, <2>1, TokensAre, Lengths0, SamplingAssumption
<1>3. passed = IF r.n_tokens = 0 THEN 0 <= PASS_TAU ELSE r.total <= PASS_TAU * r.n_tokens
  BY <1>1, Zenon DEF passed, avg_at_most
<1>4. (0 <= PASS_TAU) \in BOOLEAN /\ (r.total <= PASS_TAU * r.n_tokens) \in BOOLEAN
  BY <1>2
<1> QED
  BY <1>3, <1>4, Zenon

LEMMA ShoppingStep ==
  ASSUME SamplingInv, attack1_session_shopping
  PROVE  SamplingInv'
<1>1. SamplingTypeOK /\ OutputOK /\ TrialsOK
  BY DEF SamplingInv
<1>2. PICK first : first = IF attempt = 1 THEN passed ELSE first_attempt_result
  OBVIOUS
<1>3. PICK counted : counted = Counted(first)
  OBVIOUS
<1>4. /\ prover.loop = "shopping" /\ prover' = prover /\ attempt > 0 /\ devs' = devs
      /\ first_attempt_result' = first
      /\ \/ /\ passed \/ attempt = K_ATTEMPTS
            /\ tally' = counted /\ attempt' = 0 /\ UNCHANGED session
         \/ /\ ~ passed /\ attempt < K_ATTEMPTS
            /\ Create(counted) /\ attempt' = attempt + 1 /\ UNCHANGED prompt
  BY <1>2, <1>3, Zenon DEF attack1_session_shopping, Finished
<1>5. attempt \in Nat /\ K_ATTEMPTS \in Nat /\ tally \in Tallies /\ first_attempt_result \in BOOLEAN
  BY <1>1, SamplingAssumption DEF SamplingTypeOK
<1>6. passed \in BOOLEAN /\ first \in BOOLEAN
  BY <1>1, <1>2, <1>5, PassedIsBoolean
<1>7. generator = prover.by /\ generator' = generator
  BY <1>1, <1>4, KindOf DEF generator
<1>8. prover.by \in Faithful => passed
  BY <1>1, <1>7, FaithfulPasses DEF OutputOK
<1>9. PICK r : r = One(passed)
  OBVIOUS
<1>10. PICK s : s = One(first /\ (passed \/ attempt = K_ATTEMPTS))
  OBVIOUS
<1>11. r \in 0..1 /\ s \in 0..1 /\ (passed => r = 1) /\ (~ passed => r = 0)
  BY <1>9, <1>10 DEF One
<1>12. /\ counted \in Tallies /\ counted.created = tally.created
       /\ counted.reported = tally.reported + r /\ counted.shopped_pass = tally.shopped_pass + r
       /\ counted.single_attempt_pass = tally.single_attempt_pass + s
  <2>1. counted = [tally EXCEPT !.reported = @ + r, !.shopped_pass = @ + r, !.single_attempt_pass = @ + s]
    BY <1>3, <1>9, <1>10, Zenon DEF Counted
  <2>2. PICK a : a = [tally EXCEPT !.reported = @ + r]
    OBVIOUS
  <2>3. PICK b : b = [a EXCEPT !.shopped_pass = @ + r]
    OBVIOUS
  <2>4. a \in Tallies /\ a.created = tally.created /\ a.reported = tally.reported + r
        /\ a.shopped_pass = tally.shopped_pass /\ a.single_attempt_pass = tally.single_attempt_pass
    BY <1>5, <1>11, <2>2 DEF Tallies
  <2>5. b \in Tallies /\ b.created = tally.created /\ b.reported = tally.reported + r
        /\ b.shopped_pass = tally.shopped_pass + r /\ b.single_attempt_pass = tally.single_attempt_pass
    BY <1>11, <2>3, <2>4 DEF Tallies
  <2>6. counted = [b EXCEPT !.single_attempt_pass = @ + s]
    BY <2>1, <2>2, <2>3, <1>5 DEF Tallies
  <2> QED
    BY <1>11, <2>5, <2>6 DEF Tallies
<1>13. /\ tally.created \in Int /\ tally.reported \in Int /\ tally.shopped_pass \in Int
       /\ tally.single_attempt_pass \in Int
  BY <1>5 DEF Tallies
<1>14. Open = 1
  BY <1>4 DEF Open, One
<1>15. /\ attempt > 1 => ~ first_attempt_result
       /\ (tally.shopped_pass - tally.single_attempt_pass) + (IF attempt > 1 THEN attempt - 1 ELSE 0)
            <= tally.created - tally.reported - 1
  BY <1>1, <1>4, <1>14 DEF TrialsOK
<1>16. CASE /\ passed \/ attempt = K_ATTEMPTS
            /\ tally' = counted /\ attempt' = 0 /\ UNCHANGED session
  <2>1. OutputOK'
    BY <1>1, <1>4, <1>7, <1>16, OutputKept
  <2>2. SamplingTypeOK'
    BY <1>1, <1>4, <1>6, <1>12, <1>16 DEF SamplingTypeOK, session
  <2>3. Open' = 0
    BY <1>16 DEF Open, One
  <2>4. attempt > 1 \/ ~ passed \/ s = 1
    <3>1. ASSUME ~ (attempt > 1), passed PROVE s = 1
      <4>1. attempt = 1
        BY <1>4, <1>5, <3>1
      <4>2. first
        BY <1>2, <3>1, <4>1
      <4> QED
        BY <1>10, <3>1, <4>2 DEF One
    <3> QED
      BY <3>1
  <2>5. tally'.shopped_pass - tally'.single_attempt_pass <= tally'.created - tally'.reported
    <3>1. \/ r = 0
          \/ s = 1
          \/ attempt > 1
      BY <1>11, <2>4
    <3>2. attempt > 1 =>
            (tally.shopped_pass - tally.single_attempt_pass) + (attempt - 1) <= tally.created - tally.reported - 1
      BY <1>15
    <3>3. tally.shopped_pass - tally.single_attempt_pass <= tally.created - tally.reported - 1
      BY <1>5, <1>13, <1>15
    <3> QED
      BY <1>5, <1>11, <1>12, <1>13, <1>16, <3>1, <3>2, <3>3
  <2>6. prover.by \in Faithful => tally'.created = tally'.reported
    <3>1. prover.by \in Faithful => tally.created = tally.reported + 1
      BY <1>1, <1>4, <1>14 DEF TrialsOK, HonestLeavesNoTrace, Faithful
    <3> QED
      BY <1>8, <1>11, <1>12, <1>13, <1>16, <3>1
  <2>7. HonestLeavesNoTrace'
    <3>1. prover.by \in Faithful => \A i \in 1..Len(devs) : devs[i] = 0
      BY <1>1 DEF TrialsOK, HonestLeavesNoTrace, Faithful
    <3>2. tally'.reported \in Int /\ tally'.reported + 0 = tally'.reported
      BY <1>11, <1>12, <1>13, <1>16
    <3> QED
      BY <1>4, <2>3, <2>6, <3>1, <3>2 DEF HonestLeavesNoTrace, Faithful
  <2>8. TrialsOK'
    <3>1. tally'.shopped_pass - tally'.single_attempt_pass + 0 <= tally'.created - tally'.reported - 0
      BY <1>11, <1>12, <1>13, <1>16, <2>5
    <3>2. ~ (attempt' > 1) /\ attempt' # 2
      BY <1>16
    <3> QED
      BY <1>4, <2>3, <2>7, <3>1, <3>2 DEF TrialsOK
  <2> QED
    BY <2>1, <2>2, <2>8 DEF SamplingInv
<1>17. CASE /\ ~ passed /\ attempt < K_ATTEMPTS
            /\ Create(counted) /\ attempt' = attempt + 1 /\ UNCHANGED prompt
  <2>1. seed' \in Seeds /\ Blank /\ tally' = [counted EXCEPT !.created = @ + 1]
    BY <1>17 DEF Create
  <2>2. /\ tally' \in Tallies /\ tally'.created = tally.created + 1
        /\ tally'.reported = tally.reported + r /\ tally'.shopped_pass = tally.shopped_pass + r
        /\ tally'.single_attempt_pass = tally.single_attempt_pass + s
    BY <1>12, <2>1 DEF Tallies
  <2>3. OutputOK' /\ out' \in Seq(Vocab) /\ Len(out') <= MAX_TOKENS /\ scored' \in Seq(Nat) /\ encoded' \in Nat
    BY <1>1, <1>4, <2>1, BlankOutput
  <2>4. SamplingTypeOK'
    BY <1>1, <1>4, <1>5, <1>6, <1>17, <2>1, <2>2, <2>3 DEF SamplingTypeOK
  <2>5. Open' = 1 /\ attempt' > 1 /\ attempt' - 1 = attempt
    BY <1>4, <1>5, <1>17 DEF Open, One
  <2>6. ~ first
    BY <1>2, <1>4, <1>5, <1>15, <1>17
  <2>7. r = 0 /\ s = 0
    BY <1>10, <1>11, <1>17, <2>6 DEF One
  <2>8. (tally'.shopped_pass - tally'.single_attempt_pass) + attempt <= tally'.created - tally'.reported - 1
    <3>1. CASE attempt > 1
      BY <1>5, <1>13, <1>15, <2>2, <2>7, <3>1
    <3>2. CASE ~ (attempt > 1)
      <4>1. attempt = 1
        BY <1>4, <1>5, <3>2
      <4> QED
        BY <1>13, <1>15, <2>2, <2>7, <4>1
    <3> QED
      BY <3>1, <3>2
  <2>9. prover.by \notin Faithful
    BY <1>8, <1>17
  <2>10. TrialsOK'
    BY <1>4, <2>5, <2>6, <2>8, <2>9 DEF TrialsOK, HonestLeavesNoTrace, Faithful
  <2> QED
    BY <2>3, <2>4, <2>10 DEF SamplingInv
<1> QED
  BY <1>4, <1>16, <1>17

LEMMA ResamplingStep ==
  ASSUME SamplingInv, patch3_mandatory_resampling
  PROVE  SamplingInv'
<1>1. SamplingTypeOK /\ OutputOK /\ TrialsOK
  BY DEF SamplingInv
<1>2. PICK both : both = One(first_attempt_result /\ passed)
  OBVIOUS
<1>3. /\ prover.loop = "resampling" /\ prover' = prover /\ devs' = devs
      /\ \/ /\ attempt = 1 /\ attempt' = 2 /\ first_attempt_result' = passed
            /\ seed' \in Seeds /\ Blank /\ UNCHANGED <<prompt, tally>>
         \/ /\ attempt = 2 /\ attempt' = 0
            /\ tally' = [tally EXCEPT !.both_pass = @ + both]
            /\ UNCHANGED <<session, first_attempt_result>>
  BY <1>2, Zenon DEF patch3_mandatory_resampling, Finished
<1>4. generator = prover.by /\ generator' = generator
  BY <1>1, <1>3, KindOf DEF generator
<1>5. prover.by \in Faithful => passed
  BY <1>1, <1>4, FaithfulPasses DEF OutputOK
<1>6. passed \in BOOLEAN
  BY <1>1, PassedIsBoolean
<1>7. prover.by \in Faithful => \A i \in 1..Len(devs) : devs[i] = 0
  BY <1>1 DEF TrialsOK, HonestLeavesNoTrace, Faithful
<1>8. CASE /\ attempt = 1 /\ attempt' = 2 /\ first_attempt_result' = passed
           /\ seed' \in Seeds /\ Blank /\ UNCHANGED <<prompt, tally>>
  <2>1. OutputOK' /\ out' \in Seq(Vocab) /\ Len(out') <= MAX_TOKENS /\ scored' \in Seq(Nat) /\ encoded' \in Nat
    BY <1>1, <1>3, <1>8, BlankOutput
  <2>2. SamplingTypeOK'
    BY <1>1, <1>3, <1>6, <1>8, <2>1 DEF SamplingTypeOK
  <2>3. Open = 1 /\ Open' = 1
    BY <1>8 DEF Open, One
  <2>4. HonestLeavesNoTrace'
    BY <1>1, <1>3, <1>8, <2>3 DEF TrialsOK, HonestLeavesNoTrace
  <2>5. TrialsOK'
    BY <1>3, <1>5, <1>8, <2>4 DEF TrialsOK
  <2> QED
    BY <2>1, <2>2, <2>5 DEF SamplingInv
<1>9. CASE /\ attempt = 2 /\ attempt' = 0
           /\ tally' = [tally EXCEPT !.both_pass = @ + both]
           /\ UNCHANGED <<session, first_attempt_result>>
  <2>1. OutputOK'
    BY <1>1, <1>3, <1>4, <1>9, OutputKept
  <2>2. tally \in Tallies /\ both \in 0..1
    BY <1>1, <1>2 DEF SamplingTypeOK, One
  <2>3. tally' \in Tallies /\ tally'.trials = tally.trials /\ tally'.both_pass = tally.both_pass + both
    BY <1>9, <2>2 DEF Tallies
  <2>4. SamplingTypeOK'
    BY <1>1, <1>3, <1>9, <2>3 DEF SamplingTypeOK, session
  <2>5. Open = 1 /\ Open' = 0
    BY <1>9 DEF Open, One
  <2>6. prover.by \in Faithful => tally'.trials = tally'.both_pass + 0
    <3>1. prover.by \in Faithful => first_attempt_result /\ passed
      BY <1>1, <1>3, <1>5, <1>9 DEF TrialsOK
    <3>2. prover.by \in Faithful => both = 1
      BY <1>2, <3>1 DEF One
    <3>3. prover.by \in Faithful => tally.trials = tally.both_pass + 1
      BY <1>1, <1>3, <2>5 DEF TrialsOK, HonestLeavesNoTrace, Faithful
    <3>4. tally.trials \in Int /\ tally.both_pass \in Int
      BY <2>2 DEF Tallies
    <3> QED
      BY <2>3, <3>2, <3>3, <3>4
  <2>7. HonestLeavesNoTrace'
    BY <1>3, <1>7, <2>5, <2>6 DEF HonestLeavesNoTrace, Faithful
  <2>8. TrialsOK'
    BY <1>3, <1>9, <2>7 DEF TrialsOK
  <2> QED
    BY <2>1, <2>4, <2>8 DEF SamplingInv
<1> QED
  BY <1>3, <1>8, <1>9

LEMMA VerifyStepKeeps ==
  ASSUME SamplingInv, Verify
  PROVE  SamplingInv'
<1>1. ASSUME NEW loop \in {"deviations", "case_A", "stego", "warden"}, Measured(loop)
      PROVE  SamplingInv'
  BY <1>1, MeasuredStep
<1> QED
  BY <1>1, PromptSetStep, ShoppingStep, ResamplingStep
    DEF Verify, gen_deviations, case_A, stego_report, warden_trial

LEMMA SamplingStutter ==
  ASSUME SamplingInv, UNCHANGED samplingVars
  PROVE  SamplingInv'
<1>1. /\ prover' = prover /\ UNCHANGED session /\ attempt' = attempt
      /\ first_attempt_result' = first_attempt_result /\ devs' = devs /\ tally' = tally
  BY DEF samplingVars
<1>2. generator' = generator
  BY <1>1, Zenon DEF generator
<1>3. OutputOK'
  BY <1>1, <1>2, OutputKept DEF SamplingInv
<1>4. SamplingTypeOK'
  BY <1>1 DEF SamplingInv, SamplingTypeOK, session
<1>5. TrialsOK'
  BY <1>1, TrialsKept DEF SamplingInv
<1> QED
  BY <1>3, <1>4, <1>5 DEF SamplingInv

LEMMA InitSamplingInv ==
  ASSUME SamplingInit
  PROVE  SamplingInv
<1>1. /\ prover \in Provers /\ prompt = <<>> /\ seed \in Seeds /\ out = <<>> /\ scored = <<>>
      /\ encoded = 0 /\ committed = <<>> /\ attempt = 0 /\ first_attempt_result = FALSE /\ devs = <<>>
      /\ tally = [trials |-> 0, created |-> 0, reported |-> 0, shopped_pass |-> 0,
                  single_attempt_pass |-> 0, both_pass |-> 0]
  BY DEF SamplingInit
<1>2. MaxText \in Nat /\ MAX_TOKENS \in Nat
  BY SamplingAssumption, DifrAssumption
<1>3. SamplingTypeOK
  <2>1. tally \in Tallies
    BY <1>1 DEF Tallies
  <2>2. /\ prompt \in Seq(Vocab) /\ Len(prompt) <= MaxText /\ out \in Seq(Vocab) /\ Len(out) <= MAX_TOKENS
        /\ scored \in Seq(Nat) /\ devs \in Seq(Nat)
    BY <1>1, <1>2
  <2> QED
    BY <1>1, <2>1, <2>2 DEF SamplingTypeOK
<1>4. Len(out) = 0 /\ 1..Len(out) = {}
  BY <1>1
<1>5. SmugglingOK
  <2>1. {i \in 1..Len(out) : tokens[i].deviation > 0} = {} /\ {j \in 1..encoded : prover.bits[j] = 1} = {}
    BY <1>1, <1>4
  <2>2. deviating = Cardinality({j \in 1..encoded : prover.bits[j] = 1})
    BY <2>1, Zenon DEF deviating
  <2>3. encoded <= Len(prover.bits)
    BY <1>1, <1>3, KindOf
  <2> QED
    BY <1>4, <2>2, <2>3 DEF SmugglingOK
<1>6. OutputOK
  BY <1>1, <1>4, <1>5 DEF OutputOK, FaithfulOK, SelfScoreIsTheVerifiers, CommittedOK
<1>7. TrialsOK
  <2>1. Open = 0
    BY <1>1 DEF Open, One
  <2> QED
    BY <1>1, <2>1 DEF TrialsOK, HonestLeavesNoTrace
<1> QED
  BY <1>3, <1>6, <1>7 DEF SamplingInv

THEOREM SamplingInvariant == SamplingSpec => []SamplingInv
<1>1. SamplingInit => SamplingInv
  BY InitSamplingInv
<1>2. SamplingInv /\ [SamplingNext]_samplingVars => SamplingInv'
  BY RequestStep, GenerateStepKeeps, VerifyStepKeeps, SamplingStutter DEF SamplingNext
<1> QED
  BY <1>1, <1>2, PTL DEF SamplingSpec

-----------------------------------------------------------------------------
(* What the provers' trials show *)

\* calibration.py, redteam.py, lora.py: whatever the model, noise, prompts, threshold
\* and number of requests, an honest prover deviates by nothing in any loop, abandons
\* no session and has no pair of outputs refused; nor does the honest twin deviate.
THEOREM FaithfulTrials == SamplingSpec => []HonestLeavesNoTrace
<1>1. SamplingInv => HonestLeavesNoTrace
  BY DEF SamplingInv, TrialsOK
<1> QED
  BY <1>1, SamplingInvariant, PTL

\* redteam.py: any number of attempts per request, at any threshold and with any
\* model, gains no more passes than it leaves sessions created and never reported.
THEOREM ShoppingShows == SamplingSpec => []ShoppingLeavesTraces
<1>1. SamplingInv => ShoppingLeavesTraces
  <2> SUFFICES ASSUME SamplingInv, prover.loop = "shopping"
               PROVE  tally.shopped_pass - tally.single_attempt_pass <= tally.created - tally.reported - Open
    BY DEF ShoppingLeavesTraces
  <2>1. attempt \in Nat /\ tally \in Tallies /\ Open \in 0..1
    BY DEF SamplingInv, SamplingTypeOK, Open, One
  <2>2. /\ tally.created \in Int /\ tally.reported \in Int /\ tally.shopped_pass \in Int
        /\ tally.single_attempt_pass \in Int
    BY <2>1 DEF Tallies
  <2>3. (tally.shopped_pass - tally.single_attempt_pass) + (IF attempt > 1 THEN attempt - 1 ELSE 0)
          <= tally.created - tally.reported - Open
    BY DEF SamplingInv, TrialsOK
  <2> QED
    BY <2>1, <2>2, <2>3
<1> QED
  BY <1>1, SamplingInvariant, PTL

\* redteam.py, stego_generate_and_score: the record a steganographer keeps while it
\* generates is the verdict of difr.py on the finished output, token by token.
THEOREM OwnScoreAgrees == SamplingSpec => []SelfScoreIsTheVerifiers
<1>1. SamplingInv => SelfScoreIsTheVerifiers
  BY DEF SamplingInv, OutputOK
<1> QED
  BY <1>1, SamplingInvariant, PTL

\* Any bits hidden within a budget per token keep the output's average within it.
THEOREM BudgetHidesBits == SamplingSpec => []BudgetBoundsTheAverage
<1>1. SamplingInv => BudgetBoundsTheAverage
  <2> SUFFICES ASSUME SamplingInv, prover.by \in Smugglers
               PROVE  avg_at_most(result, PER_TOKEN_BUDGET)
    BY DEF BudgetBoundsTheAverage, Smugglers
  <2>1. /\ \A i \in 1..Len(out) : tokens[i].deviation <= PER_TOKEN_BUDGET
        /\ \A i \in 1..Len(out) : tokens[i].deviation \in Nat
        /\ Len(out) \in Nat /\ PER_TOKEN_BUDGET \in Nat
    BY TokensAre, Lengths0, SamplingAssumption DEF SamplingInv, OutputOK, SmugglingOK
  <2>2. \A i \in 1..Len(out) : /\ per_token(prompt, out, seed, prover.T)[i].deviation \in Nat
                               /\ per_token(prompt, out, seed, prover.T)[i].deviation <= PER_TOKEN_BUDGET
    BY <2>1 DEF tokens
  <2> QED
    BY <2>1, <2>2, AverageIsBounded DEF result
<1> QED
  BY <1>1, SamplingInvariant, PTL

\* Where every deviation is a natural number, it is above the noise, within it, or none.
LEMMA AboveOrWithinNoise ==
  ASSUME \A i \in 1..Len(out) : tokens[i].deviation \in Nat
  PROVE  nonzero_tokens + slight_tokens = deviating
<1> DEFINE n == Len(out)
           Above  == {i \in 1..n : tokens[i].deviation > NOISE}
           Within == {i \in 1..n : tokens[i].deviation \in 1..NOISE}
           AtAll  == {i \in 1..n : tokens[i].deviation > 0}
<1>1. NOISE \in Nat
  BY SamplingAssumption
<1>2. \A i \in 1..n : /\ i \in AtAll <=> (i \in Above \/ i \in Within)
                      /\ ~ (i \in Above /\ i \in Within)
  <2>1. ASSUME NEW d \in Nat
        PROVE  (d > 0 <=> (d > NOISE \/ d \in 1..NOISE)) /\ ~ (d > NOISE /\ d \in 1..NOISE)
    BY <1>1, <2>1
  <2> QED
    BY <2>1
<1>3. Above \subseteq 1..n /\ Within \subseteq 1..n /\ AtAll \subseteq 1..n
  OBVIOUS
<1>4. IsFiniteSet(Above) /\ IsFiniteSet(Within)
  <2>1. IsFiniteSet(1..n)
    BY Lengths0, FS_Interval
  <2> QED
    BY <1>3, <2>1, FS_Subset
<1>5. nonzero_tokens = Cardinality(Above) /\ slight_tokens = Cardinality(Within) /\ deviating = Cardinality(AtAll)
  BY DEF nonzero_tokens, slight_tokens, deviating
<1> HIDE DEF n, Above, Within, AtAll
<1>6. AtAll = Above \cup Within /\ Above \cap Within = {}
  BY <1>2, <1>3
<1>7. Cardinality(AtAll) = Cardinality(Above) + Cardinality(Within)
  <2>1. Cardinality(Above \cup Within) = Cardinality(Above) + Cardinality(Within) - Cardinality(Above \cap Within)
    BY <1>4, FS_Union
  <2>2. Cardinality(Above \cap Within) = 0
    BY <1>6, FS_EmptySet
  <2>3. Cardinality(Above) \in Nat /\ Cardinality(Within) \in Nat
    BY <1>4, FS_CardinalityType
  <2> QED
    BY <1>6, <2>1, <2>2, <2>3
<1> QED
  BY <1>5, <1>7

\* redteam.py, patch 2: a 1 bit that the detector does not count was hidden where the
\* runner-up cost no more than the noise.
THEOREM BitsShow == SamplingSpec => []DetectorMissesOnlySlightBits
<1>1. SamplingInv => DetectorMissesOnlySlightBits
  <2> SUFFICES ASSUME SamplingInv, prover.by \in Smugglers
               PROVE  nonzero_tokens + slight_tokens = Cardinality({j \in 1..encoded : prover.bits[j] = 1})
    BY DEF DetectorMissesOnlySlightBits, Smugglers
  <2>1. deviating = Cardinality({j \in 1..encoded : prover.bits[j] = 1})
    BY DEF SamplingInv, OutputOK, SmugglingOK
  <2>2. \A i \in 1..Len(out) : tokens[i].deviation \in Nat
    BY TokensAre DEF SamplingInv
  <2> QED
    BY <2>1, <2>2, AboveOrWithinNoise
<1> QED
  BY <1>1, SamplingInvariant, PTL

\* One score is the highest among any tokens that include the best one.
LEMMA BestOfSome ==
  ASSUME NEW s, HasTop(s), NEW K, K \subseteq Vocab, Top(s) \in K,
         NEW f, \A t \in K : f[t] = s[t]
  PROVE  (CHOOSE t \in K : \A u \in K : f[u] <= f[t]) = Top(s)
<1>1. Top(s) \in Vocab /\ \A u \in Vocab \ {Top(s)} : s[u] < s[Top(s)]
  BY TopIsTop
<1>2. \A u \in Vocab : s[u] \in Int
  BY DEF HasTop
<1>3. PICK top : top = Top(s)
  OBVIOUS
<1>4. \A u \in K : f[u] <= f[top]
  BY <1>1, <1>2, <1>3
<1>5. ASSUME NEW t \in K, \A u \in K : f[u] <= f[t] PROVE t = top
  <2>1. f[top] <= f[t] /\ f[top] = s[top] /\ f[t] = s[t]
    BY <1>3, <1>5
  <2>2. s[top] \in Int /\ s[t] \in Int /\ (t = top \/ s[t] < s[top])
    BY <1>1, <1>2, <1>3
  <2> QED
    BY <2>1, <2>2
<1> QED
  BY <1>3, <1>4, <1>5

\* commitment_scheme.py: once the noise is known, the logits committed to predict
\* the verifier's choice wherever it is among them; so the warden's mismatches there
\* are the tokens that were not the choice, and nothing else.
THEOREM WardenExact == SamplingSpec => []WardenIsExactWithinItsTopK
<1>1. SamplingInv => WardenIsExactWithinItsTopK
  <2> SUFFICES ASSUME SamplingInv, NEW i \in 1..Len(committed), Choice(i) \in DOMAIN committed[i]
               PROVE  i \in Inconsistent <=> out[i] # Choice(i)
    BY DEF WardenIsExactWithinItsTopK
  <2> DEFINE ctx == Context(prompt \o out, Len(prompt) + i - 1)
             pos == Len(prompt) + i - 1
             s == Scores(ctx, seed, pos, prover.T)
             logits == Logits(ctx, prover.T)
             noise == Noise(seed, pos)
             K == DOMAIN committed[i]
  <2>1. /\ prompt \in Seq(Vocab) /\ out \in Seq(Vocab) /\ seed \in Seeds /\ prover.T \in Temperatures
        /\ Len(prompt) \in 0..MaxText /\ Len(out) \in 0..MaxText
    BY KindOf, Lengths0, DifrAssumption DEF SamplingInv, SamplingTypeOK
  <2>2. /\ Len(committed) = Len(out) /\ i \in 1..Len(out)
        /\ committed[i] = commit(logits)
    <3>1. CommittedOK
      BY DEF SamplingInv, OutputOK
    <3>2. CASE prover.loop # "warden"
      <4>1. Len(committed) = 0
        BY <3>1, <3>2 DEF CommittedOK
      <4> QED
        BY <4>1
    <3>3. CASE prover.loop = "warden"
      <4>1. PICK n : n = Len(out)
        OBVIOUS
      <4>2. committed = [j \in 1..n |-> commit(Logits(Context(prompt \o out, Len(prompt) + j - 1), prover.T))]
        BY <3>1, <3>3, <4>1 DEF CommittedOK
      <4>3. n \in Nat
        BY <2>1, <4>1
      <4>4. Len(committed) = n
        BY <4>2, <4>3
      <4> QED
        BY <4>1, <4>2, <4>4
    <3> QED
      BY <3>2, <3>3
  <2>3. ctx \in Windows /\ pos \in 0..(2 * MaxText)
    <3>1. ctx = LeftPad(LastTokens(prompt \o SubSeq(out, 1, i-1)))
      BY <2>1, <2>2, ContextIs
    <3>2. prompt \o SubSeq(out, 1, i-1) \in Seq(Vocab)
      BY <2>1, <2>2
    <3>3. LeftPad(LastTokens(prompt \o SubSeq(out, 1, i-1))) \in Windows
      BY <3>2, LastTokensFit, WindowIsWindow
    <3>4. pos \in 0..(2 * MaxText)
      BY <2>1, <2>2, DifrAssumption
    <3> QED
      BY <3>1, <3>3, <3>4, Zenon
  <2>4. Choice(i) = Top(s)
    BY DEF Choice
  <2>5. predicted_tok(i) = CHOOSE t \in K : \A u \in K : committed[i][u] + noise[u] <= committed[i][t] + noise[t]
    BY Zenon DEF predicted_tok
  <2> HIDE DEF ctx, pos
  <2>6. HasTop(s)
    BY <2>1, <2>3, ScoresAssumption DEF HasTop, Windows
  <2>7. s = [t \in Vocab |-> logits[t] + noise[t]]
    BY <2>1, <2>3, LogitsAssumption DEF Windows
  <2>8. K \subseteq Vocab /\ \A t \in K : committed[i][t] = logits[t]
    BY <2>2 DEF commit
  <2> HIDE DEF s, logits, noise, K
  <2>9. PICK f : f = [t \in K |-> committed[i][t] + noise[t]]
    OBVIOUS
  <2>10. \A t \in K : f[t] = s[t]
    BY <2>7, <2>8, <2>9
  <2>11. Top(s) \in K
    BY <2>4 DEF K
  <2>12. (CHOOSE t \in K : \A u \in K : f[u] <= f[t]) = Top(s)
    BY <2>6, <2>8, <2>10, <2>11, BestOfSome
  <2>13. predicted_tok(i) = CHOOSE t \in K : \A u \in K : f[u] <= f[t]
    BY <2>5, <2>9
  <2>14. predicted_tok(i) = Choice(i)
    BY <2>4, <2>12, <2>13, Zenon
  <2> QED
    BY <2>14 DEF Inconsistent
<1> QED
  BY <1>1, SamplingInvariant, PTL

-----------------------------------------------------------------------------
(* Water-filling *)

Curve(c) ==
  /\ c \in Seq(Nat) /\ Len(c) \in 1..3
  /\ c[1] = 0

LEMMA OneIsFirst ==
  ASSUME NEW c, Curve(c)
  PROVE  1 \in 1..Len(c)
<1>1. PICK l \in 1..3 : Len(c) = l
  BY DEF Curve
<1> QED
  BY <1>1

LEMMA CurveSum ==
  ASSUME NEW c, Curve(c), NEW k \in 1..Len(c)
  PROVE  Sum(c, k) \in Nat /\ (k = 1 => Sum(c, k) = 0)
<1>1. /\ Len(c) \in Nat /\ 1..k \subseteq 1..Len(c) /\ \A j \in 1..Len(c) : c[j] \in Nat
  BY DEF Curve
<1>2. PICK s : s = SubSeq(c, 1, k)
  OBVIOUS
<1>3. DOMAIN s = 1..k /\ \A j \in 1..k : s[j] = c[j]
  <2>1. s = [j \in 1..k |-> c[j]]
    BY <1>1, <1>2 DEF Curve
  <2> QED
    BY <2>1
<1>4. Sum(c, k) = SumFunctionOnSet(s, 1..k)
  BY <1>2, <1>3 DEF Sum, SumFunction
<1>5. IsFiniteSet(1..k)
  BY <1>1, FS_Interval
<1>6. SumFunctionOnSet(s, 1..k) = SumFunctionOnSet(c, 1..k)
  BY <1>3, <1>5, SumOfSame
<1>7. SumFunctionOnSet(c, 1..k) \in Nat
  BY <1>1, <1>5, SumIsNat
<1>8. ASSUME k = 1 PROVE SumFunctionOnSet(c, 1..k) = 0
  <2>1. 1..(0+1) = 1..k /\ 1..0 = {} /\ 0+1 = 1 /\ c[1] = 0
    BY <1>8 DEF Curve
  <2>2. \A j \in 1..(0+1) : c[j] \in Int
    BY <1>1, <2>1
  <2>3. SumFunctionOnSet(c, 1..(0+1)) = c[0+1] + SumFunctionOnSet(c, 1..0)
    BY <2>2, SumUpTo
  <2>4. SumFunctionOnSet(c, 1..k) = 0 + 0
    BY <2>1, <2>3, SumOfNone, Zenon
  <2> QED
    BY <2>4
<1> QED
  BY <1>4, <1>6, <1>7, <1>8

\* The ratio of cost to bits as an integer: Cheaper compares it.
Ratio(c, k) == IF c <= 0 THEN 0 ELSE c * (IF k = 1 THEN 585 ELSE 1000)

LEMMA CheaperIsLess ==
  ASSUME NEW c \in Int, NEW d \in Int, NEW k \in 1..2, NEW l \in 1..2
  PROVE  /\ Ratio(c, k) \in Nat
         /\ Cheaper(c, k, d, l) <=> Ratio(c, k) < Ratio(d, l)
<1>1. marginal_bits(1) = 1000 /\ marginal_bits(2) = 585
  BY DEF marginal_bits
<1>2. CASE k = 1 /\ l = 1
  BY <1>1, <1>2 DEF Cheaper, Ratio
<1>3. CASE k = 1 /\ l = 2
  BY <1>1, <1>3 DEF Cheaper, Ratio
<1>4. CASE k = 2 /\ l = 1
  BY <1>1, <1>4 DEF Cheaper, Ratio
<1>5. CASE k = 2 /\ l = 2
  BY <1>1, <1>5 DEF Cheaper, Ratio
<1> QED
  BY <1>2, <1>3, <1>4, <1>5

\* An allocation over n curves: every position keeps at least its best token.
Allocation(curves, n, ks) ==
  /\ \A i \in 1..n : Curve(curves[i])
  /\ ks \in [1..n -> Nat]
  /\ \A i \in 1..n : ks[i] \in 1..Len(curves[i])

LEMMA BestIsOpen ==
  ASSUME NEW curves, NEW n \in Nat, Len(curves) = n, NEW ks, Allocation(curves, n, ks),
         best(curves, ks) # 0
  PROVE  best(curves, ks) \in 1..n /\ ks[best(curves, ks)] < Len(curves[best(curves, ks)])
<1> DEFINE cost(i) == marginal_cost(curves[i], ks[i])
           open   == {i \in 1..n : ks[i] < Len(curves[i])}
           best_i == {i \in open : \A j \in open : ~ Cheaper(cost(j), ks[j], cost(i), ks[i])}
           ratios == {Ratio(cost(i), ks[i]) : i \in open}
<1>1. best(curves, ks) = IF open = {} THEN 0 ELSE Min(best_i)
  BY Zenon DEF best
<1>2. open # {}
  BY <1>1
<1>3. \A i \in open : cost(i) \in Int /\ ks[i] \in 1..2
  <2> TAKE i \in open
  <2>1. Curve(curves[i]) /\ ks[i] \in 1..Len(curves[i]) /\ ks[i] < Len(curves[i]) /\ Len(curves[i]) \in 1..3
    BY DEF Allocation, Curve
  <2>2. ks[i] + 1 \in 1..Len(curves[i]) /\ ks[i] \in 1..2
    <3> PICK k, l : k = ks[i] /\ l = Len(curves[i])
      OBVIOUS
    <3>1. k \in 1..l /\ k < l /\ l \in 1..3
      BY <2>1
    <3>2. k + 1 \in 1..l /\ k \in 1..2
      BY <3>1
    <3> QED
      BY <3>2
  <2>3. Sum(curves[i], ks[i] + 1) \in Nat /\ Sum(curves[i], ks[i]) \in Nat
    BY <2>1, <2>2, CurveSum
  <2> QED
    BY <2>2, <2>3 DEF marginal_cost
<1> HIDE DEF cost, open
<1>4. ratios \subseteq Nat /\ ratios # {}
  BY <1>2, <1>3, CheaperIsLess
<1>5. PICK r \in ratios : \A q \in ratios : r <= q
  <2> HIDE DEF ratios
  <2> QED
    BY <1>4, LeastNatural
<1>6. PICK i \in open : r = Ratio(cost(i), ks[i])
  BY <1>5
<1>7. \A j \in open : ~ Cheaper(cost(j), ks[j], cost(i), ks[i])
  <2> TAKE j \in open
  <2>1. Ratio(cost(j), ks[j]) \in ratios
    OBVIOUS
  <2>2. r <= Ratio(cost(j), ks[j])
    <3> HIDE DEF ratios
    <3> QED
      BY <1>5, <2>1
  <2>3. Ratio(cost(j), ks[j]) \in Nat /\ Ratio(cost(i), ks[i]) \in Nat
        /\ (Cheaper(cost(j), ks[j], cost(i), ks[i]) <=> Ratio(cost(j), ks[j]) < Ratio(cost(i), ks[i]))
    BY <1>3, CheaperIsLess
  <2> QED
    BY <1>6, <2>2, <2>3
<1>8. i \in best_i
  BY <1>7
<1>9. best_i \subseteq Nat
  BY DEF open
<1>10. PICK m \in best_i : \A y \in best_i : m <= y
  <2> HIDE DEF best_i
  <2> QED
    BY <1>8, <1>9, LeastNatural
<1>11. Min(best_i) \in best_i
  <2> HIDE DEF best_i
  <2> QED
    BY <1>10, Zenon DEF Min
<1>12. best(curves, ks) \in open
  BY <1>1, <1>2, <1>11
<1> QED
  BY <1>12 DEF open

\* What an allocation costs when every position chooses evenly among its tokens.
Spent(curves, n, ks) == SumFunctionOnSet([i \in 1..n |-> Sum(curves[i], ks[i])], 1..n)

PaidFor(curves, n, budget, ks, spent) ==
  Allocation(curves, n, ks) /\ spent = Spent(curves, n, ks) /\ spent <= budget

IsPaidFor(curves, n, budget, filled) ==
  \E ks, spent : filled = [current_k |-> ks, total_cost |-> spent] /\ PaidFor(curves, n, budget, ks, spent)

LEMMA TermsAreInt ==
  ASSUME NEW curves, NEW n \in Nat, NEW ks, Allocation(curves, n, ks), NEW i \in 1..n
  PROVE  Sum(curves[i], ks[i]) \in Nat /\ (ks[i] = 1 => Sum(curves[i], ks[i]) = 0)
BY CurveSum DEF Allocation

\* One position given one token more costs what its marginal cost says.
Expands(curves, n, ks, i, more) ==
  /\ Allocation(curves, n, ks)
  /\ i \in 1..n /\ ks[i] < Len(curves[i])
  /\ more = [ks EXCEPT ![i] = @ + 1]

LEMMA SpentOnOneMore ==
  ASSUME NEW curves, NEW n \in Nat, NEW ks, NEW i, NEW more, Expands(curves, n, ks, i, more)
  PROVE  /\ Allocation(curves, n, more)
         /\ Spent(curves, n, more) = Spent(curves, n, ks) + marginal_cost(curves[i], ks[i])
<1>0. Allocation(curves, n, ks) /\ i \in 1..n /\ ks[i] < Len(curves[i])
  BY DEF Expands
<1>1. /\ more \in [1..n -> Nat] /\ more[i] = ks[i] + 1 /\ \A j \in (1..n) \ {i} : more[j] = ks[j]
      /\ \A j \in 1..n : ks[j] \in 1..Len(curves[j])
  BY DEF Allocation, Expands
<1>2. ks[i] + 1 \in 1..Len(curves[i])
  <2> PICK k, l : k = ks[i] /\ l = Len(curves[i])
    OBVIOUS
  <2>1. k \in 1..l /\ k < l /\ l \in Nat
    BY <1>0, <1>1 DEF Allocation, Curve
  <2> QED
    BY <2>1
<1>3. Allocation(curves, n, more)
  BY <1>0, <1>1, <1>2 DEF Allocation
<1> DEFINE f == [j \in 1..n |-> Sum(curves[j], ks[j])]
           g == [j \in 1..n |-> Sum(curves[j], more[j])]
<1>4. \A j \in 1..n : f[j] \in Int /\ g[j] \in Int
  <2> TAKE j \in 1..n
  <2>1. Sum(curves[j], ks[j]) \in Nat
    BY <1>0, TermsAreInt
  <2>2. Sum(curves[j], more[j]) \in Nat
    BY <1>3, TermsAreInt
  <2> QED
    BY <2>1, <2>2
<1>5. \A j \in (1..n) \ {i} : g[j] = f[j]
  BY <1>1
<1>6. g[i] - f[i] = marginal_cost(curves[i], ks[i])
  BY <1>0, <1>1 DEF marginal_cost
<1>7. IsFiniteSet(1..n)
  BY FS_Interval
<1>8. SumFunctionOnSet(g, 1..n) = SumFunctionOnSet(f, 1..n) + (g[i] - f[i])
  <2> HIDE DEF f, g
  <2>1. OneChanged(1..n, f, g, i)
    BY <1>0, <1>4, <1>5, <1>7 DEF OneChanged
  <2> QED
    BY <2>1, SumChanges
<1>9. Spent(curves, n, ks) = SumFunctionOnSet(f, 1..n) /\ Spent(curves, n, more) = SumFunctionOnSet(g, 1..n)
  BY DEF Spent
<1> QED
  BY <1>3, <1>6, <1>8, <1>9

LEMMA FillKeeps ==
  ASSUME NEW curves, NEW n \in Nat, Len(curves) = n, NEW budget \in Int,
         NEW filled, IsPaidFor(curves, n, budget, filled)
  PROVE  IsPaidFor(curves, n, budget, Fill(curves, budget, filled))
<1> PICK ks, spent : filled = [current_k |-> ks, total_cost |-> spent] /\ PaidFor(curves, n, budget, ks, spent)
  BY DEF IsPaidFor
<1>0. filled.current_k = ks /\ filled.total_cost = spent /\ Allocation(curves, n, ks)
      /\ spent = Spent(curves, n, ks) /\ spent <= budget
  BY DEF PaidFor
<1>i. PICK i : i = best(curves, ks)
  OBVIOUS
<1>a. PICK added : added = marginal_cost(curves[i], ks[i])
  OBVIOUS
<1>m. PICK more : more = [ks EXCEPT ![i] = @ + 1]
  OBVIOUS
<1>1. Fill(curves, budget, filled) =
        IF i = 0 \/ spent + added > budget THEN filled ELSE [current_k |-> more, total_cost |-> spent + added]
  BY <1>0, <1>i, <1>a, <1>m DEF Fill
<1>2. CASE i = 0 \/ spent + added > budget
  BY <1>1, <1>2
<1>3. CASE ~ (i = 0 \/ spent + added > budget)
  <2>1. i \in 1..n /\ ks[i] < Len(curves[i])
    BY <1>0, <1>3, <1>i, BestIsOpen
  <2>2. Allocation(curves, n, more) /\ Spent(curves, n, more) = Spent(curves, n, ks) + marginal_cost(curves[i], ks[i])
    <3>1. Expands(curves, n, ks, i, more)
      BY <1>0, <2>1, <1>m DEF Expands
    <3> QED
      BY <3>1, SpentOnOneMore
  <2>3. spent + added \in Int /\ spent + added <= budget
    <3>1. Spent(curves, n, ks) \in Int
      <4> DEFINE f == [j \in 1..n |-> Sum(curves[j], ks[j])]
      <4>1. \A j \in 1..n : f[j] \in Int
        BY <1>0, TermsAreInt
      <4>f. IsFiniteSet(1..n)
        BY FS_Interval
      <4> HIDE DEF f
      <4>2. SumFunctionOnSet(f, 1..n) \in Int
        BY <4>1, <4>f, SumIsInt
      <4> QED
        BY <4>2 DEF Spent, f
    <3>2. added \in Int
      <4>1. ks[i] \in 1..Len(curves[i]) /\ ks[i] + 1 \in 1..Len(curves[i]) /\ Curve(curves[i])
        <5> PICK k, l : k = ks[i] /\ l = Len(curves[i])
          OBVIOUS
        <5>1. k \in 1..l /\ k < l /\ l \in Nat
          BY <1>0, <2>1 DEF Allocation, Curve
        <5>2. k + 1 \in 1..l
          BY <5>1
        <5> QED
          BY <1>0, <2>1, <5>1, <5>2 DEF Allocation
      <4> QED
        BY <4>1, <1>a, CurveSum DEF marginal_cost
    <3> QED
      BY <1>0, <1>3, <3>1, <3>2
  <2>4. PaidFor(curves, n, budget, more, spent + added)
    BY <1>0, <1>a, <2>2, <2>3 DEF PaidFor
  <2>5. Fill(curves, budget, filled) = [current_k |-> more, total_cost |-> spent + added]
    BY <1>1, <1>3
  <2> QED
    BY <2>4, <2>5 DEF IsPaidFor
<1> QED
  BY <1>2, <1>3

\* What the loop of water_fill_capacity holds throughout.
LEMMA WaterFillIsPaidFor ==
  ASSUME NEW curves, NEW n \in Nat, Len(curves) = n, \A i \in 1..n : Curve(curves[i]), NEW tau \in Nat
  PROVE  IsPaidFor(curves, n, n * tau, water_fill_capacity(curves, tau))
<1>b. PICK budget \in Nat : budget = n * tau
  <2>1. \A x, y \in Nat : x * y \in Nat
    OBVIOUS
  <2> QED
    BY <2>1
<1> DEFINE ones == [i \in 1..n |-> 1]
           start == [current_k |-> ones, total_cost |-> 0]
<1>t. PICK turns \in Nat : turns = SumFunction([i \in 1..Len(curves) |-> Len(curves[i])])
  <2> DEFINE f == [i \in 1..n |-> Len(curves[i])]
  <2>1. \A i \in 1..n : f[i] \in Nat
    BY DEF Curve
  <2>2. DOMAIN f = 1..n /\ IsFiniteSet(1..n)
    BY FS_Interval
  <2> HIDE DEF f
  <2>3. SumFunctionOnSet(f, 1..n) \in Nat
    BY <2>1, <2>2, SumIsNat
  <2>4. SumFunction(f) \in Nat
    BY <2>2, <2>3 DEF SumFunction
  <2> QED
    BY <2>4 DEF f
<1> DEFINE Unrolls(h, m) == h = [k \in 0..m |-> IF k = 0 THEN start ELSE Fill(curves, budget, h[k-1])]
           fill == CHOOSE h : Unrolls(h, turns)
           P == {m \in 0..turns : \E h : Unrolls(h, m)}
<1>1. water_fill_capacity(curves, tau) = fill[turns]
  BY <1>b, <1>t, Zenon DEF water_fill_capacity
<1> HIDE DEF start
<1>2. 0 \in P
  <2> DEFINE g == [k \in 0..0 |-> start]
  <2>1. Unrolls(g, 0)
    OBVIOUS
  <2> HIDE DEF g, Unrolls
  <2> QED
    BY <2>1, 0 \in 0..turns
<1>3. ASSUME NEW m \in 0..(turns-1), m \in P PROVE m+1 \in P
  <2>1. PICK h : Unrolls(h, m)
    BY <1>3
  <2> DEFINE g == [k \in 0..(m+1) |-> IF k <= m THEN h[k] ELSE Fill(curves, budget, h[m])]
  <2>2. ASSUME NEW k \in 0..(m+1)
        PROVE  g[k] = IF k = 0 THEN start ELSE Fill(curves, budget, g[k-1])
    <3>1. CASE k = m+1
      BY <3>1
    <3>2. CASE k <= m
      <4>1. h[k] = IF k = 0 THEN start ELSE Fill(curves, budget, h[k-1])
        BY <2>1, <3>2
      <4> QED
        BY <4>1, <3>2
    <3> QED
      BY <3>1, <3>2
  <2>3. Unrolls(g, m+1)
    BY <2>2
  <2>4. m+1 \in 0..turns
    BY <1>3
  <2> HIDE DEF g, Unrolls
  <2> QED
    BY <2>3, <2>4
<1>4. PICK h : Unrolls(h, turns)
  <2> HIDE DEF P
  <2>1. turns \in P
    BY <1>2, <1>3, IntervalInduction, turns \in 0..turns
  <2> QED
    BY <2>1 DEF P
<1>5. Unrolls(fill, turns)
  <2> HIDE DEF Unrolls
  <2> QED
    BY <1>4
<1>6. PICK last : last = fill
  OBVIOUS
<1>7. /\ last[0] = start
      /\ \A k \in 1..turns : last[k] = Fill(curves, budget, last[k-1])
  <2> HIDE DEF fill
  <2> QED
    BY <1>5, <1>6
<1>8. IsPaidFor(curves, n, budget, start)
  <2>1. Allocation(curves, n, ones)
    <3>1. \A i \in 1..n : 1 \in 1..Len(curves[i])
      BY OneIsFirst
    <3>2. ones \in [1..n -> Nat] /\ \A i \in 1..n : ones[i] = 1
      OBVIOUS
    <3> HIDE DEF ones
    <3> QED
      BY <3>1, <3>2 DEF Allocation
  <2> DEFINE f == [j \in 1..n |-> Sum(curves[j], ones[j])]
             g == [j \in 1..n |-> 0]
  <2>f. IsFiniteSet(1..n)
    BY FS_Interval
  <2>2. \A j \in 1..n : f[j] = 0
    BY <2>1, TermsAreInt
  <2>3. SumFunctionOnSet(f, 1..n) = 0
    <3> HIDE DEF f
    <3> QED
      BY <2>2, <2>f, SumOfZeros
  <2>4. Spent(curves, n, ones) = 0
    BY <2>3 DEF Spent
  <2>5. PaidFor(curves, n, budget, ones, 0)
    BY <2>1, <2>4 DEF PaidFor
  <2> QED
    BY <2>5 DEF IsPaidFor, start
<1> DEFINE Q == {k \in 0..turns : IsPaidFor(curves, n, budget, last[k])}
<1>9. 0 \in Q
  BY <1>7, <1>8
<1>10. ASSUME NEW k \in 0..(turns-1), k \in Q PROVE k+1 \in Q
  <2>1. k+1 \in 1..turns /\ k+1 \in 0..turns /\ (k+1) - 1 = k
    OBVIOUS
  <2>2. last[k+1] = Fill(curves, budget, last[k])
    BY <1>7, <2>1
  <2>3. IsPaidFor(curves, n, budget, Fill(curves, budget, last[k]))
    BY <1>10, FillKeeps
  <2> QED
    BY <2>1, <2>2, <2>3
<1>11. turns \in Q
  <2> HIDE DEF Q
  <2> QED
    BY <1>9, <1>10, IntervalInduction, turns \in 0..turns
<1>12. IsPaidFor(curves, n, budget, last[turns])
  BY <1>11
<1> HIDE DEF fill
<1> QED
  BY <1>1, <1>6, <1>12, <1>b

-----------------------------------------------------------------------------
(* What the choices of stego_capacity cost *)

LEMMA LowestExists ==
  ASSUME NEW S, IsFiniteSet(S), S # {}, NEW s, \A t \in S : s[t] \in Int
  PROVE  \E t \in S : \A u \in S : s[t] <= s[u]
<1> DEFINE m == [t \in S |-> 0 - s[t]]
<1>1. \A t \in S : m[t] \in Int /\ m[t] = 0 - s[t]
  OBVIOUS
<1> HIDE DEF m
<1>2. PICK t \in S : \A u \in S : m[u] <= m[t]
  BY <1>1, HighestExists
<1>3. \A u \in S : s[t] <= s[u]
  BY <1>1, <1>2
<1> QED
  BY <1>3

\* There is a k-th best score for every k up to the number of tokens.
KthBest(S, s, k, v) ==
  /\ Cardinality({t \in S : s[t] > v}) < k
  /\ k <= Cardinality({t \in S : s[t] >= v})

LEMMA KthBestExists ==
  ASSUME NEW S, IsFiniteSet(S), NEW s, \A t \in S : s[t] \in Int,
         NEW k \in 1..Cardinality(S)
  PROVE  \E t \in S : KthBest(S, s, k, s[t])
<1> DEFINE AtLeast(v) == {u \in S : s[u] >= v}
           Above(v) == {u \in S : s[u] > v}
           C == {t \in S : k <= Cardinality(AtLeast(s[t]))}
<1>0. Cardinality(S) \in Nat /\ k \in Nat /\ k >= 1 /\ k <= Cardinality(S)
  BY FS_CardinalityType
<1>1. S # {}
  BY <1>0, FS_EmptySet
<1>2. C # {}
  <2>1. PICK t \in S : \A u \in S : s[t] <= s[u]
    BY <1>1, LowestExists
  <2>2. AtLeast(s[t]) = S
    BY <2>1
  <2>3. t \in C
    BY <1>0, <2>2
  <2> QED
    BY <2>3
<1>3. IsFiniteSet(C)
  BY FS_Subset, C \subseteq S
<1>4. PICK t \in C : \A u \in C : s[u] <= s[t]
  <2>1. \A u \in C : s[u] \in Int
    OBVIOUS
  <2> HIDE DEF C
  <2> QED
    BY <1>2, <1>3, <2>1, HighestExists
<1>5. k <= Cardinality(AtLeast(s[t])) /\ t \in S
  OBVIOUS
<1>6. Cardinality(Above(s[t])) < k
  <2> DEFINE A == Above(s[t])
  <2>1. IsFiniteSet(A) /\ Cardinality(A) \in Nat
    <3>1. A \subseteq S
      OBVIOUS
    <3> HIDE DEF A
    <3> QED
      BY <3>1, FS_Subset, FS_CardinalityType
  <2>2. SUFFICES ASSUME Cardinality(A) >= k PROVE FALSE
    <3> HIDE DEF A
    <3>1. ~ (Cardinality(A) >= k) => Cardinality(A) < k
      BY <1>0, <2>1
    <3> QED
      BY <3>1 DEF A
  <2>3. A # {}
    <3> HIDE DEF A
    <3> QED
      BY <1>0, <2>2, FS_EmptySet
  <2>4. PICK u \in A : \A w \in A : s[u] <= s[w]
    <3>1. \A w \in A : s[w] \in Int
      OBVIOUS
    <3> HIDE DEF A
    <3> QED
      BY <2>1, <2>3, <3>1, LowestExists
  <2>5. u \in S /\ s[u] > s[t]
    OBVIOUS
  <2>6. AtLeast(s[u]) = A
    BY <2>4, <2>5
  <2>7. u \in C
    <3> HIDE DEF A
    <3> QED
      BY <2>2, <2>5, <2>6
  <2> QED
    BY <1>4, <1>5, <2>5, <2>7
<1> QED
  BY <1>5, <1>6 DEF KthBest

LEMMA CostCurve ==
  ASSUME NEW S, IsFiniteSet(S), S # {}, NEW s \in [S -> Int], NEW max_k \in 1..3
  PROVE  Curve(cost_curve_at_position(s, max_k))
<1> PICK n \in Nat : n = Cardinality(S)
  BY FS_CardinalityType
<1>1. n >= 1
  BY FS_EmptySet
<1>d. DOMAIN s = S /\ \A t \in S : s[t] \in Int
  OBVIOUS
<1>2. ASSUME NEW k \in 1..n
      PROVE  \E t \in S : top_scores(s, k) = s[t] /\ KthBest(S, s, k, s[t])
  <2>1. \E t \in S : KthBest(S, s, k, s[t])
    BY <1>d, KthBestExists
  <2>2. \E v \in {s[t] : t \in S} : KthBest(S, s, k, v)
    BY <2>1
  <2>3. top_scores(s, k) = CHOOSE v \in {s[t] : t \in S} : KthBest(S, s, k, v)
    BY <1>d, Zenon DEF top_scores, KthBest
  <2>4. top_scores(s, k) \in {s[t] : t \in S} /\ KthBest(S, s, k, top_scores(s, k))
    BY <2>2, <2>3, Zenon
  <2> QED
    BY <2>4
<1>3. PICK t \in S : top_scores(s, 1) = s[t] /\ KthBest(S, s, 1, s[t])
  BY <1>1, <1>2
<1>4. \A u \in S : s[u] <= s[t]
  <2> DEFINE A == {u \in S : s[u] > s[t]}
  <2>1. A \subseteq S
    OBVIOUS
  <2>2. Cardinality(A) < 1
    BY <1>3 DEF KthBest
  <2>3. A = {}
    <3> HIDE DEF A
    <3>1. IsFiniteSet(A) /\ Cardinality(A) \in Nat
      BY <2>1, FS_Subset, FS_CardinalityType
    <3> QED
      BY <2>2, <3>1, FS_EmptySet
  <2>4. \A u \in S : ~ (s[u] > s[t])
    BY <2>3
  <2> QED
    BY <1>d, <2>4
<1>5. PICK m : m = Min({max_k, n})
  OBVIOUS
<1>6. m \in 1..3 /\ m <= n
  <2> DEFINE M == {max_k, n}
  <2>1. \E x \in M : \A y \in M : x <= y
    OBVIOUS
  <2>2. Min(M) \in M /\ \A y \in M : Min(M) <= y
    <3> HIDE DEF M
    <3> QED
      BY <2>1, Zenon DEF Min
  <2> QED
    BY <1>1, <1>5, <2>2
<1>7. PICK c : c = [k \in 1..m |-> top_scores(s, 1) - top_scores(s, k)]
  OBVIOUS
<1>8. cost_curve_at_position(s, max_k) = c
  BY <1>5, <1>7, <1>d DEF cost_curve_at_position
<1>9. \A k \in 1..m : c[k] \in Nat
  <2> TAKE k \in 1..m
  <2>1. PICK u \in S : top_scores(s, k) = s[u]
    BY <1>2, <1>6
  <2>2. c[k] = s[t] - s[u]
    BY <1>3, <1>7, <2>1
  <2> QED
    BY <1>4, <1>d, <2>2
<1>10. c[1] = 0
  BY <1>3, <1>6, <1>7, <1>d
<1>11. c \in Seq(Nat) /\ Len(c) = m
  <2>1. c \in [1..m -> Nat]
    BY <1>7, <1>9
  <2> QED
    BY <1>6, <2>1
<1> QED
  BY <1>6, <1>8, <1>10, <1>11 DEF Curve

\* Each position of an honest output has a cost curve.
LEMMA CostCurvesAre ==
  ASSUME SamplingTypeOK, NEW i \in 1..Len(out)
  PROVE  Curve(gather_cost_curves[i])
<1>1. /\ prompt \in Seq(Vocab) /\ out \in Seq(Vocab) /\ seed \in Seeds /\ prover.T \in Temperatures
      /\ Len(prompt) <= MaxText /\ Len(out) <= MaxText
  BY KindOf, Lengths0 DEF SamplingTypeOK
<1>c. PICK pos, ctx : pos = Len(prompt) + i - 1 /\ ctx = Context(prompt \o out, Len(prompt) + i - 1)
  OBVIOUS
<1>b. PICK before : before = SubSeq(out, 1, i-1)
  OBVIOUS
<1>2. before \in Seq(Vocab)
  BY <1>1, <1>b
<1>3. ctx = LeftPad(LastTokens(prompt \o before))
  <2>1. Context(prompt \o out, Len(prompt) + i - 1) = LeftPad(LastTokens(prompt \o SubSeq(out, 1, i-1)))
    BY <1>1, ContextIs
  <2> QED
    BY <1>b, <1>c, <2>1, Zenon
<1>4. pos \in 0..(2 * MaxText)
  <2>1. Len(prompt) \in 0..MaxText /\ Len(out) \in 0..MaxText /\ MaxText \in Nat
    BY <1>1, DifrAssumption
  <2>2. PICK p \in 0..MaxText, o \in 0..MaxText : p = Len(prompt) /\ o = Len(out)
    BY <2>1
  <2>3. i \in 1..o /\ pos = p + i - 1
    BY <1>c, <2>2
  <2> QED
    BY <2>1, <2>2, <2>3
<1>s. PICK s : s = Scores(ctx, seed, pos, prover.T)
  OBVIOUS
<1>6. s \in [Vocab -> Int]
  <2>1. prompt \o before \in Seq(Vocab)
    BY <1>1, <1>2
  <2>2. ctx \in Windows
    BY <1>3, <2>1, LastTokensFit, WindowIsWindow
  <2> QED
    BY <1>1, <1>4, <1>s, <2>2, ScoresAssumption, Zenon DEF Windows
<1>7. Curve(cost_curve_at_position(s, MAX_K))
  <2>1. Vocab # {} /\ IsFiniteSet(Vocab) /\ MAX_K \in 1..3
    BY DifrAssumption, SamplingAssumption
  <2> QED
    BY <1>6, <2>1, CostCurve, Zenon
<1>8. gather_cost_curves[i] = cost_curve_at_position(s, MAX_K)
  BY <1>c, <1>s DEF gather_cost_curves
<1> QED
  BY <1>7, <1>8

\* Sixths of mean costs are at most six times the total costs.
LEMMA MeansAreAffordable ==
  ASSUME NEW curves, NEW n \in Nat, NEW budget \in Nat,
         NEW ks, NEW spent, PaidFor(curves, n, budget, ks, spent),
         NEW sixths, sixths = [i \in 1..n |-> (6 \div ks[i]) * Sum(curves[i], ks[i])]
  PROVE  SumFunction(sixths) <= 6 * budget
<1> DEFINE f == [i \in 1..n |-> Sum(curves[i], ks[i])]
<1>1. Allocation(curves, n, ks) /\ spent = SumFunctionOnSet(f, 1..n) /\ spent <= budget
  BY DEF PaidFor, Spent
<1>2. \A i \in 1..n : sixths[i] \in Int /\ f[i] \in Int /\ sixths[i] <= 6 * f[i]
  <2> TAKE i \in 1..n
  <2>0. ks[i] \in 1..3
    <3>1. \E l \in 1..3 : ks[i] \in 1..l
      BY <1>1 DEF Allocation, Curve
    <3>2. \A l \in 1..3 : 1..l \subseteq 1..3
      OBVIOUS
    <3> QED
      BY <3>1, <3>2, Zenon
  <2>1. PICK c \in Nat : c = Sum(curves[i], ks[i])
    BY <1>1, TermsAreInt
  <2>2. PICK d \in 1..6 : d = 6 \div ks[i]
    <3>1. CASE ks[i] = 1
      BY <3>1
    <3>2. CASE ks[i] = 2
      BY <3>2
    <3>3. CASE ks[i] = 3
      BY <3>3
    <3> QED
      BY <2>0, <3>1, <3>2, <3>3
  <2>3. sixths[i] = d * c /\ f[i] = c
    BY <2>1, <2>2
  <2>4. \A x \in 1..6 : x * c \in Int /\ x * c <= 6 * c
    OBVIOUS
  <2> QED
    BY <2>3, <2>4
<1>3. IsFiniteSet(1..n)
  BY FS_Interval
<1>4. SumFunction(sixths) = SumFunctionOnSet(sixths, 1..n)
  BY DEF SumFunction
<1> HIDE DEF f
<1>5. SumFunctionOnSet(sixths, 1..n) <= 6 * SumFunctionOnSet(f, 1..n)
  BY <1>2, <1>3, SumAtMost
<1>6. SumFunctionOnSet(f, 1..n) \in Int /\ SumFunctionOnSet(sixths, 1..n) \in Int
  BY <1>2, <1>3, SumIsInt
<1> QED
  BY <1>1, <1>4, <1>5, <1>6

\* stego_capacity.py, water_fill_capacity: whatever the model's scores on an output
\* generated so far, the alphabets it gives to the positions cost no more on average,
\* counted as mean costs of a choice among k, than the threshold tau.
THEOREM WaterFillAffords == SamplingSpec => []WaterFillIsAffordable
<1>1. SamplingInv => WaterFillIsAffordable
  <2> SUFFICES ASSUME SamplingInv, NEW tau \in 0..PASS_TAU
               PROVE  LET curves == gather_cost_curves
                          filled == water_fill_capacity(curves, tau)
                          sixths == [i \in 1..Len(out) |->
                                       (6 \div filled.current_k[i]) * Sum(curves[i], filled.current_k[i])]
                      IN  SumFunction(sixths) <= 6 * Len(out) * tau
    BY DEF WaterFillIsAffordable
  <2>0. SamplingTypeOK
    BY DEF SamplingInv
  <2>n. PICK n \in Nat : n = Len(out)
    BY <2>0, Lengths0
  <2>c. PICK curves : curves = gather_cost_curves
    OBVIOUS
  <2>t. tau \in Nat
    BY SamplingAssumption
  <2>1. Len(curves) = n
    BY <2>c, <2>n DEF gather_cost_curves
  <2>2. \A i \in 1..n : Curve(curves[i])
    BY <2>0, <2>c, <2>n, CostCurvesAre
  <2>b. PICK budget \in Nat : budget = n * tau
    <3>1. \A x, y \in Nat : x * y \in Nat
      OBVIOUS
    <3> QED
      BY <3>1, <2>t
  <2>3. IsPaidFor(curves, n, n * tau, water_fill_capacity(curves, tau))
    BY <2>1, <2>2, <2>t, WaterFillIsPaidFor
  <2>4. PICK ks, spent : /\ water_fill_capacity(curves, tau) = [current_k |-> ks, total_cost |-> spent]
                         /\ PaidFor(curves, n, budget, ks, spent)
    BY <2>3, <2>b DEF IsPaidFor
  <2>5. water_fill_capacity(curves, tau).current_k = ks
    BY <2>4
  <2>6. PICK sixths : sixths = [i \in 1..n |-> (6 \div ks[i]) * Sum(curves[i], ks[i])]
    OBVIOUS
  <2>7. SumFunction(sixths) <= 6 * budget
    BY <2>4, <2>6, MeansAreAffordable
  <2>8. 6 * n * tau = 6 * budget
    BY <2>b, <2>t
  <2> QED
    BY <2>5, <2>6, <2>7, <2>8, <2>c, <2>n
<1> QED
  BY <1>1, SamplingInvariant, PTL

-----------------------------------------------------------------------------
(* Ranks *)

LEMMA CountSplits ==
  ASSUME NEW S, IsFiniteSet(S), NEW T \in SUBSET S
  PROVE  /\ Cardinality(T) \in Nat /\ Cardinality(S \ T) \in Nat
         /\ Cardinality(S) = Cardinality(T) + Cardinality(S \ T)
<1>1. IsFiniteSet(T) /\ IsFiniteSet(S \ T)
  BY FS_Subset
<1>2. T \cup (S \ T) = S /\ T \cap (S \ T) = {}
  OBVIOUS
<1>3. Cardinality(S) = Cardinality(T) + Cardinality(S \ T) - 0
  BY <1>1, <1>2, FS_Union, FS_EmptySet, Zenon
<1> QED
  BY <1>1, <1>3, FS_CardinalityType

\* A one-to-one map from all of S onto all of T.
Matches(f, S, T) ==
  /\ f \in [S -> T]
  /\ \A x, y \in S : f[x] = f[y] => x = y
  /\ \A t \in T : \E x \in S : f[x] = t

LEMMA MatchedCount ==
  ASSUME NEW S, IsFiniteSet(S), NEW T, NEW f, Matches(f, S, T)
  PROVE  Cardinality(T) = Cardinality(S)
<1>1. f \in Bijection(S, T)
  BY DEF Matches, Bijection, Injection, Surjection, IsInjective
<1>2. ExistsBijection(S, T)
  BY <1>1 DEF ExistsBijection
<1> QED
  BY <1>2, FS_Bijection

Less(sc, N, i) == {j \in 1..N : sc[j] < sc[i]}
Tied(sc, N, i) == {j \in 1..N : sc[j] = sc[i]}

\* The places of a tied block follow those of all smaller scores.
LEMMA PlaceIs ==
  ASSUME NEW N \in Nat, NEW sc, \A j \in 1..N : sc[j] \in Int, Len(sc) = N,
         NEW i \in 1..N, NEW j \in Tied(sc, N, i)
  PROVE  Places(sc)[j] = Cardinality(Less(sc, N, i)) + Cardinality({k \in Tied(sc, N, i) : k <= j})
<1> DEFINE S == {k \in 1..N : sc[k] < sc[j] \/ (sc[k] = sc[j] /\ k <= j)}
           L == Less(sc, N, i)
<1>1. j \in 1..N /\ sc[j] = sc[i] /\ sc[i] \in Int
  BY DEF Tied
<1>2. IsFiniteSet(S)
  BY FS_Interval, FS_Subset, S \in SUBSET (1..N)
<1>3. L \in SUBSET S /\ S \ L = {k \in Tied(sc, N, i) : k <= j}
  BY <1>1 DEF Less, Tied
<1>4. Cardinality(S) = Cardinality(L) + Cardinality(S \ L)
  <2> HIDE DEF S, L
  <2> QED
    BY <1>2, <1>3, CountSplits
<1>5. Places(sc)[j] = Cardinality(S)
  BY <1>1 DEF Places
<1> QED
  BY <1>3, <1>4, <1>5

LEMMA RankIs ==
  ASSUME NEW N \in Nat, NEW sc, \A j \in 1..N : sc[j] \in Int, Len(sc) = N, NEW i \in 1..N
  PROVE  /\ RanksDoubled(sc)[i] = 2 * Cardinality(Less(sc, N, i)) + Cardinality(Tied(sc, N, i)) + 1
         /\ Cardinality(Less(sc, N, i)) \in Nat /\ Cardinality(Tied(sc, N, i)) \in Nat
<1> DEFINE T == Tied(sc, N, i)
           upto(j) == {k \in T : k <= j}
           block == {Places(sc)[j] : j \in T}
<1>1. T \in SUBSET (1..N) /\ i \in T /\ Less(sc, N, i) \in SUBSET (1..N)
  BY DEF Tied, Less
<1>2. IsFiniteSet(1..N) /\ T \subseteq Nat
  BY <1>1, FS_Interval
<1>l. PICK l \in Nat : l = Cardinality(Less(sc, N, i))
  BY <1>1, <1>2, CountSplits
<1>e. PICK e \in Nat : e = Cardinality(T)
  BY <1>1, <1>2, CountSplits
<1>3. IsFiniteSet(T) /\ T # {}
  BY <1>1, <1>2, FS_Subset
<1>4. \A j \in T : Places(sc)[j] = l + Cardinality(upto(j))
  BY <1>l, PlaceIs
<1>5. ASSUME NEW j \in T
      PROVE  Cardinality(upto(j)) \in Nat /\ 1 <= Cardinality(upto(j)) /\ Cardinality(upto(j)) <= e
  <2>1. upto(j) \in SUBSET T /\ j \in upto(j)
    BY <1>2
  <2> HIDE DEF upto, T
  <2>2. IsFiniteSet(upto(j)) /\ Cardinality(upto(j)) <= e
    BY <1>3, <1>e, <2>1, FS_Subset
  <2>3. Cardinality(upto(j)) \in Nat /\ Cardinality(upto(j)) # 0
    BY <2>1, <2>2, FS_CardinalityType, FS_EmptySet
  <2> QED
    BY <2>2, <2>3
<1>6. PICK a \in T : \A k \in T : a <= k
  <2> HIDE DEF T
  <2> QED
    BY <1>2, <1>3, LeastNatural
<1>7. Cardinality(upto(a)) = 1
  <2>1. upto(a) = {a}
    BY <1>2, <1>6
  <2> QED
    BY <2>1, FS_Singleton
<1>8. PICK z \in T : \A k \in T : k <= z
  <2>1. \A k \in T : k \in Int
    BY <1>2
  <2> DEFINE id == [k \in T |-> k]
  <2>2. \A k \in T : id[k] \in Int /\ id[k] = k
    BY <2>1
  <2> HIDE DEF T, id
  <2>3. \E t \in T : \A u \in T : id[u] <= id[t]
    BY <1>3, <2>2, HighestExists
  <2> QED
    BY <2>2, <2>3
<1>9. Cardinality(upto(z)) = e
  <2>1. upto(z) = T
    BY <1>8
  <2> QED
    BY <1>e, <2>1
<1> HIDE DEF T, upto
<1>10. l + 1 \in block /\ \A y \in block : l + 1 <= y /\ y <= l + e
  <2>1. Places(sc)[a] = l + 1
    BY <1>4, <1>7
  <2> QED
    BY <1>4, <1>5, <2>1
<1>11. l + e \in block
  <2>1. Places(sc)[z] = l + e
    BY <1>4, <1>9
  <2> QED
    BY <2>1
<1>12. block \subseteq Int
  BY <1>4, <1>5
<1> HIDE DEF block
<1>13. Min(block) = l + 1
  <2>1. \E x \in block : \A y \in block : x <= y
    BY <1>10
  <2>2. Min(block) \in block /\ \A y \in block : Min(block) <= y
    BY <2>1, Zenon DEF Min
  <2>3. PICK m \in Int : m = Min(block)
    BY <1>12, <2>2
  <2>4. m <= l + 1 /\ l + 1 <= m
    BY <1>10, <2>2, <2>3
  <2>5. m = l + 1
    BY <2>4
  <2> QED
    BY <2>3, <2>5
<1>14. Max(block) = l + e
  <2>1. \E x \in block : \A y \in block : x >= y
    BY <1>10, <1>11, <1>12
  <2>2. Max(block) \in block /\ \A y \in block : Max(block) >= y
    BY <2>1, Zenon DEF Max
  <2>3. PICK m \in Int : m = Max(block)
    BY <1>12, <2>2
  <2>4. m >= l + e /\ m <= l + e
    BY <1>10, <1>11, <2>2, <2>3
  <2>5. m = l + e
    BY <2>4
  <2> QED
    BY <2>3, <2>5
<1>15. RanksDoubled(sc)[i] = Min(block) + Max(block)
  BY DEF RanksDoubled, block, T, Tied
<1> QED
  BY <1>13, <1>14, <1>15, <1>l, <1>e DEF T

Pairs(q, N) == (1..q) \X (1..N)
LessPairs(sc, q, N) == {x \in Pairs(q, N) : sc[x[2]] < sc[x[1]]}
TiedPairs(sc, q, N) == {x \in Pairs(q, N) : sc[x[2]] = sc[x[1]]}

LEMMA PairsFinite ==
  ASSUME NEW q \in Nat, NEW N \in Nat
  PROVE  /\ IsFiniteSet(Pairs(q, N)) /\ Cardinality(Pairs(q, N)) = q * N
         /\ \A P \in SUBSET Pairs(q, N) : IsFiniteSet(P) /\ Cardinality(P) \in Nat
<1>1. IsFiniteSet(1..q) /\ IsFiniteSet(1..N) /\ Cardinality(1..q) = q /\ Cardinality(1..N) = N
  BY FS_Interval
<1>2. IsFiniteSet(Pairs(q, N)) /\ Cardinality(Pairs(q, N)) = q * N
  <2> PICK A, B : A = 1..q /\ B = 1..N
    OBVIOUS
  <2>1. IsFiniteSet(A \X B) /\ Cardinality(A \X B) = Cardinality(A) * Cardinality(B)
    BY <1>1, FS_Product
  <2> QED
    BY <1>1, <2>1 DEF Pairs
<1> QED
  BY <1>2, FS_Subset, FS_CardinalityType

\* The pairs of one more row.
LEMMA RowAdds ==
  ASSUME NEW q \in Nat, NEW N \in Nat, NEW P \in SUBSET Pairs(q+1, N),
         NEW Q, Q = {x \in P : x[1] # q+1}, NEW row, row = {j \in 1..N : <<q+1, j>> \in P}
  PROVE  Cardinality(P) = Cardinality(Q) + Cardinality(row)
<1>1. IsFiniteSet(P)
  BY PairsFinite, q+1 \in Nat
<1>2. Cardinality(P) = Cardinality(Q) + Cardinality(P \ Q)
  BY <1>1, CountSplits, Q \in SUBSET P
<1>3. IsFiniteSet(row)
  <2>1. row \in SUBSET (1..N) /\ IsFiniteSet(1..N)
    BY FS_Interval
  <2> QED
    BY <2>1, FS_Subset
<1> DEFINE f == [j \in row |-> <<q+1, j>>]
<1>4. Matches(f, row, P \ Q)
  <2>1. ASSUME NEW x \in P \ Q PROVE x[2] \in row /\ f[x[2]] = x
    <3>1. x \in (1..(q+1)) \X (1..N)
      BY DEF Pairs
    <3>2. x[1] = q+1 /\ x[2] \in 1..N /\ x = <<x[1], x[2]>>
      BY <3>1
    <3> QED
      BY <3>2
  <2>2. \A j \in row : f[j] \in P \ Q
    OBVIOUS
  <2> QED
    BY <2>1, <2>2 DEF Matches
<1>5. Cardinality(P \ Q) = Cardinality(row)
  <2> HIDE DEF f
  <2> QED
    BY <1>3, <1>4, MatchedCount
<1> QED
  BY <1>2, <1>5

LEMMA PairsGrow ==
  ASSUME NEW q \in Nat, NEW N \in Nat, NEW sc
  PROVE  /\ Cardinality(LessPairs(sc, q+1, N)) = Cardinality(LessPairs(sc, q, N)) + Cardinality(Less(sc, N, q+1))
         /\ Cardinality(TiedPairs(sc, q+1, N)) = Cardinality(TiedPairs(sc, q, N)) + Cardinality(Tied(sc, N, q+1))
<1>1. \A x : x \in Pairs(q+1, N) /\ x[1] # q+1 <=> x \in Pairs(q, N)
  BY DEF Pairs
<1>2. \A j \in 1..N : <<q+1, j>> \in Pairs(q+1, N)
  BY DEF Pairs
<1>3. /\ LessPairs(sc, q, N) = {x \in LessPairs(sc, q+1, N) : x[1] # q+1}
      /\ TiedPairs(sc, q, N) = {x \in TiedPairs(sc, q+1, N) : x[1] # q+1}
  BY <1>1 DEF LessPairs, TiedPairs
<1>4. /\ Less(sc, N, q+1) = {j \in 1..N : <<q+1, j>> \in LessPairs(sc, q+1, N)}
      /\ Tied(sc, N, q+1) = {j \in 1..N : <<q+1, j>> \in TiedPairs(sc, q+1, N)}
  BY <1>2 DEF Less, Tied, LessPairs, TiedPairs
<1>5. LessPairs(sc, q+1, N) \in SUBSET Pairs(q+1, N) /\ TiedPairs(sc, q+1, N) \in SUBSET Pairs(q+1, N)
  BY DEF LessPairs, TiedPairs
<1> QED
  BY <1>3, <1>4, <1>5, RowAdds

\* The ranks of the first q scores count the pairs they are above in, and tied in.
LEMMA RankSum ==
  ASSUME NEW N \in Nat, NEW sc, \A j \in 1..N : sc[j] \in Int, Len(sc) = N, NEW p \in 0..N
  PROVE  SumFunctionOnSet(RanksDoubled(sc), 1..p) =
           2 * Cardinality(LessPairs(sc, p, N)) + Cardinality(TiedPairs(sc, p, N)) + p
<1> DEFINE Counts(q) == SumFunctionOnSet(RanksDoubled(sc), 1..q) =
                          2 * Cardinality(LessPairs(sc, q, N)) + Cardinality(TiedPairs(sc, q, N)) + q
           P == {q \in 0..p : Counts(q)}
<1>1. 0 \in P
  <2>1. Pairs(0, N) = {}
    BY DEF Pairs
  <2>2. Cardinality(LessPairs(sc, 0, N)) = 0 /\ Cardinality(TiedPairs(sc, 0, N)) = 0
    <3>1. LessPairs(sc, 0, N) = {} /\ TiedPairs(sc, 0, N) = {}
      BY <2>1 DEF LessPairs, TiedPairs
    <3> QED
      BY <3>1, FS_EmptySet
  <2>3. SumFunctionOnSet(RanksDoubled(sc), 1..0) = 0
    BY SumOfNone, 1..0 = {}
  <2> QED
    BY <2>2, <2>3
<1>2. ASSUME NEW q \in 0..(p-1), q \in P PROVE q+1 \in P
  <2>r. PICK r : r = RanksDoubled(sc)
    OBVIOUS
  <2>1. \A k \in 1..N : /\ r[k] = 2 * Cardinality(Less(sc, N, k)) + Cardinality(Tied(sc, N, k)) + 1
                        /\ Cardinality(Less(sc, N, k)) \in Nat /\ Cardinality(Tied(sc, N, k)) \in Nat
    BY <2>r, RankIs
  <2>2. q \in Nat /\ \A k \in 1..(q+1) : r[k] \in Int
    <3>1. 1..(q+1) \subseteq 1..N
      OBVIOUS
    <3>2. \A c, d \in Nat : 2 * c + d + 1 \in Int
      OBVIOUS
    <3>3. \A k \in 1..N : r[k] \in Int
      BY <2>1, <3>2, Zenon
    <3> QED
      BY <3>1, <3>3
  <2>3. SumFunctionOnSet(r, 1..(q+1)) = r[q+1] + SumFunctionOnSet(r, 1..q)
    BY <2>2, SumUpTo
  <2>4. /\ Cardinality(LessPairs(sc, q+1, N)) = Cardinality(LessPairs(sc, q, N)) + Cardinality(Less(sc, N, q+1))
        /\ Cardinality(TiedPairs(sc, q+1, N)) = Cardinality(TiedPairs(sc, q, N)) + Cardinality(Tied(sc, N, q+1))
    BY <2>2, PairsGrow
  <2>5. Cardinality(LessPairs(sc, q, N)) \in Nat /\ Cardinality(TiedPairs(sc, q, N)) \in Nat
    <3>1. LessPairs(sc, q, N) \in SUBSET Pairs(q, N) /\ TiedPairs(sc, q, N) \in SUBSET Pairs(q, N)
      BY DEF LessPairs, TiedPairs
    <3> QED
      BY <2>2, <3>1, PairsFinite
  <2>6. q+1 \in 1..N /\ q+1 \in 0..p
    OBVIOUS
  <2>0. \A w, x, y, z \in Nat : (2 * y + z + 1) + (2 * w + x + q) = 2 * (w + y) + (x + z) + (q + 1)
    OBVIOUS
  <2>p. PICK a \in Nat, b \in Nat, c \in Nat, d \in Nat :
        /\ a = Cardinality(LessPairs(sc, q, N)) /\ b = Cardinality(TiedPairs(sc, q, N))
        /\ c = Cardinality(Less(sc, N, q+1)) /\ d = Cardinality(Tied(sc, N, q+1))
    BY <2>1, <2>5, <2>6
  <2>7. r[q+1] = 2 * c + d + 1 /\ SumFunctionOnSet(r, 1..q) = 2 * a + b + q
    <3>1. Counts(q)
      BY <1>2
    <3> QED
      BY <2>1, <2>6, <2>p, <2>r, <3>1, Zenon
  <2>8. SumFunctionOnSet(r, 1..(q+1)) = 2 * (a + c) + (b + d) + (q + 1)
    <3>1. SumFunctionOnSet(r, 1..(q+1)) = (2 * c + d + 1) + (2 * a + b + q)
      BY <2>3, <2>7, Zenon
    <3>2. (2 * c + d + 1) + (2 * a + b + q) = 2 * (a + c) + (b + d) + (q + 1)
      BY <2>0
    <3> QED
      BY <3>1, <3>2, Zenon
  <2>9. Counts(q+1)
    BY <2>4, <2>8, <2>p, <2>r, Zenon
  <2> QED
    BY <2>6, <2>9
<1>3. p \in P
  <2>1. p \in Nat /\ p \in 0..p
    OBVIOUS
  <2>2. \A k \in 0..p : k \in P
    <3> HIDE DEF P
    <3>1. \A k \in 0..(p-1) : k \in P => k+1 \in P
      BY <1>2
    <3> QED
      BY <1>1, <2>1, <3>1, IntervalInduction, Zenon
  <2> QED
    BY <2>1, <2>2
<1> QED
  BY <1>3

\* Within a sample, each pair of different scores counts once, in one of its orders.
LEMMA OwnPairs ==
  ASSUME NEW p \in Nat, NEW sc, \A j \in 1..p : sc[j] \in Int
  PROVE  2 * Cardinality(LessPairs(sc, p, p)) + Cardinality(TiedPairs(sc, p, p)) = p * p
<1> DEFINE A == Pairs(p, p)
           L == LessPairs(sc, p, p)
           G == {x \in A : sc[x[1]] < sc[x[2]]}
           E == TiedPairs(sc, p, p)
           f == [x \in L |-> <<x[2], x[1]>>]
<1>1. IsFiniteSet(A) /\ Cardinality(A) = p * p /\ IsFiniteSet(L)
  BY PairsFinite, L \in SUBSET A DEF LessPairs
<1>a. \A x \in A : /\ x[1] \in 1..p /\ x[2] \in 1..p /\ x = <<x[1], x[2]>> /\ <<x[2], x[1]>> \in A
                   /\ sc[x[1]] \in Int /\ sc[x[2]] \in Int
  BY DEF Pairs
<1>2. Matches(f, L, G)
  <2>1. ASSUME NEW x \in L PROVE f[x] \in G /\ x \in A /\ f[x][1] = x[2] /\ f[x][2] = x[1]
    BY <1>a DEF LessPairs
  <2>2. ASSUME NEW x \in L, NEW y \in L, f[x] = f[y] PROVE x = y
    <3>1. x[1] = y[1] /\ x[2] = y[2]
      BY <2>1, <2>2
    <3> QED
      BY <1>a, <2>1, <3>1
  <2>3. ASSUME NEW t \in G PROVE \E x \in L : f[x] = t
    <3>1. <<t[2], t[1]>> \in L /\ f[<<t[2], t[1]>>] = t
      BY <1>a DEF LessPairs
    <3> QED
      BY <3>1
  <2> QED
    BY <2>1, <2>2, <2>3 DEF Matches
<1>3. Cardinality(G) = Cardinality(L)
  <2> HIDE DEF f, G, L
  <2> QED
    BY <1>1, <1>2, MatchedCount
<1>4. L \in SUBSET A /\ E \in SUBSET (A \ L) /\ (A \ L) \ E = G
  <2>1. \A x \in A : /\ x \in L <=> sc[x[2]] < sc[x[1]]
                     /\ x \in E <=> sc[x[2]] = sc[x[1]]
                     /\ x \in G <=> sc[x[1]] < sc[x[2]]
    BY DEF LessPairs, TiedPairs
  <2>2. L \subseteq A /\ E \subseteq A /\ G \subseteq A
    BY DEF LessPairs, TiedPairs
  <2>3. \A x \in A : /\ ~ (x \in L /\ x \in E) /\ ~ (x \in L /\ x \in G) /\ ~ (x \in E /\ x \in G)
                     /\ x \in L \/ x \in E \/ x \in G
    <3> TAKE x \in A
    <3> PICK a \in Int, b \in Int : a = sc[x[1]] /\ b = sc[x[2]]
      BY <1>a
    <3>1. (x \in L <=> b < a) /\ (x \in E <=> b = a) /\ (x \in G <=> a < b)
      BY <2>1
    <3> QED
      BY <3>1
  <2> HIDE DEF L, E, G, A
  <2> QED
    BY <2>2, <2>3
<1>5. IsFiniteSet(A \ L)
  BY <1>1, FS_Subset, A \ L \in SUBSET A
<1> HIDE DEF A, L, G, E
<1>6. Cardinality(A) = Cardinality(L) + Cardinality(A \ L) /\ Cardinality(L) \in Nat
  BY <1>1, <1>4, CountSplits
<1>7. Cardinality(A \ L) = Cardinality(E) + Cardinality((A \ L) \ E) /\ Cardinality(E) \in Nat
  BY <1>4, <1>5, CountSplits
<1>8. 2 * Cardinality(L) + Cardinality(E) = Cardinality(A)
  BY <1>3, <1>4, <1>6, <1>7
<1> QED
  BY <1>1, <1>8 DEF L, E

\* Against the pairs within the sample, those with the other one.
OtherLess(sc, p, m) == {x \in Pairs(p, m) : sc[p + x[2]] < sc[x[1]]}
OtherTied(sc, p, m) == {x \in Pairs(p, m) : sc[p + x[2]] = sc[x[1]]}

LEMMA ShiftedPairs ==
  ASSUME NEW p \in Nat, NEW m \in Nat, NEW n \in Nat, n = p + m, NEW P \in SUBSET Pairs(p, n),
         NEW Own, Own = {x \in P : x[2] <= p},
         NEW Other, Other = {x \in Pairs(p, m) : <<x[1], p + x[2]>> \in P}
  PROVE  Cardinality(P) = Cardinality(Own) + Cardinality(Other)
<1>1. IsFiniteSet(P)
  BY PairsFinite
<1>2. Cardinality(P) = Cardinality(Own) + Cardinality(P \ Own)
  BY <1>1, CountSplits, Own \in SUBSET P
<1>3. IsFiniteSet(Other)
  BY PairsFinite, Other \in SUBSET Pairs(p, m)
<1> DEFINE f == [x \in Other |-> <<x[1], p + x[2]>>]
<1>4. Matches(f, Other, P \ Own)
  <2>1. \A x \in Other : /\ x[1] \in 1..p /\ x[2] \in 1..m /\ x = <<x[1], x[2]>>
                         /\ f[x] \in P /\ f[x][1] = x[1] /\ f[x][2] = p + x[2]
    BY DEF Pairs
  <2>2. \A x \in Other : f[x] \in P \ Own
    <3> TAKE x \in Other
    <3>1. ~ (f[x][2] <= p)
      BY <2>1
    <3> HIDE DEF f
    <3> QED
      BY <2>1, <3>1
  <2>3. ASSUME NEW x \in Other, NEW y \in Other, f[x] = f[y] PROVE x = y
    <3>1. x[1] = y[1] /\ p + x[2] = p + y[2]
      BY <2>1, <2>3
    <3>2. x[2] = y[2]
      BY <2>1, <3>1
    <3> QED
      BY <2>1, <3>1, <3>2
  <2>4. ASSUME NEW t \in P \ Own PROVE \E x \in Other : f[x] = t
    <3>1. t[1] \in 1..p /\ t[2] \in 1..n /\ t = <<t[1], t[2]>> /\ ~ (t[2] <= p)
      BY DEF Pairs
    <3> PICK k \in 1..m : k = t[2] - p
      BY <3>1
    <3>2. t[2] = p + k
      BY <3>1
    <3>3. <<t[1], k>> \in Pairs(p, m) /\ <<t[1], p + k>> = t
      BY <3>1, <3>2 DEF Pairs
    <3>4. <<t[1], k>> \in Other /\ f[<<t[1], k>>] = t
      BY <3>3
    <3> QED
      BY <3>4
  <2> HIDE DEF f
  <2>5. f \in [Other -> P \ Own]
    BY <2>2 DEF f
  <2> QED
    BY <2>3, <2>4, <2>5 DEF Matches
<1>5. Cardinality(P \ Own) = Cardinality(Other)
  <2> HIDE DEF f
  <2> QED
    BY <1>3, <1>4, MatchedCount
<1> QED
  BY <1>2, <1>5

LEMMA PairsSplit ==
  ASSUME NEW p \in Nat, NEW m \in Nat, NEW sc
  PROVE  /\ Cardinality(LessPairs(sc, p, p + m)) = Cardinality(LessPairs(sc, p, p)) + Cardinality(OtherLess(sc, p, m))
         /\ Cardinality(TiedPairs(sc, p, p + m)) = Cardinality(TiedPairs(sc, p, p)) + Cardinality(OtherTied(sc, p, m))
<1>1. \A x : x \in Pairs(p, p + m) /\ x[2] <= p <=> x \in Pairs(p, p)
  BY DEF Pairs
<1>2. \A x \in Pairs(p, m) : <<x[1], p + x[2]>> \in Pairs(p, p + m)
  BY DEF Pairs
<1>3. /\ LessPairs(sc, p, p) = {x \in LessPairs(sc, p, p + m) : x[2] <= p}
      /\ TiedPairs(sc, p, p) = {x \in TiedPairs(sc, p, p + m) : x[2] <= p}
  BY <1>1 DEF LessPairs, TiedPairs
<1>4. /\ OtherLess(sc, p, m) = {x \in Pairs(p, m) : <<x[1], p + x[2]>> \in LessPairs(sc, p, p + m)}
      /\ OtherTied(sc, p, m) = {x \in Pairs(p, m) : <<x[1], p + x[2]>> \in TiedPairs(sc, p, p + m)}
  BY <1>2 DEF OtherLess, OtherTied, LessPairs, TiedPairs
<1>5. LessPairs(sc, p, p + m) \in SUBSET Pairs(p, p + m) /\ TiedPairs(sc, p, p + m) \in SUBSET Pairs(p, p + m)
  BY DEF LessPairs, TiedPairs
<1>6. PICK n \in Nat : n = p + m
  OBVIOUS
<1> QED
  BY <1>3, <1>4, <1>5, <1>6, ShiftedPairs

LEMMA Leftover ==
  ASSUME NEW v \in Nat, NEW w \in Nat, NEW x \in Nat, NEW y \in Nat, NEW z \in Nat, NEW p \in Nat, 2 * v + w = z
  PROVE  (2 * (v + x) + (w + y) + p) - (z + p) = 2 * x + y
  OBVIOUS

\* What is left of the rank sum of the first p scores is about pairs with the others.
LEMMA RankSumSplits ==
  ASSUME NEW p \in Nat, NEW m \in Nat, NEW sc, Len(sc) = p + m, \A j \in 1..(p + m) : sc[j] \in Int
  PROVE  SumFunctionOnSet(RanksDoubled(sc), 1..p) - p * (p + 1) =
           2 * Cardinality(OtherLess(sc, p, m)) + Cardinality(OtherTied(sc, p, m))
<1>1. SumFunctionOnSet(RanksDoubled(sc), 1..p) =
        2 * Cardinality(LessPairs(sc, p, p + m)) + Cardinality(TiedPairs(sc, p, p + m)) + p
  <2>1. p + m \in Nat /\ p \in 0..(p + m)
    OBVIOUS
  <2> QED
    BY <2>1, RankSum
<1>2. 2 * Cardinality(LessPairs(sc, p, p)) + Cardinality(TiedPairs(sc, p, p)) = p * p
  <2>1. \A j \in 1..p : sc[j] \in Int
    OBVIOUS
  <2> QED
    BY <2>1, OwnPairs
<1>3. /\ Cardinality(LessPairs(sc, p, p + m)) = Cardinality(LessPairs(sc, p, p)) + Cardinality(OtherLess(sc, p, m))
      /\ Cardinality(TiedPairs(sc, p, p + m)) = Cardinality(TiedPairs(sc, p, p)) + Cardinality(OtherTied(sc, p, m))
  BY PairsSplit
<1>4. /\ Cardinality(OtherLess(sc, p, m)) \in Nat /\ Cardinality(OtherTied(sc, p, m)) \in Nat
      /\ Cardinality(LessPairs(sc, p, p)) \in Nat /\ Cardinality(TiedPairs(sc, p, p)) \in Nat
  <2>1. /\ OtherLess(sc, p, m) \in SUBSET Pairs(p, m) /\ OtherTied(sc, p, m) \in SUBSET Pairs(p, m)
        /\ LessPairs(sc, p, p) \in SUBSET Pairs(p, p) /\ TiedPairs(sc, p, p) \in SUBSET Pairs(p, p)
    BY DEF OtherLess, OtherTied, LessPairs, TiedPairs
  <2> QED
    BY <2>1, PairsFinite
<1>5. p * (p + 1) = p * p + p /\ p * p \in Nat
  OBVIOUS
<1>p. PICK v \in Nat, w \in Nat, x \in Nat, y \in Nat, z \in Nat :
        /\ v = Cardinality(LessPairs(sc, p, p)) /\ w = Cardinality(TiedPairs(sc, p, p))
        /\ x = Cardinality(OtherLess(sc, p, m)) /\ y = Cardinality(OtherTied(sc, p, m))
        /\ z = p * p
  BY <1>4, <1>5
<1>7. SumFunctionOnSet(RanksDoubled(sc), 1..p) = 2 * (v + x) + (w + y) + p
  BY <1>1, <1>3, <1>p, Zenon
<1>8. (2 * (v + x) + (w + y) + p) - (z + p) = 2 * x + y
  <2>1. 2 * v + w = z
    BY <1>2, <1>p, Zenon
  <2> QED
    BY <2>1, Leftover
<1> QED
  BY <1>5, <1>7, <1>8, <1>p, Zenon

\* The rank sum of two samples counts the pairs of one score of each.
LEMMA AucIs ==
  ASSUME NEW pos \in Seq(Int), NEW neg \in Seq(Int), NEW p \in Nat, p = Len(pos), NEW m \in Nat, m = Len(neg)
  PROVE  auc(pos, neg) = IF p = 0 \/ m = 0 THEN [num |-> 1, den |-> 2]
                         ELSE [num |-> MoreOrTied(pos, neg), den |-> 2 * p * m]
<1>s. PICK sc : sc = pos \o neg
  OBVIOUS
<1>1. /\ Len(sc) = p + m /\ \A j \in 1..(p + m) : sc[j] \in Int
      /\ \A j \in 1..p : sc[j] = pos[j]
      /\ \A j \in 1..m : sc[p + j] = neg[j]
  BY <1>s
<1>r. PICK sum : sum = SumFunctionOnSet(RanksDoubled(sc), 1..p)
  OBVIOUS
<1>2. sum - p * (p + 1) = 2 * Cardinality(OtherLess(sc, p, m)) + Cardinality(OtherTied(sc, p, m))
  BY <1>1, <1>r, RankSumSplits
<1>3. /\ OtherLess(sc, p, m) = {x \in Pairs(p, m) : pos[x[1]] > neg[x[2]]}
      /\ OtherTied(sc, p, m) = {x \in Pairs(p, m) : pos[x[1]] = neg[x[2]]}
  <2>1. \A x \in Pairs(p, m) : sc[x[1]] = pos[x[1]] /\ sc[p + x[2]] = neg[x[2]]
    BY <1>1 DEF Pairs
  <2> QED
    BY <2>1 DEF OtherLess, OtherTied
<1>4. MoreOrTied(pos, neg) = 2 * Cardinality(OtherLess(sc, p, m)) + Cardinality(OtherTied(sc, p, m))
  BY <1>3, Zenon DEF MoreOrTied, Pairs
<1>5. SumFunction([i \in 1..p |-> RanksDoubled(sc)[i]]) = sum
  <2>g. PICK g : g = [i \in 1..p |-> RanksDoubled(sc)[i]]
    OBVIOUS
  <2>1. DOMAIN g = 1..p /\ (\A i \in 1..p : g[i] = RanksDoubled(sc)[i]) /\ IsFiniteSet(1..p)
    BY <2>g, FS_Interval
  <2>2. SumFunctionOnSet(g, 1..p) = SumFunctionOnSet(RanksDoubled(sc), 1..p)
    BY <2>1, SumOfSame
  <2> QED
    BY <1>r, <2>1, <2>2, <2>g DEF SumFunction
<1>6. auc(pos, neg) = IF p = 0 \/ m = 0 THEN [num |-> 1, den |-> 2]
                      ELSE [num |-> sum - p * (p + 1), den |-> 2 * p * m]
  BY <1>5, <1>s, Zenon DEF auc
<1> QED
  BY <1>2, <1>4, <1>6, Zenon

\* calibration.py, auc: however the deviations of the outputs so far are split into
\* two samples, the rank sum with averaged ties, less its least value, is the number
\* of pairs in which the first sample deviates more, ties counting half; and it is
\* one half when a sample is empty.
THEOREM RankSumCountsPairs == SamplingSpec => []AucCountsPairs
<1>1. SamplingInv => AucCountsPairs
  <2> SUFFICES ASSUME SamplingInv, NEW n \in 0..Len(devs)
               PROVE  LET pos == SubSeq(devs, 1, n)
                          neg == SubSeq(devs, n + 1, Len(devs))
                          a   == auc(pos, neg)
                      IN  IF n \in {0, Len(devs)} THEN 2 * a.num = a.den
                          ELSE a = [num |-> MoreOrTied(pos, neg), den |-> 2 * n * Len(neg)]
    BY DEF AucCountsPairs
  <2>1. devs \in Seq(Nat)
    BY DEF SamplingInv, SamplingTypeOK
  <2>l. PICK l \in Nat : l = Len(devs)
    BY <2>1
  <2>s. PICK pos, neg : pos = SubSeq(devs, 1, n) /\ neg = SubSeq(devs, n + 1, l)
    OBVIOUS
  <2>2. pos \in Seq(Int) /\ neg \in Seq(Int) /\ Len(pos) = n /\ Len(neg) = l - n /\ n \in Nat /\ l - n \in Nat
    BY <2>1, <2>l, <2>s
  <2>m. PICK m \in Nat : m = l - n
    BY <2>2
  <2>3. auc(pos, neg) = IF n = 0 \/ m = 0 THEN [num |-> 1, den |-> 2]
                        ELSE [num |-> MoreOrTied(pos, neg), den |-> 2 * n * m]
    <3>1. Len(pos) = n /\ Len(neg) = m
      BY <2>2, <2>m
    <3> QED
      BY <2>2, <3>1, AucIs
  <2>4. n \in {0, l} <=> n = 0 \/ m = 0
    BY <2>2, <2>m
  <2>5. CASE n \in {0, l}
    <3>1. auc(pos, neg).num = 1 /\ auc(pos, neg).den = 2
      BY <2>3, <2>4, <2>5
    <3> QED
      BY <2>5, <2>l, <2>s, <3>1
  <2>6. CASE n \notin {0, l}
    <3>1. auc(pos, neg) = [num |-> MoreOrTied(pos, neg), den |-> 2 * n * Len(neg)]
      BY <2>2, <2>3, <2>4, <2>6, <2>m
    <3> QED
      BY <2>6, <2>l, <2>s, <3>1
  <2> QED
    BY <2>5, <2>6
<1> QED
  BY <1>1, SamplingInvariant, PTL
=============================================================================

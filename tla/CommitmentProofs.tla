-------------------------- MODULE CommitmentProofs --------------------------
(***************************************************************************)
(* What a committed root stands for: the Merkle tree of MerkleTree, the    *)
(* chain of epochs built on it (EpochCommitment), and the releases of      *)
(* approved workloads (ReleaseChain, WorkloadApproval).  For any hashes,   *)
(* texts, manifests, policy lists and seeds, and any number of packets,    *)
(* epochs, edits, approvals and releases.                                  *)
(***************************************************************************)
EXTENDS EpochCommitment, WorkloadApproval, SetInduction, TLAPS

-----------------------------------------------------------------------------
(* Merkle trees *)

IsSeq(s) == \E S : s \in Seq(S)

\* lev is the n levels above the leaves, ht the first of them with one node.
Tower(lev, bottom, n) ==
  /\ lev[0] = bottom
  /\ \A k \in 1..n : lev[k] = Up(lev[k-1])

\* The levels that Levels builds on the leaves s, lev[ht] the root's.
TreeOf(s, lev, ht) ==
  /\ ht \in Nat /\ Tower(lev, s, ht)
  /\ \A k \in 0..ht : IsSeq(lev[k]) /\ Len(lev[k]) \in Nat \ {0}
  /\ Len(lev[ht]) = 1 /\ \A j \in 0..(ht-1) : Len(lev[j]) > 1
  /\ Len(Levels(s)) = ht + 1
  /\ \A k \in 1..(ht + 1) : Levels(s)[k] = lev[k-1]
  /\ Root(s) = lev[ht][1]

LEMMA FunctionIsSeq ==
  ASSUME NEW m \in Nat, NEW f, f = [i \in 1..m |-> f[i]]
  PROVE  IsSeq(f) /\ Len(f) = m
<1> DEFINE S == {f[i] : i \in 1..m}
<1>1. f \in [1..m -> S]
  BY Zenon
<1> HIDE DEF S
<1>2. f \in Seq(S) /\ Len(f) = m
  BY <1>1
<1> QED
  BY <1>2 DEF IsSeq

LEMMA AppendedSeq ==
  ASSUME NEW S, NEW s \in Seq(S), NEW e, NEW t, t = Append(s, e)
  PROVE  /\ t \in Seq(S \cup {e}) /\ Len(t) = Len(s) + 1
         /\ t[Len(s) + 1] = e /\ \A i \in 1..Len(s) : t[i] = s[i]
<1>1. s \in Seq(S \cup {e})
  OBVIOUS
<1> QED
  BY <1>1, SMTT(20)

LEMMA UpLength ==
  ASSUME NEW s, Len(s) \in Nat \ {0}
  PROVE  /\ IsSeq(Up(s)) /\ Len(Up(s)) = (Len(s) + 1) \div 2
         /\ Len(Up(s)) \in Nat \ {0}
         /\ Len(s) = 1 => Len(Up(s)) = 1
         /\ Len(s) > 1 => Len(Up(s)) < Len(s)
<1>1. PICK m \in Nat \ {0} : m = Len(s)
  OBVIOUS
<1>2. PICK u \in Nat \ {0} : /\ u = (m + 1) \div 2
                             /\ m = 1 => u = 1
                             /\ m > 1 => u < m
  OBVIOUS
<1>3. Up(s) = [i \in 1..u |-> Up(s)[i]]
  BY <1>1, <1>2 DEF Up
<1>4. IsSeq(Up(s)) /\ Len(Up(s)) = u
  BY <1>3, FunctionIsSeq
<1> QED
  BY <1>1, <1>2, <1>4

\* The nodes of the level above determine those below.
LEMMA UpInjective ==
  ASSUME NEW s, NEW t, IsSeq(s), IsSeq(t), Len(s) = Len(t), Up(s) = Up(t)
  PROVE  s = t
<1>1. PICK m : m = Len(s)
  OBVIOUS
<1>2. /\ m \in Nat
      /\ s = [i \in 1..m |-> s[i]]
      /\ t = [i \in 1..m |-> t[i]]
  BY <1>1 DEF IsSeq
<1>3. ASSUME NEW i \in 1..m PROVE s[i] = t[i]
  <2>1. PICK j \in 1..((m + 1) \div 2) : i = 2*j \/ i = 2*j - 1
    <3>1. (i + 1) \div 2 \in 1..((m + 1) \div 2)
      BY <1>2
    <3>2. i = 2 * ((i + 1) \div 2) \/ i = 2 * ((i + 1) \div 2) - 1
      OBVIOUS
    <3> QED
      BY <3>1, <3>2
  <2>2. Up(s)[j] = h(s[2*j - 1], IF 2*j <= m THEN s[2*j] ELSE s[2*j - 1])
    BY <1>1 DEF Up
  <2>3. Up(t)[j] = h(t[2*j - 1], IF 2*j <= m THEN t[2*j] ELSE t[2*j - 1])
    BY <1>1 DEF Up
  <2>4. /\ s[2*j - 1] = t[2*j - 1]
        /\ (IF 2*j <= m THEN s[2*j] ELSE s[2*j - 1]) = (IF 2*j <= m THEN t[2*j] ELSE t[2*j - 1])
    BY <2>2, <2>3 DEF h
  <2> QED
    BY <2>1, <2>4
<1> QED
  BY <1>2, <1>3

\* A tower of any number of levels can be built.
BuildsOn(s, f, n) == f = [k \in 0..n |-> IF k = 0 THEN s ELSE Up(f[k-1])]

LEMMA TowerExists ==
  ASSUME NEW n \in Nat, NEW s
  PROVE  \E f : BuildsOn(s, f, n)
<1> DEFINE Unrolls(f, m) == f = [k \in 0..m |-> IF k = 0 THEN s ELSE Up(f[k-1])]
           P == {m \in 0..n : \E f : Unrolls(f, m)}
<1>1. 0 \in P
  <2> DEFINE g == [k \in 0..0 |-> s]
  <2>1. Unrolls(g, 0)
    OBVIOUS
  <2> HIDE DEF g, Unrolls
  <2> QED
    BY <2>1, 0 \in 0..n
<1>2. ASSUME NEW m \in 0..(n-1), m \in P PROVE m+1 \in P
  <2>1. PICK f : Unrolls(f, m)
    BY <1>2
  <2> DEFINE g == [k \in 0..(m+1) |-> IF k <= m THEN f[k] ELSE Up(f[m])]
  <2>2. ASSUME NEW k \in 0..(m+1)
        PROVE  g[k] = IF k = 0 THEN s ELSE Up(g[k-1])
    <3>1. CASE k = m+1
      BY <3>1
    <3>2. CASE k <= m
      <4>1. f[k] = IF k = 0 THEN s ELSE Up(f[k-1])
        BY <2>1, <3>2
      <4> QED
        BY <4>1, <3>2
    <3> QED
      BY <3>1, <3>2
  <2>3. Unrolls(g, m+1)
    BY <2>2
  <2>4. m+1 \in 0..n
    BY <1>2
  <2> HIDE DEF g, Unrolls
  <2> QED
    BY <2>3, <2>4
<1>3. n \in P
  <2> HIDE DEF P
  <2> QED
    BY <1>1, <1>2, IntervalInduction, n \in 0..n
<1>4. PICK f : Unrolls(f, n)
  BY <1>3
<1>5. BuildsOn(s, f, n)
  BY <1>4 DEF BuildsOn
<1> QED
  BY <1>5

\* Levels builds levels until one has a single node, and comes to that: each is
\* shorter than the one below it.
LEMMA LevelsDef ==
  ASSUME NEW s, IsSeq(s), s # <<>>
  PROVE  \E lev, ht : TreeOf(s, lev, ht)
<1>1. PICK n : n = Len(s)
  OBVIOUS
<1>2. n \in Nat \ {0} /\ n \in Nat
  BY <1>1 DEF IsSeq
<1> DEFINE Unrolls(f) == f = [k \in 0..n |-> IF k = 0 THEN s ELSE Up(f[k-1])]
           level == CHOOSE f : Unrolls(f)
           IsHeight(k) == Len(level[k]) = 1 /\ \A j \in 0..(k-1) : Len(level[j]) > 1
           height == CHOOSE k \in 0..n : IsHeight(k)
<1>3. Unrolls(level)
  <2>1. PICK f : BuildsOn(s, f, n)
    BY <1>2, TowerExists
  <2>2. Unrolls(f)
    BY <2>1 DEF BuildsOn
  <2> HIDE DEF Unrolls
  <2> QED
    BY <2>2
<1>4. Levels(s) = [k \in 1..(height + 1) |-> level[k-1]]
  BY <1>1 DEF Levels
<1> HIDE DEF level
<1>5. level[0] = s /\ \A k \in 1..n : level[k] = Up(level[k-1])
  BY <1>2, <1>3
<1> DEFINE Short(k) == /\ IsSeq(level[k]) /\ Len(level[k]) \in Nat \ {0}
                       /\ Len(level[k]) + k <= n \/ Len(level[k]) = 1
           P == {k \in 0..n : Short(k)}
<1>6. \A k \in 0..n : Short(k)
  <2>1. 0 \in P
    BY <1>1, <1>2, <1>5
  <2>2. ASSUME NEW k \in 0..(n-1), k \in P PROVE k+1 \in P
    <3>1. PICK m : m = Len(level[k])
      OBVIOUS
    <3>2. m \in Nat \ {0} /\ (m + k <= n \/ m = 1)
      BY <2>2, <3>1
    <3>3. k+1 \in 1..n /\ level[k+1] = Up(level[k])
      BY <1>2, <1>5
    <3>4. /\ IsSeq(level[k+1]) /\ Len(level[k+1]) \in Nat \ {0}
          /\ m = 1 => Len(level[k+1]) = 1
          /\ m > 1 => Len(level[k+1]) < m
      BY <3>1, <3>2, <3>3, UpLength
    <3>5. Len(level[k+1]) + (k+1) <= n \/ Len(level[k+1]) = 1
      <4>1. PICK l : l = Len(level[k+1])
        OBVIOUS
      <4>2. l \in Nat /\ (m = 1 => l = 1) /\ (m > 1 => l < m)
        BY <3>4, <4>1
      <4>3. l + (k+1) <= n \/ l = 1
        BY <1>2, <3>2, <4>2
      <4> QED
        BY <4>1, <4>3
    <3>6. k+1 \in 0..n
      BY <1>2
    <3> QED
      BY <3>4, <3>5, <3>6
  <2>3. \A k \in 0..n : k \in P
    <3> HIDE DEF P
    <3> QED
      BY <1>2, <2>1, <2>2, IntervalInduction
  <2> QED
    BY <2>3
<1>7. \E k \in 0..n : IsHeight(k)
  <2> DEFINE S == {k \in 0..n : Len(level[k]) = 1}
  <2>1. n \in S
    <3>1. n \in 0..n
      BY <1>2
    <3>2. Short(n)
      BY <1>6, <3>1
    <3> QED
      BY <1>2, <3>1, <3>2
  <2>2. S \subseteq Nat
    OBVIOUS
  <2>3. PICK k \in S : \A j \in S : k <= j
    <3> HIDE DEF S
    <3> QED
      BY <2>1, <2>2, LeastNatural
  <2>4. ASSUME NEW j \in 0..(k-1) PROVE Len(level[j]) > 1
    <3>1. j \in 0..n /\ j \notin S
      BY <1>2, <2>3
    <3>2. Len(level[j]) \in Nat \ {0} /\ Len(level[j]) # 1
      BY <1>6, <3>1
    <3>3. \A l \in Nat \ {0} : l # 1 => l > 1
      OBVIOUS
    <3> QED
      BY <3>2, <3>3
  <2> QED
    BY <2>3, <2>4
<1>8. PICK ht : ht = height
  OBVIOUS
<1>9. ht \in 0..n /\ IsHeight(ht)
  <2> HIDE DEF IsHeight
  <2> QED
    BY <1>7, <1>8
<1> HIDE DEF height
<1>10. ht \in Nat /\ 0..ht \subseteq 0..n /\ 1..ht \subseteq 1..n
  BY <1>2, <1>9
<1>11. Tower(level, s, ht)
  BY <1>5, <1>10 DEF Tower
<1>12. Levels(s) = [k \in 1..(ht + 1) |-> level[k-1]]
  BY <1>4, <1>8
<1>13. \A k \in 1..(ht + 1) : Levels(s)[k] = level[k-1]
  BY <1>12
<1>14. Len(Levels(s)) = ht + 1
  <2>1. ht + 1 \in Nat
    BY <1>10
  <2>2. Levels(s) = [k \in 1..(ht + 1) |-> Levels(s)[k]]
    BY <1>12
  <2> QED
    BY <2>1, <2>2, FunctionIsSeq
<1>15. Root(s) = level[ht][1]
  BY <1>10, <1>13, <1>14 DEF Root
<1> QED
  BY <1>6, <1>9, <1>10, <1>11, <1>13, <1>14, <1>15 DEF TreeOf

\* Trees of as many leaves are as high, level by level.
LEMMA SameHeights ==
  ASSUME NEW s, NEW x, NEW m, TreeOf(s, x, m), NEW t, NEW y, NEW n, TreeOf(t, y, n),
         Len(s) = Len(t), m <= n
  PROVE  m = n /\ \A k \in 0..m : Len(x[k]) = Len(y[k])
<1>0. m \in Nat /\ n \in Nat
  BY DEF TreeOf
<1> DEFINE P == {k \in 0..m : Len(x[k]) = Len(y[k])}
<1>1. 0 \in P
  BY <1>0 DEF TreeOf, Tower
<1>2. ASSUME NEW k \in 0..(m-1), k \in P PROVE k+1 \in P
  <2>1. k+1 \in 1..m /\ k+1 \in 1..n /\ k \in 0..m /\ k \in 0..n /\ k+1 \in 0..m /\ (k+1) - 1 = k
    BY <1>0
  <2>2. x[k+1] = Up(x[k]) /\ y[k+1] = Up(y[k])
    BY <2>1 DEF TreeOf, Tower
  <2>3. Len(x[k]) \in Nat \ {0} /\ Len(y[k]) \in Nat \ {0}
    BY <2>1 DEF TreeOf
  <2>4. Len(x[k+1]) = (Len(x[k]) + 1) \div 2 /\ Len(y[k+1]) = (Len(y[k]) + 1) \div 2
    BY <2>2, <2>3, UpLength
  <2>5. Len(x[k]) = Len(y[k])
    BY <1>2
  <2>6. Len(x[k+1]) = Len(y[k+1])
    BY <2>4, <2>5, Zenon
  <2> QED
    BY <2>1, <2>6
<1>3. \A k \in 0..m : k \in P
  <2> HIDE DEF P
  <2> QED
    BY <1>0, <1>1, <1>2, IntervalInduction
<1>4. \A k \in 0..m : Len(x[k]) = Len(y[k])
  BY <1>3
<1>5. Len(y[m]) = 1
  BY <1>0, <1>4, m \in 0..m DEF TreeOf
<1>6. m = n
  <2>1. ASSUME m \in 0..(n-1) PROVE FALSE
    <3>1. Len(y[m]) > 1
      BY <2>1 DEF TreeOf
    <3> QED
      BY <1>5, <3>1
  <2> QED
    BY <1>0, <2>1
<1> QED
  BY <1>4, <1>6

LEMMA SameTowers ==
  ASSUME NEW s, NEW x, NEW t, NEW y, NEW m \in Nat, Tower(x, s, m), Tower(y, t, m),
         \A k \in 0..m : IsSeq(x[k]) /\ IsSeq(y[k]) /\ Len(x[k]) = Len(y[k]),
         x[m] = y[m]
  PROVE  s = t
<1> DEFINE P == {k \in 0..m : x[m-k] = y[m-k]}
<1>1. 0 \in P
  OBVIOUS
<1>2. ASSUME NEW k \in 0..(m-1), k \in P PROVE k+1 \in P
  <2>1. PICK l \in 0..m : l = m - (k+1) /\ l + 1 = m - k
    OBVIOUS
  <2>2. l+1 \in 1..m /\ (l+1) - 1 = l
    BY <2>1
  <2>3. x[l+1] = Up(x[l]) /\ y[l+1] = Up(y[l])
    BY <2>2 DEF Tower
  <2>4. Up(x[l]) = Up(y[l])
    BY <1>2, <2>1, <2>3
  <2>5. x[l] = y[l]
    BY <2>4, UpInjective
  <2> QED
    BY <2>1, <2>5, k+1 \in 0..m
<1>3. m \in P
  <2> HIDE DEF P
  <2> QED
    BY <1>1, <1>2, IntervalInduction, m \in 0..m
<1> QED
  BY <1>3 DEF Tower

\* A root stands for its leaves, among trees of as many leaves.
LEMMA RootInjective ==
  ASSUME NEW s, NEW t, IsSeq(s), IsSeq(t), s # <<>>, t # <<>>,
         Len(s) = Len(t), Root(s) = Root(t)
  PROVE  s = t
<1>1. PICK x, m : TreeOf(s, x, m)
  BY LevelsDef
<1>2. PICK y, n : TreeOf(t, y, n)
  BY LevelsDef
<1>3. m \in Nat /\ n \in Nat
  BY <1>1, <1>2 DEF TreeOf
<1>4. m = n /\ \A k \in 0..m : Len(x[k]) = Len(y[k])
  <2>1. CASE m <= n
    BY <1>1, <1>2, <2>1, SameHeights
  <2>2. CASE n <= m
    <3>1. n = m /\ \A k \in 0..n : Len(y[k]) = Len(x[k])
      BY <1>1, <1>2, <2>2, SameHeights
    <3> QED
      BY <3>1
  <2> QED
    BY <1>3, <2>1, <2>2
<1>5. x[m] = y[m]
  <2>1. \A u, v : IsSeq(u) /\ IsSeq(v) /\ Len(u) = 1 /\ Len(v) = 1 /\ u[1] = v[1] => u = v
    BY DEF IsSeq
  <2>2. IsSeq(x[m]) /\ IsSeq(y[m]) /\ Len(x[m]) = 1 /\ Len(y[m]) = 1 /\ x[m][1] = y[m][1]
    BY <1>1, <1>2, <1>3, <1>4, m \in 0..m DEF TreeOf
  <2> QED
    BY <2>1, <2>2
<1>6. \A k \in 0..m : IsSeq(x[k]) /\ IsSeq(y[k])
  BY <1>1, <1>2, <1>4 DEF TreeOf
<1>7. Tower(x, s, m) /\ Tower(y, t, m)
  BY <1>1, <1>2, <1>4 DEF TreeOf
<1> QED
  BY <1>3, <1>4, <1>5, <1>6, <1>7, SameTowers

-----------------------------------------------------------------------------
(* Inclusion proofs *)

\* The place halves from level to level.
LEMMA PlacesDef ==
  ASSUME NEW n \in Nat, NEW place \in Nat
  PROVE  /\ Places(place, n)[0] = place
         /\ \A k \in 1..n : Places(place, n)[k] = Places(place, n)[k-1] \div 2
<1> DEFINE Unrolls(f, m) == f = [k \in 0..m |-> IF k = 0 THEN place ELSE f[k-1] \div 2]
           P == {m \in 0..n : \E f : Unrolls(f, m)}
<1>1. 0 \in P
  <2> DEFINE g == [k \in 0..0 |-> place]
  <2>1. Unrolls(g, 0)
    OBVIOUS
  <2> HIDE DEF g, Unrolls
  <2> QED
    BY <2>1, 0 \in 0..n
<1>2. ASSUME NEW m \in 0..(n-1), m \in P PROVE m+1 \in P
  <2>1. PICK f : Unrolls(f, m)
    BY <1>2
  <2>2. PICK last : last = f[m] \div 2
    OBVIOUS
  <2> DEFINE g == [k \in 0..(m+1) |-> IF k <= m THEN f[k] ELSE last]
  <2>3. ASSUME NEW k \in 0..(m+1)
        PROVE  g[k] = IF k = 0 THEN place ELSE g[k-1] \div 2
    <3>1. CASE k = m+1
      <4>1. g[k] = last /\ g[k-1] = f[m] /\ k # 0
        BY <3>1
      <4> QED
        BY <2>2, <4>1
    <3>2. CASE k <= m
      <4>1. f[k] = IF k = 0 THEN place ELSE f[k-1] \div 2
        BY <2>1, <3>2
      <4>2. g[k] = f[k] /\ (k # 0 => g[k-1] = f[k-1])
        BY <3>2
      <4> QED
        BY <4>1, <4>2
    <3> QED
      BY <3>1, <3>2
  <2>4. Unrolls(g, m+1)
    BY <2>3
  <2>5. m+1 \in 0..n
    BY <1>2
  <2> HIDE DEF g, Unrolls
  <2> QED
    BY <2>4, <2>5
<1>3. n \in P
  <2> HIDE DEF P
  <2> QED
    BY <1>1, <1>2, IntervalInduction, n \in 0..n
<1> DEFINE idx == CHOOSE u : Unrolls(u, n)
<1>4. Unrolls(idx, n)
  <2>1. PICK f : Unrolls(f, n)
    BY <1>3
  <2> HIDE DEF Unrolls
  <2> QED
    BY <2>1
<1>5. Places(place, n) = idx
  BY DEF Places
<1> HIDE DEF idx
<1>6. 0 \in 0..n /\ \A k \in 1..n : k \in 0..n /\ k # 0
  OBVIOUS
<1>7. idx[0] = place /\ \A k \in 1..n : idx[k] = idx[k-1] \div 2
  BY <1>4, <1>6
<1> QED
  BY <1>5, <1>7

\* One turn of the auditor's loop.
Joined(node, idx, sibling) == IF idx % 2 = 0 THEN h(node, sibling) ELSE h(sibling, node)

Climbed(cur, leaf, idx, siblings, n) ==
  /\ cur[0] = leaf
  /\ \A k \in 1..n : cur[k] = Joined(cur[k-1], idx[k-1], siblings[k])

LEMMA ClimbDef ==
  ASSUME NEW n \in Nat, NEW siblings, Len(siblings) = n, NEW leaf, NEW place
  PROVE  Climbed(Climb(leaf, place, siblings), leaf, Places(place, n), siblings, n)
<1>0. PICK cur : cur = Climb(leaf, place, siblings)
  OBVIOUS
<1>1. PICK idx : idx = Places(place, n)
  OBVIOUS
<1> DEFINE Unrolls(f, m) ==
             f = [k \in 0..m |-> IF k = 0 THEN leaf ELSE Joined(f[k-1], idx[k-1], siblings[k])]
           P == {m \in 0..n : \E f : Unrolls(f, m)}
<1>2. 0 \in P
  <2> DEFINE g == [k \in 0..0 |-> leaf]
  <2>1. Unrolls(g, 0)
    OBVIOUS
  <2> HIDE DEF g, Unrolls
  <2> QED
    BY <2>1, 0 \in 0..n
<1>3. ASSUME NEW m \in 0..(n-1), m \in P PROVE m+1 \in P
  <2>1. PICK f : Unrolls(f, m)
    BY <1>3
  <2> DEFINE g == [k \in 0..(m+1) |-> IF k <= m THEN f[k] ELSE Joined(f[m], idx[m], siblings[m+1])]
  <2>2. ASSUME NEW k \in 0..(m+1)
        PROVE  g[k] = IF k = 0 THEN leaf ELSE Joined(g[k-1], idx[k-1], siblings[k])
    <3>1. CASE k = m+1
      BY <3>1
    <3>2. CASE k <= m
      <4>1. f[k] = IF k = 0 THEN leaf ELSE Joined(f[k-1], idx[k-1], siblings[k])
        BY <2>1, <3>2
      <4> QED
        BY <4>1, <3>2
    <3> QED
      BY <3>1, <3>2
  <2>3. Unrolls(g, m+1)
    BY <2>2
  <2>4. m+1 \in 0..n
    BY <1>3
  <2> HIDE DEF g, Unrolls
  <2> QED
    BY <2>3, <2>4
<1>4. n \in P
  <2> HIDE DEF P
  <2> QED
    BY <1>2, <1>3, IntervalInduction, n \in 0..n
<1> DEFINE made == CHOOSE u : Unrolls(u, n)
<1>5. Unrolls(made, n)
  <2>1. PICK f : Unrolls(f, n)
    BY <1>4
  <2> HIDE DEF Unrolls
  <2> QED
    BY <2>1
<1>6. cur = made
  BY <1>0, <1>1 DEF Climb, Joined
<1> HIDE DEF made
<1>7. 0 \in 0..n /\ \A k \in 1..n : k \in 0..n /\ k # 0
  OBVIOUS
<1>8. made[0] = leaf /\ \A k \in 1..n : made[k] = Joined(made[k-1], idx[k-1], siblings[k])
  BY <1>5, <1>7
<1> QED
  BY <1>0, <1>1, <1>6, <1>8 DEF Climbed

\* Joining a node with its sibling gives the node above it.
LEMMA JoinedIsAbove ==
  ASSUME NEW s, NEW m \in Nat \ {0}, Len(s) = m, NEW i \in 0..(m-1)
  PROVE  /\ i \div 2 \in 0..((m + 1) \div 2 - 1)
         /\ Joined(s[i+1], i, Sibling(s, i)) = Up(s)[(i \div 2) + 1]
<1>1. PICK j : j = i \div 2
  OBVIOUS
<1>2. /\ j \in 0..((m + 1) \div 2 - 1)
      /\ i % 2 \in {0, 1}
      /\ i % 2 = 0 => 2 * (j+1) - 1 = i + 1 /\ 2 * (j+1) = i + 2
      /\ i % 2 = 1 => 2 * (j+1) - 1 = i /\ 2 * (j+1) = i + 1
  BY <1>1
<1>3. Up(s)[j+1] = h(s[2*(j+1) - 1], IF 2*(j+1) <= m THEN s[2*(j+1)] ELSE s[2*(j+1) - 1])
  BY <1>2 DEF Up
<1>4. CASE i % 2 = 0
  <2>1. Sibling(s, i) = IF i + 2 <= m THEN s[i+2] ELSE s[i+1]
    BY <1>4 DEF Sibling
  <2>2. Up(s)[j+1] = h(s[i+1], IF i + 2 <= m THEN s[i+2] ELSE s[i+1])
    BY <1>2, <1>3, <1>4
  <2> QED
    BY <1>1, <1>2, <1>4, <2>1, <2>2 DEF Joined
<1>5. CASE i % 2 = 1
  <2>1. Sibling(s, i) = s[i]
    BY <1>5 DEF Sibling
  <2>2. Up(s)[j+1] = h(s[i], s[i+1])
    BY <1>2, <1>3, <1>5
  <2> QED
    BY <1>1, <1>2, <1>5, <2>1, <2>2 DEF Joined
<1> QED
  BY <1>2, <1>4, <1>5

\* The siblings proof hands out lead from one leaf to the root, and from no other.
LEMMA ProofIsExact ==
  ASSUME NEW s, IsSeq(s), NEW i \in 0..(Len(s) - 1), NEW x
  PROVE  verify_inclusion(x, i, proof(s, i), Root(s)) <=> x = s[i+1]
<1>1. Len(s) \in Nat
  BY DEF IsSeq
<1>2. i \in Nat /\ s # <<>>
  BY <1>1
<1>3. PICK lev, ht : TreeOf(s, lev, ht)
  BY <1>2, LevelsDef
<1>4. ht \in Nat /\ lev[0] = s /\ \A k \in 1..ht : lev[k] = Up(lev[k-1])
  BY <1>3 DEF TreeOf, Tower
<1>5. PICK sib : sib = proof(s, i)
  OBVIOUS
<1>6. PICK all : all = Places(i, ht + 1)
  OBVIOUS
<1>7. PICK idx : idx = Places(i, ht)
  OBVIOUS
<1>8. idx[0] = i /\ \A k \in 1..ht : idx[k] = idx[k-1] \div 2
  BY <1>2, <1>4, <1>7, PlacesDef
<1>9. all[0] = i /\ \A k \in 1..(ht + 1) : all[k] = all[k-1] \div 2
  BY <1>2, <1>4, <1>6, PlacesDef, ht + 1 \in Nat
<1>10. sib = [k \in 1..ht |-> Sibling(lev[k-1], all[k-1])]
  <2>1. Len(Levels(s)) = ht + 1 /\ \A k \in 1..(ht + 1) : Levels(s)[k] = lev[k-1]
    BY <1>3 DEF TreeOf
  <2>2. sib = [k \in 1..((ht + 1) - 1) |-> Sibling(Levels(s)[k], all[k-1])]
    BY <1>5, <1>6, <2>1 DEF proof
  <2>3. (ht + 1) - 1 = ht /\ \A k \in 1..ht : k \in 1..(ht + 1)
    BY <1>4
  <2> QED
    BY <2>1, <2>2, <2>3
<1>11. Len(sib) = ht
  BY <1>4, <1>10
<1> DEFINE In(k) == idx[k] \in 0..(Len(lev[k]) - 1) /\ all[k] = idx[k]
           P == {k \in 0..ht : In(k)}
<1>12. \A k \in 0..ht : In(k)
  <2>1. 0 \in P
    BY <1>4, <1>8, <1>9
  <2>2. ASSUME NEW k \in 0..(ht-1), k \in P PROVE k+1 \in P
    <3>1. k+1 \in 1..ht /\ k+1 \in 1..(ht + 1) /\ k \in 0..ht /\ k+1 \in 0..ht /\ (k+1) - 1 = k
      BY <1>4
    <3>2. PICK m : m = Len(lev[k])
      OBVIOUS
    <3>3. m \in Nat \ {0}
      BY <1>3, <3>1, <3>2 DEF TreeOf
    <3>4. idx[k] \in 0..(m-1) /\ all[k] = idx[k]
      BY <2>2, <3>2
    <3>5. idx[k+1] = idx[k] \div 2 /\ all[k+1] = all[k] \div 2
      BY <1>8, <1>9, <3>1
    <3>6. Len(lev[k+1]) = (m + 1) \div 2
      BY <1>4, <3>1, <3>2, <3>3, UpLength
    <3>7. idx[k] \div 2 \in 0..((m + 1) \div 2 - 1)
      BY <3>2, <3>3, <3>4, JoinedIsAbove
    <3> QED
      BY <3>1, <3>4, <3>5, <3>6, <3>7
  <2>3. \A k \in 0..ht : k \in P
    <3> HIDE DEF P
    <3> QED
      BY <1>4, <2>1, <2>2, IntervalInduction
  <2> QED
    BY <2>3
<1> HIDE DEF In, P
<1>13. PICK cur : cur = Climb(s[i+1], i, sib)
  OBVIOUS
<1>14. cur[0] = s[i+1] /\ \A k \in 1..ht : cur[k] = Joined(cur[k-1], idx[k-1], sib[k])
  <2>1. Climbed(Climb(s[i+1], i, sib), s[i+1], Places(i, ht), sib, ht)
    BY <1>4, <1>11, ClimbDef
  <2> QED
    BY <1>7, <1>13, <2>1 DEF Climbed
<1>15. PICK oth : oth = Climb(x, i, sib)
  OBVIOUS
<1>16. oth[0] = x /\ \A k \in 1..ht : oth[k] = Joined(oth[k-1], idx[k-1], sib[k])
  <2>1. Climbed(Climb(x, i, sib), x, Places(i, ht), sib, ht)
    BY <1>4, <1>11, ClimbDef
  <2> QED
    BY <1>7, <1>15, <2>1 DEF Climbed
<1> DEFINE Q == {k \in 0..ht : cur[k] = lev[k][idx[k] + 1] /\ (oth[k] = cur[k] <=> x = s[i+1])}
<1>17. 0 \in Q
  BY <1>4, <1>8, <1>14, <1>16
<1>18. ASSUME NEW k \in 0..(ht-1), k \in Q PROVE k+1 \in Q
  <2>1. k+1 \in 1..ht /\ k \in 0..ht /\ k+1 \in 0..ht /\ (k+1) - 1 = k
    BY <1>4
  <2>2. PICK m : m = Len(lev[k])
    OBVIOUS
  <2>3. m \in Nat \ {0}
    BY <1>3, <2>1, <2>2 DEF TreeOf
  <2>4. idx[k] \in 0..(m-1) /\ all[k] = idx[k]
    BY <1>12, <2>1, <2>2 DEF In
  <2>5. sib[k+1] = Sibling(lev[k], idx[k])
    BY <1>10, <2>1, <2>4
  <2>6. cur[k+1] = Joined(cur[k], idx[k], sib[k+1]) /\ oth[k+1] = Joined(oth[k], idx[k], sib[k+1])
    BY <1>14, <1>16, <2>1
  <2>7. cur[k+1] = lev[k+1][idx[k+1] + 1]
    <3>1. Joined(lev[k][idx[k] + 1], idx[k], Sibling(lev[k], idx[k])) = Up(lev[k])[(idx[k] \div 2) + 1]
      BY <2>2, <2>3, <2>4, JoinedIsAbove
    <3>2. idx[k+1] = idx[k] \div 2 /\ lev[k+1] = Up(lev[k])
      BY <1>4, <1>8, <2>1
    <3>3. cur[k] = lev[k][idx[k] + 1]
      BY <1>18
    <3> QED
      BY <2>5, <2>6, <3>1, <3>2, <3>3
  <2>8. cur[k+1] = oth[k+1] <=> cur[k] = oth[k]
    BY <2>6 DEF Joined, h
  <2>9. oth[k+1] = cur[k+1] <=> x = s[i+1]
    BY <1>18, <2>8
  <2> QED
    BY <2>1, <2>7, <2>9
<1>19. ht \in Q
  <2> HIDE DEF Q
  <2> QED
    BY <1>4, <1>17, <1>18, IntervalInduction, ht \in 0..ht
<1>20. cur[ht] = Root(s)
  <2>1. Len(lev[ht]) = 1 /\ Root(s) = lev[ht][1]
    BY <1>3 DEF TreeOf
  <2>2. idx[ht] \in 0..(1 - 1)
    BY <1>4, <1>12, <2>1, ht \in 0..ht DEF In
  <2>3. idx[ht] + 1 = 1
    BY <2>2
  <2> QED
    BY <1>19, <2>1, <2>3
<1>21. verify_inclusion(x, i, sib, Root(s)) <=> oth[ht] = Root(s)
  BY <1>11, <1>15 DEF verify_inclusion
<1> QED
  BY <1>5, <1>19, <1>20, <1>21

-----------------------------------------------------------------------------
(* The chain of epochs *)

\* c is the chain of heads over n roots.
Chain(c, root, n) ==
  /\ c[0] = Zero
  /\ \A k \in 1..n : c[k] = h(c[k-1], root[k])

StoredRoots == [i \in 1..Len(entries) |-> entries[i].root]
TrueRoots == [i \in 1..Len(epochs) |-> Root(epochs[i])]

\* The head is the end of the chain over the epochs that were closed; nobody but
\* commit moves it.  Until the first edit, what is stored is that chain.
EpochInv ==
  /\ \E S : entries \in Seq(S)
  /\ leaves \in Seq(Hashes) /\ epochs \in Seq(Seq(Hashes))
  /\ touched \in Nat
  /\ \E c : /\ Chain(c, TrueRoots, Len(epochs))
            /\ head = c[Len(epochs)]
            /\ touched = 0 => /\ Len(entries) = Len(epochs)
                              /\ \A i \in 1..Len(entries) :
                                   entries[i].root = TrueRoots[i] /\ entries[i].after = c[i]

-----------------------------------------------------------------------------
(* Chains *)

LEMMA HashIsNotZero ==
  ASSUME NEW a, NEW b
  PROVE  h(a, b) # Zero
<1>1. Len(<<a, b>>) = 2 /\ Len(<<>>) = 0
  OBVIOUS
<1> QED
  BY <1>1 DEF h, Zero

\* Two chains that end in one head are over the same roots.
LEMMA ChainsAgree ==
  ASSUME NEW c, NEW r, NEW m \in Nat, Chain(c, r, m),
         NEW d, NEW s, NEW n \in Nat, Chain(d, s, n),
         c[m] = d[n]
  PROVE  m = n /\ \A i \in 1..m : r[i] = s[i]
<1> DEFINE Agree(k, j) == k = j /\ \A i \in 1..k : r[i] = s[i]
           P == {k \in 0..m : \A j \in 0..n : c[k] = d[j] => Agree(k, j)}
<1>1. \A j \in 1..n : d[j] # Zero
  BY HashIsNotZero DEF Chain
<1>2. 0 \in P
  <2>1. ASSUME NEW j \in 0..n, c[0] = d[j] PROVE Agree(0, j)
    BY <1>1, <2>1 DEF Chain
  <2> QED
    BY <2>1
<1>3. ASSUME NEW k \in 0..(m-1), k \in P PROVE k+1 \in P
  <2>1. k+1 \in 1..m /\ c[k+1] = h(c[k], r[k+1])
    BY <1>3 DEF Chain
  <2>2. ASSUME NEW j \in 0..n, c[k+1] = d[j] PROVE Agree(k+1, j)
    <3>1. j # 0
      BY <2>1, <2>2, HashIsNotZero DEF Chain
    <3>2. j \in 1..n /\ j-1 \in 0..n /\ d[j] = h(d[j-1], s[j])
      BY <3>1 DEF Chain
    <3>3. c[k] = d[j-1] /\ r[k+1] = s[j]
      <4>1. h(c[k], r[k+1]) = h(d[j-1], s[j])
        BY <2>1, <2>2, <3>2
      <4> QED
        BY <4>1 DEF h
    <3>4. Agree(k, j-1)
      BY <1>3, <3>2, <3>3
    <3> QED
      BY <2>1, <3>2, <3>3, <3>4
  <2> QED
    BY <2>1, <2>2
<1>4. m \in P
  <2> HIDE DEF P
  <2> QED
    BY <1>2, <1>3, IntervalInduction, m \in 0..m
<1> QED
  BY <1>4, n \in 0..n

\* verify's loop computes the chain over the stored roots.
LEMMA VerifyDef ==
  ASSUME Len(entries) \in Nat
  PROVE  \E c : /\ Chain(c, StoredRoots, Len(entries))
                /\ verify <=> /\ \A i \in 1..Len(entries) : c[i] = entries[i].after
                              /\ c[Len(entries)] = head
<1>1. PICK n : n = Len(entries)
  OBVIOUS
<1> DEFINE Unrolls(f, m) == f = [i \in 0..m |-> IF i = 0 THEN Zero ELSE h(f[i-1], entries[i].root)]
           P == {m \in 0..n : \E f : Unrolls(f, m)}
<1>2. 0 \in P
  <2> DEFINE g == [i \in 0..0 |-> Zero]
  <2>1. Unrolls(g, 0)
    OBVIOUS
  <2> HIDE DEF g, Unrolls
  <2> QED
    BY <1>1, <2>1, 0 \in 0..n
<1>3. ASSUME NEW m \in 0..(n-1), m \in P PROVE m+1 \in P
  <2>1. PICK f : Unrolls(f, m)
    BY <1>3
  <2> DEFINE g == [i \in 0..(m+1) |-> IF i <= m THEN f[i] ELSE h(f[m], entries[m+1].root)]
  <2>2. ASSUME NEW i \in 0..(m+1)
        PROVE  g[i] = IF i = 0 THEN Zero ELSE h(g[i-1], entries[i].root)
    <3>1. CASE i = m+1
      BY <3>1
    <3>2. CASE i <= m
      <4>1. f[i] = IF i = 0 THEN Zero ELSE h(f[i-1], entries[i].root)
        BY <2>1, <3>2
      <4> QED
        BY <4>1, <3>2
    <3> QED
      BY <3>1, <3>2
  <2>3. Unrolls(g, m+1)
    BY <2>2
  <2>4. m+1 \in 0..n
    BY <1>1, <1>3
  <2> HIDE DEF g, Unrolls
  <2> QED
    BY <2>3, <2>4
<1>4. n \in P
  <2> HIDE DEF P
  <2> QED
    BY <1>1, <1>2, <1>3, IntervalInduction, n \in 0..n
<1>5. PICK f : Unrolls(f, n)
  BY <1>4
<1> DEFINE running == CHOOSE u : Unrolls(u, n)
<1>6. Unrolls(running, n)
  <2> HIDE DEF Unrolls
  <2> QED
    BY <1>5
<1>7. verify <=> /\ \A i \in 1..Len(entries) : running[i] = entries[i].after
                 /\ running[Len(entries)] = head
  BY <1>1 DEF verify
<1> HIDE DEF running
<1>8. Chain(running, StoredRoots, n)
  <2>1. n \in Nat /\ \A i \in 1..n : i \in 0..n /\ i # 0
    BY <1>1
  <2>2. running[0] = Zero
    BY <1>6, <2>1
  <2>3. ASSUME NEW i \in 1..n PROVE running[i] = h(running[i-1], entries[i].root)
    BY <1>6, <2>1
  <2>4. \A i \in 1..n : StoredRoots[i] = entries[i].root
    BY <1>1 DEF StoredRoots
  <2> QED
    BY <2>2, <2>3, <2>4 DEF Chain
<1> QED
  BY <1>1, <1>7, <1>8

\* A chain is determined by its roots.
LEMMA ChainUnique ==
  ASSUME NEW n \in Nat, NEW c, NEW r, Chain(c, r, n),
         NEW d, NEW s, Chain(d, s, n), \A i \in 1..n : r[i] = s[i]
  PROVE  \A k \in 0..n : c[k] = d[k]
<1> DEFINE P == {k \in 0..n : c[k] = d[k]}
<1>1. 0 \in P
  BY DEF Chain
<1>2. ASSUME NEW k \in 0..(n-1), k \in P PROVE k+1 \in P
  <2>1. k+1 \in 1..n /\ c[k+1] = h(c[k], r[k+1]) /\ d[k+1] = h(d[k], s[k+1])
    BY <1>2 DEF Chain
  <2> QED
    BY <1>2, <2>1
<1>3. \A k \in 0..n : k \in P
  <2> HIDE DEF P
  <2> QED
    BY <1>1, <1>2, IntervalInduction
<1> QED
  BY <1>3

-----------------------------------------------------------------------------
(* The invariant *)

LEMMA EpochStart == EpochInit => EpochInv
<1> SUFFICES ASSUME EpochInit PROVE EpochInv
  OBVIOUS
<1>1. entries = <<>> /\ epochs = <<>> /\ leaves = <<>> /\ head = Zero /\ touched = 0
  BY DEF EpochInit
<1>2. entries \in Seq({}) /\ leaves \in Seq(Hashes) /\ epochs \in Seq(Seq(Hashes))
      /\ Len(epochs) = 0 /\ Len(entries) = 0
  BY <1>1
<1> DEFINE c == [k \in 0..0 |-> Zero]
<1>3. c[0] = Zero
  OBVIOUS
<1> HIDE DEF c
<1>4. Chain(c, TrueRoots, Len(epochs)) /\ head = c[Len(epochs)]
  BY <1>1, <1>2, <1>3 DEF Chain
<1>5. touched \in Nat
  BY <1>1
<1>6. \A i \in 1..Len(entries) : FALSE
  BY <1>2
<1> QED
  BY <1>2, <1>4, <1>5, <1>6 DEF EpochInv

LEMMA HashPacketStep ==
  ASSUME EpochInv, NEW x \in Hashes, HashPacket(x)
  PROVE  EpochInv'
<1>1. leaves' \in Seq(Hashes)
  BY DEF EpochInv, HashPacket
<1>2. TrueRoots' = TrueRoots
  BY DEF HashPacket, TrueRoots
<1> QED
  BY <1>1, <1>2 DEF EpochInv, HashPacket

LEMMA CloseEpochStep ==
  ASSUME EpochInv, CloseEpoch
  PROVE  EpochInv'
<1>1. PICK root : root = Root(leaves)
  OBVIOUS
<1>2. PICK n : n = Len(epochs)
  OBVIOUS
<1>3. PICK e : e = [number |-> n, root |-> root, after |-> h(head, root)]
  OBVIOUS
<1>4. /\ head' = h(head, root) /\ entries' = Append(entries, e)
      /\ epochs' = Append(epochs, leaves) /\ leaves' = <<>> /\ touched' = touched
  BY <1>1, <1>2, <1>3 DEF CloseEpoch, commit
<1>5. PICK S : entries \in Seq(S)
  BY DEF EpochInv
<1>6. PICK m : m = Len(entries)
  OBVIOUS
<1>7. m \in Nat /\ n \in Nat
  BY <1>2, <1>5, <1>6 DEF EpochInv
<1>8. /\ entries' \in Seq(S \cup {e}) /\ Len(entries') = m + 1 /\ entries'[m + 1] = e
      /\ \A i \in 1..m : entries'[i] = entries[i]
  BY <1>4, <1>5, <1>6, <1>7
<1>9. /\ epochs' \in Seq(Seq(Hashes)) /\ Len(epochs') = n + 1 /\ epochs'[n + 1] = leaves
      /\ \A i \in 1..n : epochs'[i] = epochs[i]
  BY <1>2, <1>4, <1>7 DEF EpochInv
<1>10. PICK c : /\ Chain(c, TrueRoots, n) /\ head = c[n]
                /\ touched = 0 => /\ m = n
                                  /\ \A i \in 1..m :
                                       entries[i].root = TrueRoots[i] /\ entries[i].after = c[i]
  BY <1>2, <1>6 DEF EpochInv
<1>11. PICK d : d = [k \in 0..(n+1) |-> IF k <= n THEN c[k] ELSE h(head, root)]
  OBVIOUS
<1>12. (\A k \in 0..n : d[k] = c[k]) /\ d[n+1] = h(head, root)
  <2>1. (\A k \in 0..n : k \in 0..(n+1) /\ k <= n) /\ n+1 \in 0..(n+1) /\ ~ (n+1 <= n)
    BY <1>7
  <2> QED
    BY <1>11, <2>1
<1>13. /\ \A i \in 1..n : TrueRoots'[i] = TrueRoots[i]
       /\ TrueRoots'[n+1] = root
  <2>1. TrueRoots' = [i \in 1..(n+1) |-> Root(epochs'[i])]
    BY <1>9 DEF TrueRoots
  <2>2. TrueRoots = [i \in 1..n |-> Root(epochs[i])]
    BY <1>2 DEF TrueRoots
  <2> QED
    BY <1>1, <1>7, <1>9, <2>1, <2>2
<1>14. Chain(d, TrueRoots', n+1)
  <2>1. d[0] = Zero
    BY <1>7, <1>10, <1>12 DEF Chain
  <2>2. ASSUME NEW k \in 1..(n+1) PROVE d[k] = h(d[k-1], TrueRoots'[k])
    <3>1. CASE k = n+1
      <4>1. d[k-1] = head
        BY <1>7, <1>10, <1>12, <3>1
      <4> QED
        BY <1>12, <1>13, <3>1, <4>1
    <3>2. CASE k # n+1
      <4>1. k \in 1..n /\ k \in 0..n /\ k-1 \in 0..n
        BY <1>7, <3>2
      <4>2. c[k] = h(c[k-1], TrueRoots[k])
        BY <1>10, <4>1 DEF Chain
      <4> QED
        BY <1>12, <1>13, <4>1, <4>2
    <3> QED
      BY <3>1, <3>2
  <2> QED
    BY <2>1, <2>2 DEF Chain
<1>15. ASSUME touched' = 0
       PROVE  /\ m + 1 = n + 1
              /\ \A i \in 1..(m+1) :
                   entries'[i].root = TrueRoots'[i] /\ entries'[i].after = d[i]
  <2>1. m = n /\ \A i \in 1..m : entries[i].root = TrueRoots[i] /\ entries[i].after = c[i]
    BY <1>4, <1>10, <1>15
  <2>2. ASSUME NEW i \in 1..(m+1)
        PROVE  entries'[i].root = TrueRoots'[i] /\ entries'[i].after = d[i]
    <3>1. CASE i = m+1
      BY <1>3, <1>8, <1>12, <1>13, <2>1, <3>1
    <3>2. CASE i # m+1
      <4>1. i \in 1..m /\ i \in 1..n /\ i \in 0..n
        BY <1>7, <2>1, <3>2
      <4> QED
        BY <1>8, <1>12, <1>13, <2>1, <4>1
    <3> QED
      BY <3>1, <3>2
  <2> QED
    BY <2>1, <2>2
<1>16. leaves' \in Seq(Hashes) /\ touched' \in Nat /\ head' = d[n+1]
  BY <1>4, <1>12 DEF EpochInv
<1> QED
  BY <1>8, <1>9, <1>14, <1>15, <1>16 DEF EpochInv

LEMMA TouchStep ==
  ASSUME EpochInv, Touch
  PROVE  EpochInv'
<1>1. PICK S : entries \in Seq(S)
  BY DEF EpochInv
<1>2. /\ leaves' = leaves /\ head' = head /\ epochs' = epochs
      /\ touched' \in Nat /\ touched' # 0
  BY DEF EpochInv, Touch
<1>3. \E T : entries' \in Seq(T)
  <2>1. ASSUME NEW i \in 1..Len(entries), NEW e, entries' = [entries EXCEPT ![i] = e]
        PROVE  entries' \in Seq(S \cup {e})
    BY <1>1, <2>1
  <2>2. PICK i \in 1..Len(entries) :
          \/ \E r : entries' = [entries EXCEPT ![i].root = r]
          \/ \E n : entries' = [entries EXCEPT ![i].number = n]
          \/ \E a : entries' = [entries EXCEPT ![i].after = a]
          \/ entries' = SubSeq(entries, 1, Len(entries) - 1)
    BY DEF Touch
  <2>3. CASE \E r : entries' = [entries EXCEPT ![i].root = r]
    <3>1. PICK r : entries' = [entries EXCEPT ![i].root = r]
      BY <2>3
    <3>2. PICK e : e = [entries[i] EXCEPT !.root = r]
      OBVIOUS
    <3>3. entries' = [entries EXCEPT ![i] = e]
      BY <3>1, <3>2
    <3> QED
      BY <2>1, <3>3
  <2>4. CASE \E n : entries' = [entries EXCEPT ![i].number = n]
    <3>1. PICK n : entries' = [entries EXCEPT ![i].number = n]
      BY <2>4
    <3>2. PICK e : e = [entries[i] EXCEPT !.number = n]
      OBVIOUS
    <3>3. entries' = [entries EXCEPT ![i] = e]
      BY <3>1, <3>2
    <3> QED
      BY <2>1, <3>3
  <2>5. CASE \E a : entries' = [entries EXCEPT ![i].after = a]
    <3>1. PICK a : entries' = [entries EXCEPT ![i].after = a]
      BY <2>5
    <3>2. PICK e : e = [entries[i] EXCEPT !.after = a]
      OBVIOUS
    <3>3. entries' = [entries EXCEPT ![i] = e]
      BY <3>1, <3>2
    <3> QED
      BY <2>1, <3>3
  <2>6. CASE entries' = SubSeq(entries, 1, Len(entries) - 1)
    BY <1>1, <2>6, SMTT(20)
  <2> QED
    BY <2>2, <2>3, <2>4, <2>5, <2>6
<1>4. TrueRoots' = TrueRoots
  BY <1>2 DEF TrueRoots
<1> QED
  BY <1>2, <1>3, <1>4 DEF EpochInv

\* The invariant of every run, however the stored entries are edited.
THEOREM EpochInvariant == EpochSpec => []EpochInv
<1>1. EpochInv /\ [EpochNext]_epochVars => EpochInv'
  <2> SUFFICES ASSUME EpochInv, [EpochNext]_epochVars PROVE EpochInv'
    OBVIOUS
  <2>1. CASE UNCHANGED epochVars
    <3>1. TrueRoots' = TrueRoots
      BY <2>1 DEF epochVars, TrueRoots
    <3> QED
      BY <2>1, <3>1 DEF epochVars, EpochInv
  <2>2. CASE \E x \in Hashes : HashPacket(x)
    BY <2>2, HashPacketStep
  <2>3. CASE CloseEpoch
    BY <2>3, CloseEpochStep
  <2>4. CASE Touch
    BY <2>4, TouchStep
  <2> QED
    BY <2>1, <2>2, <2>3, <2>4 DEF EpochNext
<1> QED
  BY <1>1, EpochStart, PTL DEF EpochSpec

\* verify accepts only the chain that was committed, entry for entry up to the
\* epoch numbers, and accepts that one.
THEOREM ChainIsHistory == EpochSpec => []VerifiedChainIsHistory
<1>1. EpochInv => VerifiedChainIsHistory
  <2> SUFFICES ASSUME EpochInv PROVE VerifiedChainIsHistory
    OBVIOUS
  <2>1. PICK m : m = Len(entries)
    OBVIOUS
  <2>2. PICK n : n = Len(epochs)
    OBVIOUS
  <2>3. m \in Nat /\ n \in Nat
    BY <2>1, <2>2 DEF EpochInv
  <2>4. PICK c : /\ Chain(c, TrueRoots, n) /\ head = c[n]
                 /\ touched = 0 => /\ m = n
                                   /\ \A i \in 1..m :
                                        entries[i].root = TrueRoots[i] /\ entries[i].after = c[i]
    BY <2>1, <2>2 DEF EpochInv
  <2>5. PICK d : /\ Chain(d, StoredRoots, m)
                 /\ verify <=> /\ \A i \in 1..m : d[i] = entries[i].after
                               /\ d[m] = head
    BY <2>1, <2>3, VerifyDef
  <2>6. ASSUME verify PROVE StoredRoots = TrueRoots
    <3>1. m = n /\ \A i \in 1..m : StoredRoots[i] = TrueRoots[i]
      BY <2>3, <2>4, <2>5, <2>6, ChainsAgree
    <3>2. StoredRoots = [i \in 1..m |-> StoredRoots[i]]
      BY <2>1 DEF StoredRoots
    <3>3. TrueRoots = [i \in 1..n |-> TrueRoots[i]]
      BY <2>2 DEF TrueRoots
    <3> QED
      BY <3>1, <3>2, <3>3
  <2>7. ASSUME touched = 0 PROVE verify
    <3>1. m = n /\ \A i \in 1..m : StoredRoots[i] = TrueRoots[i]
      BY <2>1, <2>4, <2>7 DEF StoredRoots
    <3>2. \A k \in 0..m : d[k] = c[k]
      BY <2>3, <2>4, <2>5, <3>1, ChainUnique
    <3>3. \A i \in 1..m : i \in 0..m
      OBVIOUS
    <3> QED
      BY <2>3, <2>4, <2>5, <2>7, <3>1, <3>2, <3>3
  <2> QED
    BY <2>6, <2>7 DEF VerifiedChainIsHistory, StoredRoots, TrueRoots
<1> QED
  BY <1>1, EpochInvariant, PTL

\* The siblings an epoch's tree hands out for a packet prove the payload hash that
\* was committed at its place and none that was not, in epochs of any size.
THEOREM InclusionExact == EpochSpec => []InclusionIsExact
<1>1. EpochInv => InclusionIsExact
  <2> SUFFICES ASSUME EpochInv, NEW e \in 1..Len(epochs), NEW i \in 0..(Len(epochs[e]) - 1),
                      NEW x \in Hashes
               PROVE  verify_inclusion(x, i, proof(epochs[e], i), Root(epochs[e])) <=> x = epochs[e][i+1]
    BY Zenon DEF InclusionIsExact
  <2>1. IsSeq(epochs[e])
    BY DEF EpochInv, IsSeq
  <2> QED
    BY <2>1, ProofIsExact
<1> QED
  BY <1>1, EpochInvariant, PTL

-----------------------------------------------------------------------------
(* Approvals and releases *)

\* Entry i of the first n is the approval of c with this seed that is in force.
InForce(i, n, c, seed) ==
  /\ i \in 1..n
  /\ approvals[i] = [event |-> "approve", cert |-> c, seed |-> seed]
  /\ \A j \in (i+1)..n : approvals[j].cert # c

\* Entries have the form approve and revoke give them.
Entry(p) == /\ p = [event |-> p.event, cert |-> p.cert, seed |-> p.seed]
            /\ p.event \in {"approve", "revoke"}

\* Every release keeps the approval it was made under; both logs only grow.
ReleaseInv ==
  /\ \E S : approvals \in Seq(S)
  /\ \A i \in 1..Len(approvals) : Entry(approvals[i])
  /\ \E S : releases \in Seq(S)
  /\ \E S : licence \in Seq(S)
  /\ Len(licence) = Len(releases)
  /\ \A r \in 1..Len(releases) :
       /\ licence[r].at \in 0..Len(approvals)
       /\ \E i \in 1..licence[r].at :
            InForce(i, licence[r].at, releases[r].cert, licence[r].seed)

-----------------------------------------------------------------------------
(* check *)

\* What check's loop leaves in latest after each turn.
LEMMA CheckDef ==
  ASSUME Len(approvals) \in Nat, NEW c, NEW seed
  PROVE  \E latest :
           /\ latest[0] = NeverApproved
           /\ \A k \in 1..Len(approvals) : latest[k] = scan(c, latest[k-1], approvals[k])
           /\ check(c, seed) <=> /\ latest[Len(approvals)].status = "approved"
                                 /\ seed = latest[Len(approvals)].seed
<1>1. PICK n : n = Len(approvals)
  OBVIOUS
<1> DEFINE Unrolls(f, m) ==
             f = [k \in 0..m |-> IF k = 0 THEN NeverApproved ELSE scan(c, f[k-1], approvals[k])]
           P == {m \in 0..n : \E f : Unrolls(f, m)}
<1>2. 0 \in P
  <2> DEFINE g == [k \in 0..0 |-> NeverApproved]
  <2>1. Unrolls(g, 0)
    OBVIOUS
  <2> HIDE DEF g, Unrolls
  <2> QED
    BY <1>1, <2>1, 0 \in 0..n
<1>3. ASSUME NEW m \in 0..(n-1), m \in P PROVE m+1 \in P
  <2>1. PICK f : Unrolls(f, m)
    BY <1>3
  <2> DEFINE g == [k \in 0..(m+1) |-> IF k <= m THEN f[k] ELSE scan(c, f[m], approvals[m+1])]
  <2>2. ASSUME NEW k \in 0..(m+1)
        PROVE  g[k] = IF k = 0 THEN NeverApproved ELSE scan(c, g[k-1], approvals[k])
    <3>1. CASE k = m+1
      BY <3>1
    <3>2. CASE k <= m
      <4>1. f[k] = IF k = 0 THEN NeverApproved ELSE scan(c, f[k-1], approvals[k])
        BY <2>1, <3>2
      <4> QED
        BY <4>1, <3>2
    <3> QED
      BY <3>1, <3>2
  <2>3. Unrolls(g, m+1)
    BY <2>2
  <2>4. m+1 \in 0..n
    BY <1>1, <1>3
  <2> HIDE DEF g, Unrolls
  <2> QED
    BY <2>3, <2>4
<1>4. n \in P
  <2> HIDE DEF P
  <2> QED
    BY <1>1, <1>2, <1>3, IntervalInduction, n \in 0..n
<1>5. PICK f : Unrolls(f, n)
  BY <1>4
<1> DEFINE latest == CHOOSE u : Unrolls(u, n)
<1>6. Unrolls(latest, n)
  <2> HIDE DEF Unrolls
  <2> QED
    BY <1>5
<1>7. check(c, seed) <=> /\ latest[Len(approvals)].status = "approved"
                         /\ seed = latest[Len(approvals)].seed
  BY <1>1 DEF check
<1> HIDE DEF latest
<1>8. latest[0] = NeverApproved
      /\ \A k \in 1..n : latest[k] = scan(c, latest[k-1], approvals[k])
  BY <1>1, <1>6
<1> QED
  BY <1>1, <1>7, <1>8

\* A claim that checks rests on an approval that is in force.
LEMMA CheckedIsInForce ==
  ASSUME Len(approvals) \in Nat, \A i \in 1..Len(approvals) : Entry(approvals[i]),
         NEW c, NEW seed, check(c, seed)
  PROVE  \E i \in 1..Len(approvals) : InForce(i, Len(approvals), c, seed)
<1>1. PICK n : n = Len(approvals)
  OBVIOUS
<1>2. PICK latest :
        /\ latest[0] = NeverApproved
        /\ \A k \in 1..n : latest[k] = scan(c, latest[k-1], approvals[k])
        /\ latest[n].status = "approved" /\ seed = latest[n].seed
  BY <1>1, CheckDef
<1> DEFINE Good(k) == latest[k].status = "approved"
                        => \E i \in 1..k : InForce(i, k, c, latest[k].seed)
           Form(k) == latest[k] = [status |-> latest[k].status, seed |-> latest[k].seed]
           P == {k \in 0..n : Good(k) /\ Form(k)}
<1>3. 0 \in P
  <2>1. Good(0) /\ Form(0)
    BY <1>2 DEF NeverApproved
  <2> QED
    BY <1>1, <2>1
<1>4. ASSUME NEW k \in 0..(n-1), k \in P PROVE k+1 \in P
  <2>1. PICK p : p = approvals[k+1]
    OBVIOUS
  <2>2. k \in Nat /\ k+1 \in 1..n /\ latest[k+1] = scan(c, latest[k], p) /\ Entry(p)
    BY <1>1, <1>2, <1>4, <2>1
  <2>3. Good(k) /\ Form(k)
    BY <1>4
  <2>4. CASE p.cert # c
    <3>1. latest[k+1] = latest[k]
      BY <2>2, <2>4 DEF scan
    <3>2. ASSUME NEW i \in 1..k, InForce(i, k, c, latest[k].seed)
          PROVE  InForce(i, k+1, c, latest[k].seed)
      BY <2>1, <2>2, <2>4, <3>2 DEF InForce
    <3>3. \A i \in 1..k : i \in 1..(k+1)
      BY <2>2
    <3> QED
      BY <2>2, <2>3, <3>1, <3>2, <3>3
  <2>5. CASE p.cert = c /\ p.event = "approve"
    <3>1. latest[k+1] = [status |-> "approved", seed |-> p.seed]
      BY <2>2, <2>5 DEF scan
    <3>2. InForce(k+1, k+1, c, latest[k+1].seed)
      BY <2>1, <2>2, <2>5, <3>1 DEF InForce, Entry
    <3> QED
      BY <2>2, <3>1, <3>2, k+1 \in 1..(k+1)
  <2>6. CASE p.cert = c /\ p.event = "revoke"
    <3>1. latest[k+1] = [latest[k] EXCEPT !.status = "revoked"]
      BY <2>2, <2>6 DEF scan
    <3>2. latest[k+1] = [status |-> "revoked", seed |-> latest[k].seed]
      BY <2>3, <3>1
    <3> QED
      BY <2>2, <3>2
  <2> QED
    BY <2>2, <2>4, <2>5, <2>6 DEF Entry
<1>5. n \in P
  <2> HIDE DEF P
  <2> QED
    BY <1>1, <1>3, <1>4, IntervalInduction, n \in 0..n
<1> QED
  BY <1>1, <1>2, <1>5

-----------------------------------------------------------------------------
(* The invariant *)

LEMMA ReleaseInit == Init => ReleaseInv
<1> SUFFICES ASSUME Init PROVE ReleaseInv
  OBVIOUS
<1>1. approvals = <<>> /\ releases = <<>> /\ licence = <<>>
  BY DEF Init
<1>2. /\ approvals \in Seq({}) /\ releases \in Seq({}) /\ licence \in Seq({})
      /\ Len(approvals) = 0 /\ Len(releases) = 0 /\ Len(licence) = 0
  BY <1>1
<1>3. (\A i \in 1..Len(approvals) : FALSE) /\ (\A r \in 1..Len(releases) : FALSE)
  BY <1>2
<1> QED
  BY <1>2, <1>3 DEF ReleaseInv

\* A further entry of the approval log leaves what earlier releases rested on.
LEMMA ApprovalStep ==
  ASSUME ReleaseInv, NEW e, Entry(e),
         approvals' = Append(approvals, e), releases' = releases, licence' = licence
  PROVE  ReleaseInv'
<1>1. PICK S : approvals \in Seq(S)
  BY DEF ReleaseInv
<1>2. PICK n : n = Len(approvals)
  OBVIOUS
<1>3. /\ n \in Nat
      /\ approvals' \in Seq(S \cup {e}) /\ Len(approvals') = n + 1 /\ approvals'[n + 1] = e
      /\ \A i \in 1..n : approvals'[i] = approvals[i]
  BY <1>1, <1>2
<1>4. ASSUME NEW i \in 1..Len(approvals') PROVE Entry(approvals'[i])
  <2>1. CASE i = n + 1
    BY <1>3, <2>1
  <2>2. CASE i # n + 1
    <3>1. i \in 1..n
      BY <1>3, <2>2
    <3> QED
      BY <1>2, <1>3, <3>1 DEF ReleaseInv
  <2> QED
    BY <2>1, <2>2
<1>5. ASSUME NEW r \in 1..Len(releases)
      PROVE  /\ licence[r].at \in 0..Len(approvals')
             /\ \E i \in 1..licence[r].at :
                  InForce(i, licence[r].at, releases[r].cert, licence[r].seed)'
  <2>1. PICK at : at = licence[r].at
    OBVIOUS
  <2>2. at \in 0..n
    BY <1>2, <2>1 DEF ReleaseInv
  <2>3. PICK i \in 1..at : InForce(i, at, releases[r].cert, licence[r].seed)
    BY <2>1 DEF ReleaseInv
  <2>4. i \in 1..n /\ \A j \in (i+1)..at : j \in 1..n
    BY <1>3, <2>2
  <2>5. InForce(i, at, releases[r].cert, licence[r].seed)'
    <3>1. approvals'[i] = approvals[i]
      BY <1>3, <2>4
    <3>2. \A j \in (i+1)..at : approvals'[j] = approvals[j]
      BY <1>3, <2>4
    <3> QED
      BY <2>3, <3>1, <3>2, Zenon DEF InForce
  <2>6. licence[r].at \in 0..Len(approvals')
    BY <1>3, <2>1, <2>2
  <2> QED
    BY <2>1, <2>5, <2>6
<1> QED
  BY <1>3, <1>4, <1>5 DEF ReleaseInv

LEMMA ReleaseStep ==
  ASSUME ReleaseInv, NEW c, NEW seed, NEW shards, release(c, seed, shards)
  PROVE  ReleaseInv'
<1>1. PICK p : p = [cert |-> c, root |-> Root(shards)]
  OBVIOUS
<1>2. PICK l : l = [seed |-> seed, at |-> Len(approvals)]
  OBVIOUS
<1>3. /\ check(c, seed) /\ approvals' = approvals
      /\ releases' = Append(releases, p) /\ licence' = Append(licence, l)
  BY <1>1, <1>2 DEF release
<1>4. PICK S : releases \in Seq(S)
  BY DEF ReleaseInv
<1>5. PICK T : licence \in Seq(T)
  BY DEF ReleaseInv
<1>6. PICK n : n = Len(releases)
  OBVIOUS
<1>7. n \in Nat /\ Len(licence) = n /\ Len(approvals) \in Nat
  BY <1>4, <1>6 DEF ReleaseInv
<1>8. /\ releases' \in Seq(S \cup {p}) /\ Len(releases') = n + 1 /\ releases'[n + 1] = p
      /\ \A r \in 1..n : releases'[r] = releases[r]
  BY <1>3, <1>4, <1>6, <1>7
<1>9. /\ licence' \in Seq(T \cup {l}) /\ Len(licence') = n + 1 /\ licence'[n + 1] = l
      /\ \A r \in 1..n : licence'[r] = licence[r]
  BY <1>3, <1>5, <1>7
<1>10. ASSUME NEW r \in 1..(n + 1)
       PROVE  /\ licence'[r].at \in 0..Len(approvals)
              /\ \E i \in 1..licence'[r].at :
                   InForce(i, licence'[r].at, releases'[r].cert, licence'[r].seed)
  <2>1. CASE r = n + 1
    <3>1. licence'[r].at = Len(approvals) /\ licence'[r].seed = seed /\ releases'[r].cert = c
      BY <1>1, <1>2, <1>8, <1>9, <2>1
    <3>2. \E i \in 1..Len(approvals) : InForce(i, Len(approvals), c, seed)
      BY <1>3, <1>7, CheckedIsInForce DEF ReleaseInv
    <3> QED
      BY <1>7, <3>1, <3>2
  <2>2. CASE r # n + 1
    <3>1. r \in 1..n
      BY <1>7, <2>2
    <3>2. licence'[r] = licence[r] /\ releases'[r] = releases[r]
      BY <1>8, <1>9, <3>1
    <3> QED
      BY <1>6, <3>1, <3>2 DEF ReleaseInv
  <2> QED
    BY <2>1, <2>2
<1>11. \A i, m, d, s : InForce(i, m, d, s)' <=> InForce(i, m, d, s)
  BY <1>3 DEF InForce
<1>12. \A i \in 1..Len(approvals') : Entry(approvals'[i])
  BY <1>3 DEF ReleaseInv
<1>13. \E U : approvals' \in Seq(U)
  BY <1>3 DEF ReleaseInv
<1> QED
  BY <1>3, <1>8, <1>9, <1>10, <1>11, <1>12, <1>13 DEF ReleaseInv

\* The cluster's steps touch neither log.
LEMMA LogsSame ==
  ASSUME ReleaseInv, approvals' = approvals, releases' = releases, licence' = licence
  PROVE  ReleaseInv'
<1>1. \A i, m, d, s : InForce(i, m, d, s)' <=> InForce(i, m, d, s)
  BY DEF InForce
<1> QED
  BY <1>1 DEF ReleaseInv

\* The invariant of both logs.
THEOREM ReleaseInvariant == Spec => []ReleaseInv
<1>1. ReleaseInv /\ [Next]_vars => ReleaseInv'
  <2> SUFFICES ASSUME ReleaseInv, [Next]_vars PROVE ReleaseInv'
    OBVIOUS
  <2>1. CASE UNCHANGED vars
    BY <2>1, LogsSame DEF vars
  <2>2. ASSUME NEW c \in Certs, approve(c) PROVE ReleaseInv'
    <3>1. PICK seed : approvals' = Append(approvals, [event |-> "approve", cert |-> c, seed |-> seed])
      BY <2>2 DEF approve
    <3>2. Entry([event |-> "approve", cert |-> c, seed |-> seed])
      BY DEF Entry
    <3> QED
      BY <2>2, <3>1, <3>2, ApprovalStep DEF approve
  <2>3. ASSUME NEW c \in Certs, revoke(c) PROVE ReleaseInv'
    <3>1. Entry([event |-> "revoke", cert |-> c, seed |-> "none"])
      BY DEF Entry
    <3> QED
      BY <2>3, <3>1, ApprovalStep DEF revoke
  <2>4. ASSUME NEW c \in Certs, NEW seed \in Seeds, NEW shards \in Manifests,
               release(c, seed, shards)
        PROVE  ReleaseInv'
    BY <2>4, ReleaseStep
  <2>5. ASSUME NEW c \in Certs, Fetch(c) PROVE ReleaseInv'
    BY <2>5, LogsSame DEF Fetch
  <2>6. ASSUME NEW c \in Certs, NEW arrived \in Deliveries, receive_and_check(c, arrived)
        PROVE  ReleaseInv'
    BY <2>6, LogsSame DEF receive_and_check
  <2> QED
    BY <2>1, <2>2, <2>3, <2>4, <2>5, <2>6 DEF Next
<1> QED
  BY <1>1, ReleaseInit, PTL DEF Spec

\* release goes through only under an approval that is in force, and it stays
\* on record that it did, whatever is approved or revoked later.
THEOREM OnlyLicensed == Spec => []ReleaseIsLicensed
<1>1. ReleaseInv => ReleaseIsLicensed
  BY DEF ReleaseInv, ReleaseIsLicensed, InForce
<1> QED
  BY <1>1, ReleaseInvariant, PTL

-----------------------------------------------------------------------------
(* Deployment *)

\* The lookup finds a release of the certificate it is asked for, or none.
LEMMA LatestIsReleased ==
  ASSUME Len(releases) \in Nat, NEW c, latest_release_for(c) # NoRecord
  PROVE  \E r \in 1..Len(releases) : releases[r] = latest_release_for(c) /\ releases[r].cert = c
<1>1. PICK n \in Nat : n = Len(releases)
  OBVIOUS
<1> DEFINE Unrolls(f, m) ==
             f = [k \in 0..m |-> IF k = 0 THEN NoRecord
                                 ELSE IF releases[k].cert = c THEN releases[k] ELSE f[k-1]]
           P == {m \in 0..n : \E f : Unrolls(f, m)}
<1>2. 0 \in P
  <2> DEFINE g == [k \in 0..0 |-> NoRecord]
  <2>1. Unrolls(g, 0)
    OBVIOUS
  <2> HIDE DEF g, Unrolls
  <2> QED
    BY <2>1, 0 \in 0..n
<1>3. ASSUME NEW m \in 0..(n-1), m \in P PROVE m+1 \in P
  <2>1. PICK f : Unrolls(f, m)
    BY <1>3
  <2>2. PICK last : last = IF releases[m+1].cert = c THEN releases[m+1] ELSE f[m]
    OBVIOUS
  <2> DEFINE g == [k \in 0..(m+1) |-> IF k <= m THEN f[k] ELSE last]
  <2>3. ASSUME NEW k \in 0..(m+1)
        PROVE  g[k] = IF k = 0 THEN NoRecord
                      ELSE IF releases[k].cert = c THEN releases[k] ELSE g[k-1]
    <3>1. CASE k = m+1
      <4>1. g[k] = last /\ g[k-1] = f[m] /\ k # 0
        BY <3>1
      <4> QED
        BY <2>2, <3>1, <4>1
    <3>2. CASE k <= m
      <4>1. f[k] = IF k = 0 THEN NoRecord
                   ELSE IF releases[k].cert = c THEN releases[k] ELSE f[k-1]
        BY <2>1, <3>2
      <4>2. g[k] = f[k] /\ (k # 0 => g[k-1] = f[k-1])
        BY <3>2
      <4> QED
        BY <4>1, <4>2
    <3> QED
      BY <3>1, <3>2
  <2>4. Unrolls(g, m+1)
    BY <2>3
  <2>5. m+1 \in 0..n
    BY <1>3
  <2> HIDE DEF g, Unrolls
  <2> QED
    BY <2>4, <2>5
<1>4. n \in P
  <2> HIDE DEF P
  <2> QED
    BY <1>2, <1>3, IntervalInduction, n \in 0..n
<1> DEFINE latest == CHOOSE u : Unrolls(u, n)
<1>5. Unrolls(latest, n)
  <2>1. PICK f : Unrolls(f, n)
    BY <1>4
  <2> HIDE DEF Unrolls
  <2> QED
    BY <2>1
<1>6. latest_release_for(c) = latest[n]
  BY <1>1 DEF latest_release_for
<1> HIDE DEF latest
<1> DEFINE Found(k) == latest[k] # NoRecord =>
                         \E r \in 1..n : releases[r] = latest[k] /\ releases[r].cert = c
           Q == {k \in 0..n : Found(k)}
<1>7. 0 \in Q
  <2>1. latest[0] = NoRecord
    BY <1>5
  <2> QED
    BY <2>1
<1>8. ASSUME NEW k \in 0..(n-1), k \in Q PROVE k+1 \in Q
  <2>1. k+1 \in 1..n /\ k+1 \in 0..n /\ (k+1) - 1 = k /\ k+1 # 0
    OBVIOUS
  <2>2. latest[k+1] = IF releases[k+1].cert = c THEN releases[k+1] ELSE latest[k]
    BY <1>5, <2>1
  <2> QED
    BY <1>8, <2>1, <2>2
<1>9. n \in Q
  <2> HIDE DEF Q
  <2> QED
    BY <1>7, <1>8, IntervalInduction, n \in 0..n
<1> QED
  BY <1>1, <1>6, <1>9

\* The release r stands on record for certificate c, with root rt.
ReleasedAs(log, r, c, rt) == r \in 1..Len(log) /\ log[r].cert = c /\ log[r].root = rt

\* What the cluster holds and what it deployed came from the release log.
DeployInv ==
  /\ \E S : releases \in Seq(S)
  /\ \E S : manifests \in Seq(S)
  /\ Len(manifests) = Len(releases)
  /\ \A r \in 1..Len(releases) : manifests[r] \in Manifests /\ releases[r].root = Root(manifests[r])
  /\ DOMAIN record = Certs
  /\ \A c \in Certs : record[c] # NoRecord => \E r : ReleasedAs(releases, r, c, record[c].root)
  /\ deployed # Nothing => /\ deployed.shards \in Deliveries
                           /\ \E r : ReleasedAs(releases, r, deployed.cert, Root(deployed.shards))

LEMMA DeployInit == Init => DeployInv
<1> SUFFICES ASSUME Init PROVE DeployInv
  OBVIOUS
<1>1. /\ releases = <<>> /\ manifests = <<>> /\ deployed = Nothing
      /\ record = [c \in Certs |-> NoRecord]
  BY DEF Init
<1>2. releases \in Seq({}) /\ manifests \in Seq({}) /\ Len(releases) = 0 /\ Len(manifests) = 0
  BY <1>1
<1>3. \A r \in 1..Len(releases) : FALSE
  BY <1>2
<1>4. DOMAIN record = Certs /\ \A c \in Certs : record[c] = NoRecord
  BY <1>1
<1> QED
  BY <1>1, <1>2, <1>3, <1>4 DEF DeployInv

LEMMA DeploySame ==
  ASSUME DeployInv, releases' = releases, manifests' = manifests, record' = record,
         deployed' = deployed
  PROVE  DeployInv'
BY DEF DeployInv, ReleasedAs

LEMMA DeployRelease ==
  ASSUME DeployInv, NEW c, NEW seed, NEW shards \in Manifests, release(c, seed, shards)
  PROVE  DeployInv'
<1>1. PICK p : p = [cert |-> c, root |-> Root(shards)]
  OBVIOUS
<1>2. /\ releases' = Append(releases, p) /\ manifests' = Append(manifests, shards)
      /\ record' = record /\ deployed' = deployed
  BY <1>1 DEF release
<1>3. PICK S : releases \in Seq(S)
  BY DEF DeployInv
<1>4. PICK T : manifests \in Seq(T)
  BY DEF DeployInv
<1>5. PICK n \in Nat : n = Len(releases) /\ n = Len(manifests)
  BY <1>3 DEF DeployInv
<1>6. /\ releases' \in Seq(S \cup {p}) /\ Len(releases') = n + 1 /\ releases'[n + 1] = p
      /\ \A r \in 1..n : releases'[r] = releases[r]
  <2>1. releases' = Append(releases, p)
    BY <1>2
  <2>2. /\ releases' \in Seq(S \cup {p}) /\ Len(releases') = Len(releases) + 1
        /\ releases'[Len(releases) + 1] = p
        /\ \A r \in 1..Len(releases) : releases'[r] = releases[r]
    BY <1>3, <2>1, AppendedSeq
  <2> QED
    BY <1>5, <2>2
<1>7. /\ manifests' \in Seq(T \cup {shards}) /\ Len(manifests') = n + 1 /\ manifests'[n + 1] = shards
      /\ \A r \in 1..n : manifests'[r] = manifests[r]
  <2>1. manifests' = Append(manifests, shards)
    BY <1>2
  <2>2. /\ manifests' \in Seq(T \cup {shards}) /\ Len(manifests') = Len(manifests) + 1
        /\ manifests'[Len(manifests) + 1] = shards
        /\ \A r \in 1..Len(manifests) : manifests'[r] = manifests[r]
    BY <1>4, <2>1, AppendedSeq
  <2> QED
    BY <1>5, <2>2
<1>8. ASSUME NEW r \in 1..(n + 1)
      PROVE  manifests'[r] \in Manifests /\ releases'[r].root = Root(manifests'[r])
  <2>1. CASE r = n + 1
    <3>1. p.root = Root(shards)
      BY <1>1
    <3> QED
      BY <1>6, <1>7, <2>1, <3>1
  <2>2. CASE r # n + 1
    <3>1. r \in 1..n
      BY <2>2
    <3> QED
      BY <1>5, <1>6, <1>7, <3>1 DEF DeployInv
  <2> QED
    BY <2>1, <2>2
<1>9. ASSUME NEW r, NEW d, NEW rt, ReleasedAs(releases, r, d, rt) PROVE ReleasedAs(releases', r, d, rt)
  <2>1. r \in 1..n /\ r \in 1..(n + 1)
    BY <1>5, <1>9 DEF ReleasedAs
  <2> QED
    BY <1>6, <1>9, <2>1 DEF ReleasedAs
<1>10. \A d \in Certs : record'[d] # NoRecord => \E r : ReleasedAs(releases', r, d, record'[d].root)
  <2> SUFFICES ASSUME NEW d \in Certs, record[d] # NoRecord
               PROVE  \E r : ReleasedAs(releases', r, d, record'[d].root)
    BY <1>2
  <2>1. PICK r : ReleasedAs(releases, r, d, record[d].root)
    BY DEF DeployInv
  <2>2. PICK rt : rt = record[d].root
    OBVIOUS
  <2>3. ReleasedAs(releases', r, d, rt)
    BY <1>9, <2>1, <2>2
  <2> QED
    BY <1>2, <2>2, <2>3 DEF ReleasedAs
<1>11. deployed # Nothing => \E r : ReleasedAs(releases', r, deployed'.cert, Root(deployed'.shards))
  <2> SUFFICES ASSUME deployed # Nothing
               PROVE  \E r : ReleasedAs(releases', r, deployed'.cert, Root(deployed'.shards))
    OBVIOUS
  <2>1. PICK d, rt : d = deployed.cert /\ rt = Root(deployed.shards)
    OBVIOUS
  <2>2. PICK r : ReleasedAs(releases, r, d, rt)
    BY <2>1 DEF DeployInv
  <2>3. ReleasedAs(releases', r, d, rt)
    BY <1>9, <2>2
  <2> QED
    BY <1>2, <2>1, <2>3 DEF ReleasedAs
<1>12. DOMAIN record' = Certs /\ (deployed # Nothing => deployed.shards \in Deliveries)
  BY <1>2 DEF DeployInv
<1> QED
  BY <1>2, <1>6, <1>7, <1>8, <1>10, <1>11, <1>12 DEF DeployInv

LEMMA DeployFetch ==
  ASSUME DeployInv, NEW c \in Certs, Fetch(c)
  PROVE  DeployInv'
<1>1. PICK new : new = latest_release_for(c)
  OBVIOUS
<1>2. /\ record' = [record EXCEPT ![c] = new]
      /\ releases' = releases /\ manifests' = manifests /\ deployed' = deployed
  BY <1>1 DEF Fetch
<1>3. Len(releases) \in Nat
  <2>1. PICK S : releases \in Seq(S)
    BY DEF DeployInv
  <2> QED
    BY <2>1
<1>4. DOMAIN record' = Certs /\ record'[c] = new /\ \A d \in Certs : d # c => record'[d] = record[d]
  BY <1>2 DEF DeployInv
<1>5. ASSUME NEW d \in Certs, record'[d] # NoRecord
      PROVE  \E r : ReleasedAs(releases, r, d, record'[d].root)
  <2>1. CASE d = c
    <3>1. PICK r \in 1..Len(releases) : releases[r] = new /\ releases[r].cert = c
      BY <1>1, <1>3, <1>4, <1>5, <2>1, LatestIsReleased
    <3>2. ReleasedAs(releases, r, d, record'[d].root)
      BY <1>4, <2>1, <3>1 DEF ReleasedAs
    <3> QED
      BY <3>2
  <2>2. CASE d # c
    BY <1>4, <1>5, <2>2 DEF DeployInv
  <2> QED
    BY <2>1, <2>2
<1>6. \A d \in Certs : record'[d] # NoRecord => \E r : ReleasedAs(releases', r, d, record'[d].root)
  BY <1>2, <1>5 DEF ReleasedAs
<1>7. deployed # Nothing => \E r : ReleasedAs(releases', r, deployed'.cert, Root(deployed'.shards))
  BY <1>2 DEF DeployInv, ReleasedAs
<1> QED
  BY <1>2, <1>4, <1>6, <1>7 DEF DeployInv

LEMMA DeployReceive ==
  ASSUME DeployInv, NEW c \in Certs, NEW arrived \in Deliveries, receive_and_check(c, arrived)
  PROVE  DeployInv'
<1>1. /\ record[c] # NoRecord /\ Root(arrived) = record[c].root
      /\ deployed' = [cert |-> c, shards |-> arrived]
      /\ releases' = releases /\ manifests' = manifests /\ record' = record
  BY DEF receive_and_check
<1>2. PICK r : ReleasedAs(releases, r, c, Root(arrived))
  BY <1>1 DEF DeployInv
<1>3. deployed'.cert = c /\ deployed'.shards = arrived
  BY <1>1
<1>4. \E q : ReleasedAs(releases', q, deployed'.cert, Root(deployed'.shards))
  BY <1>1, <1>2, <1>3 DEF ReleasedAs
<1>5. \A d \in Certs : record'[d] # NoRecord => \E q : ReleasedAs(releases', q, d, record'[d].root)
  BY <1>1 DEF DeployInv, ReleasedAs
<1> QED
  BY <1>1, <1>3, <1>4, <1>5 DEF DeployInv

LEMMA DeployStep ==
  ASSUME DeployInv,
         \/ UNCHANGED vars
         \/ \E c \in Certs : \/ \E seed \in Seeds, shards \in Manifests : release(c, seed, shards)
                             \/ Fetch(c)
                             \/ \E arrived \in Deliveries : receive_and_check(c, arrived)
         \/ \E c : approve(c) \/ revoke(c)
  PROVE  DeployInv'
<1>1. CASE UNCHANGED vars
  BY <1>1, DeploySame DEF vars
<1>2. ASSUME NEW c \in Certs, NEW seed \in Seeds, NEW shards \in Manifests, release(c, seed, shards)
      PROVE  DeployInv'
  BY <1>2, DeployRelease
<1>3. ASSUME NEW c \in Certs, Fetch(c) PROVE DeployInv'
  BY <1>3, DeployFetch
<1>4. ASSUME NEW c \in Certs, NEW arrived \in Deliveries, receive_and_check(c, arrived)
      PROVE  DeployInv'
  BY <1>4, DeployReceive
<1>5. ASSUME NEW c, approve(c) \/ revoke(c) PROVE DeployInv'
  BY <1>5, DeploySame DEF approve, revoke
<1> QED
  BY <1>1, <1>2, <1>3, <1>4, <1>5

LEMMA ReleasedIsDeployed ==
  ASSUME DeployInv
  PROVE  DeployedWasReleased
<1> SUFFICES ASSUME deployed # Nothing
             PROVE  /\ Released(deployed.cert) # {}
                    /\ (\A m \in Released(deployed.cert) : Len(m) = Len(deployed.shards))
                         => deployed.shards \in Released(deployed.cert)
  BY DEF DeployedWasReleased
<1>1. PICK r : ReleasedAs(releases, r, deployed.cert, Root(deployed.shards))
  BY DEF DeployInv
<1>2. PICK m : m = manifests[r]
  OBVIOUS
<1>3. m \in Released(deployed.cert)
  BY <1>1, <1>2 DEF Released, ReleasedAs
<1>4. ASSUME Len(m) = Len(deployed.shards) PROVE m = deployed.shards
  <2>1. Root(m) = Root(deployed.shards)
    BY <1>1, <1>2 DEF DeployInv, ReleasedAs
  <2>2. m \in Manifests /\ deployed.shards \in Deliveries
    BY <1>1, <1>2 DEF DeployInv, ReleasedAs
  <2>3. IsSeq(m) /\ IsSeq(deployed.shards) /\ m # <<>> /\ deployed.shards # <<>>
    BY <2>2, ReleaseAssumption, Zenon DEF IsSeq
  <2> QED
    BY <1>4, <2>1, <2>3, RootInjective
<1> QED
  BY <1>3, <1>4

\* What receive_and_check lets through is what was released for the certificate, if
\* as many shards arrived as were released for it.
THEOREM OnlyReleased == Spec => []DeployedWasReleased
<1>1. DeployInv /\ [Next]_vars => DeployInv'
  BY DeployStep DEF Next
<1> QED
  BY <1>1, DeployInit, ReleasedIsDeployed, PTL DEF Spec

-----------------------------------------------------------------------------
(* What a text allows *)

\* The parser's choice of a last line is well defined.
LEMMA LastRead ==
  ASSUME NEW n \in Nat, NEW R, R \subseteq 1..n, R # {}
  PROVE  \E i \in R : \A j \in R : j <= i
<1> DEFINE P == {k \in 0..n : R \cap (1..k) = {} \/ \E i \in R : \A j \in R \cap (1..k) : j <= i}
<1>1. 0 \in P
  OBVIOUS
<1>2. ASSUME NEW k \in 0..(n-1), k \in P PROVE k + 1 \in P
  <2>1. k + 1 \in 0..n
    BY <1>2
  <2>2. CASE k + 1 \in R
    <3>1. \A j \in R \cap (1..(k + 1)) : j <= k + 1
      OBVIOUS
    <3> QED
      BY <2>1, <2>2, <3>1
  <2>3. CASE k + 1 \notin R
    <3>1. R \cap (1..(k + 1)) = R \cap (1..k)
      BY <2>3
    <3> QED
      BY <1>2, <2>1, <3>1
  <2> QED
    BY <2>2, <2>3
<1>3. n \in P
  <2> HIDE DEF P
  <2> QED
    BY <1>1, <1>2, IntervalInduction, n \in 0..n
<1> QED
  BY <1>3

\* The lines read for a key; i is the last of them.
Reads(text, k) == {i \in DOMAIN text : text[i].plain /\ text[i].key = k}
LastOf(text, k, i) == i \in Reads(text, k) /\ \A j \in Reads(text, k) : j <= i

\* A lookup finds the value of the last line read for the key.
LEMMA ParsedRead ==
  ASSUME NEW text \in Texts, NEW k, NEW default
  PROVE  LET found == get(parse_dsl(text), k, default)
         IN  \/ Reads(text, k) = {} /\ found = default
             \/ \E i : LastOf(text, k, i) /\ found = text[i].value
<1>1. PICK n \in Nat : n = Len(text) /\ DOMAIN text = 1..n
  <2>1. PICK Lines : Lines = [key : STRING, value : Seq(STRING), plain : BOOLEAN]
    OBVIOUS
  <2>2. text \in Seq(Lines)
    BY <2>1, TextAssumption, Zenon
  <2> QED
    BY <2>2
<1> DEFINE kept == {i \in DOMAIN text : text[i].plain}
           R == {i \in kept : text[i].key = k}
           isLast(i) == i \in R /\ \A j \in R : j <= i
<1>2. PICK f : f = parse_dsl(text)
  OBVIOUS
<1>3. k \in DOMAIN f <=> R # {}
  BY <1>2 DEF parse_dsl
<1>4. R = Reads(text, k)
  BY DEF Reads
<1>5. CASE R = {}
  <2>1. get(f, k, default) = default
    BY <1>3, <1>5 DEF get
  <2> QED
    BY <1>2, <1>4, <1>5, <2>1
<1>6. CASE R # {}
  <2>1. R \subseteq 1..n
    BY <1>1
  <2>2. PICK i : isLast(i)
    BY <1>6, <2>1, LastRead
  <2>3. PICK d : d = CHOOSE j \in kept : /\ text[j].key = k
                                         /\ \A l \in kept : text[l].key = k => l <= j
    OBVIOUS
  <2>4. isLast(d)
    BY <2>2, <2>3
  <2>5. f[k] = text[d].value
    BY <1>2, <1>3, <1>6, <2>3 DEF parse_dsl
  <2>6. get(f, k, default) = text[d].value
    BY <1>3, <1>6, <2>5 DEF get
  <2>7. LastOf(text, k, d)
    BY <1>4, <2>4 DEF LastOf
  <2> QED
    BY <1>2, <2>6, <2>7
<1> QED
  BY <1>5, <1>6

LEMMA LastUnique ==
  ASSUME NEW text \in Texts, NEW k, NEW i, NEW j, LastOf(text, k, i), LastOf(text, k, j)
  PROVE  i = j
<1>1. PICK n \in Nat : DOMAIN text = 1..n
  <2>1. PICK Lines : Lines = [key : STRING, value : Seq(STRING), plain : BOOLEAN]
    OBVIOUS
  <2>2. text \in Seq(Lines)
    BY <2>1, TextAssumption, Zenon
  <2> QED
    BY <2>2
<1>2. i \in 1..n /\ j \in 1..n /\ i <= j /\ j <= i
  BY <1>1 DEF LastOf, Reads
<1> QED
  BY <1>2

\* What the policy is checked on is what the text allows.
LEMMA ParsedIsAllowed ==
  ASSUME NEW text \in Texts, NEW op, op # Blank
  PROVE  op \in parse_op_list(parse_dsl(text), "allowed_ops") <=> Allows(text, op)
<1>1. PICK found : found = get(parse_dsl(text), "allowed_ops", <<Blank>>)
  OBVIOUS
<1>2. PICK R : R = Reads(text, "allowed_ops")
  OBVIOUS
<1>3. op \in parse_op_list(parse_dsl(text), "allowed_ops") <=> op \in ToSet(found)
  BY <1>1 DEF parse_op_list
<1>4. PICK n \in Nat : n = Len(text) /\ DOMAIN text = 1..n
  <2>1. PICK Lines : Lines = [key : STRING, value : Seq(STRING), plain : BOOLEAN]
    OBVIOUS
  <2>2. text \in Seq(Lines)
    BY <2>1, TextAssumption, Zenon
  <2> QED
    BY <2>2
<1>5. R \subseteq 1..n /\ \A j \in 1..n : j \in R <=> (text[j].plain /\ text[j].key = "allowed_ops")
  BY <1>2, <1>4 DEF Reads
<1>6. Allows(text, op) <=> \E i \in R : op \in ToSet(text[i].value) /\ \A j \in (i+1)..n : j \notin R
  <2>1. \A i \in R : \A j \in (i+1)..n : j \in 1..n
    BY <1>5
  <2> QED
    BY <1>4, <1>5, <2>1 DEF Allows
<1>7. \A i \in R : (\A j \in (i+1)..n : j \notin R) <=> LastOf(text, "allowed_ops", i)
  <2> TAKE i \in R
  <2>1. ASSUME \A j \in (i+1)..n : j \notin R, NEW j \in R PROVE j <= i
    BY <1>5, <2>1
  <2>2. ASSUME \A j \in R : j <= i, NEW j \in (i+1)..n PROVE j \notin R
    BY <1>5, <2>2
  <2> QED
    BY <1>2, <2>1, <2>2 DEF LastOf
<1>8. CASE R = {} /\ found = <<Blank>>
  <2>1. ToSet(<<Blank>>) = {Blank}
    <3>1. \A q : ToSet(<<q>>) = {q}
      BY DEF ToSet
    <3> QED
      BY <3>1
  <2> QED
    BY <1>3, <1>6, <1>8, <2>1
<1>9. ASSUME NEW d, LastOf(text, "allowed_ops", d), found = text[d].value
      PROVE  op \in ToSet(found) <=> Allows(text, op)
  <2>1. d \in R
    BY <1>2, <1>9 DEF LastOf
  <2>2. \A i \in R : LastOf(text, "allowed_ops", i) => i = d
    BY <1>9, LastUnique
  <2> QED
    BY <1>6, <1>7, <1>9, <2>1, <2>2
<1>10. \/ R = {} /\ found = <<Blank>>
       \/ \E d : LastOf(text, "allowed_ops", d) /\ found = text[d].value
  BY <1>1, <1>2, ParsedRead, ZenonT(40)
<1> QED
  BY <1>3, <1>8, <1>9, <1>10

\* The policy check does what it says.
LEMMA PolicyIsChecked ==
  ASSUME NEW t \in Texts, check_against_policy(parse_dsl(t))
  PROVE  SatisfiesPolicy(t)
<1>1. PICK ops : ops = parse_op_list(parse_dsl(t), "allowed_ops")
  OBVIOUS
<1>2. ops \cap Blacklist = {} /\ Goldlist \subseteq ops
  BY <1>1 DEF check_against_policy
<1>3. Blank \notin ops
  BY <1>1 DEF parse_op_list
<1>4. ASSUME NEW op \in Blacklist PROVE ~Allows(t, op)
  BY <1>1, <1>2, TextAssumption, ParsedIsAllowed
<1>5. ASSUME NEW op \in Goldlist PROVE Allows(t, op)
  BY <1>1, <1>2, <1>3, ParsedIsAllowed
<1> QED
  BY <1>4, <1>5 DEF SatisfiesPolicy

\* Texts that C reads as written and makes one binary of pass or fail together.
LEMMA PolicyIsOfTheBinary ==
  ASSUME NEW s \in AsWritten, NEW t \in AsWritten, binaryOf[s] = binaryOf[t],
         check_against_policy(parse_dsl(s))
  PROVE  SatisfiesPolicy(t)
<1>1. s \in Texts /\ t \in Texts /\ compile_to_c_v2(parse_dsl(s)) = compile_to_c_v2(parse_dsl(t))
  BY CompilerAssumption
<1>2. PICK f : f = parse_dsl(s)
  OBVIOUS
<1>3. PICK g : g = parse_dsl(t)
  OBVIOUS
<1>4. parse_op_list(f, "allowed_ops") = parse_op_list(g, "allowed_ops")
  <2>1. compile_to_c_v2(f).allowed = parse_op_list(f, "allowed_ops")
    BY DEF compile_to_c_v2
  <2>2. compile_to_c_v2(g).allowed = parse_op_list(g, "allowed_ops")
    BY DEF compile_to_c_v2
  <2> QED
    BY <1>1, <1>2, <1>3, <2>1, <2>2
<1>5. check_against_policy(g)
  BY <1>2, <1>4 DEF check_against_policy
<1> QED
  BY <1>1, <1>3, <1>5, PolicyIsChecked

-----------------------------------------------------------------------------
(* Certificates *)

\* c is the certificate of a text that passes the policy.
Certified(c) ==
  \E t \in Texts :
    /\ check_against_policy(parse_dsl(t))
    /\ binaryOf[t] \in Binaries /\ c = sha256[binaryOf[t]]

CertInv ==
  /\ \A i \in 1..Len(approvals) : approvals[i].event = "approve" => Certified(approvals[i].cert)
  /\ \A b \in accepted : b \in Binaries /\ Certified(sha256[b])

LEMMA CertifiedStep ==
  ASSUME ReleaseInv, CertInv, NEW e, approvals' = Append(approvals, e), accepted' = accepted,
         e.event = "approve" => Certified(e.cert)
  PROVE  CertInv'
<1>1. PICK S : approvals \in Seq(S)
  BY DEF ReleaseInv
<1>2. PICK n \in Nat : n = Len(approvals)
  BY <1>1
<1>3. /\ Len(approvals') = n + 1 /\ approvals'[n + 1] = e
      /\ \A i \in 1..n : approvals'[i] = approvals[i]
  BY <1>1, <1>2
<1>4. ASSUME NEW i \in 1..(n + 1) PROVE approvals'[i].event = "approve" => Certified(approvals'[i].cert)
  <2>1. CASE i = n + 1
    BY <1>3, <2>1
  <2>2. CASE i # n + 1
    <3>1. i \in 1..n
      BY <2>2
    <3> QED
      BY <1>2, <1>3, <3>1 DEF CertInv
  <2> QED
    BY <2>1, <2>2
<1> QED
  BY <1>3, <1>4 DEF CertInv, Certified

LEMMA CertStart == CertInit => ReleaseInv /\ CertInv
<1> SUFFICES ASSUME CertInit PROVE ReleaseInv /\ CertInv
  OBVIOUS
<1>1. ReleaseInv
  BY ReleaseInit DEF CertInit
<1>2. Len(approvals) = 0 /\ accepted = {}
  BY DEF CertInit, Init
<1> QED
  BY <1>1, <1>2 DEF CertInv

\* What the registry accepts rests on an approval, so on a text that passed.
LEMMA ClaimStep ==
  ASSUME ReleaseInv, CertInv, NEW binary \in Binaries, NEW seed, Claim(binary, seed)
  PROVE  CertInv'
<1>1. PICK c : c = sha256[binary]
  OBVIOUS
<1>2. check(c, seed) /\ accepted' = accepted \cup {binary} /\ approvals' = approvals
  BY <1>1 DEF Claim, vars
<1>3. Len(approvals) \in Nat
  <2>1. PICK S : approvals \in Seq(S)
    BY DEF ReleaseInv
  <2> QED
    BY <2>1
<1>4. PICK i \in 1..Len(approvals) : InForce(i, Len(approvals), c, seed)
  BY <1>2, <1>3, CheckedIsInForce DEF ReleaseInv
<1>5. approvals[i].event = "approve" /\ approvals[i].cert = c
  BY <1>4 DEF InForce
<1>6. Certified(c)
  BY <1>5 DEF CertInv
<1> QED
  BY <1>1, <1>2, <1>6 DEF CertInv, Certified

LEMMA CertStep ==
  ASSUME ReleaseInv, CertInv, [CertNext]_certVars
  PROVE  ReleaseInv' /\ CertInv'
<1>1. ASSUME approvals' = approvals, accepted' = accepted PROVE CertInv'
  BY <1>1 DEF CertInv, Certified
<1>2. CASE UNCHANGED certVars
  BY <1>1, <1>2, LogsSame DEF certVars, vars
<1>3. ASSUME NEW t \in Texts, Submit(t) PROVE ReleaseInv' /\ CertInv'
  <2>1. PICK c : c = sha256[binaryOf[t]]
    OBVIOUS
  <2>2. PICK seed : approvals' = Append(approvals, [event |-> "approve", cert |-> c, seed |-> seed])
    BY <1>3, <2>1 DEF Submit, approve
  <2>3. PICK e : e = [event |-> "approve", cert |-> c, seed |-> seed]
    OBVIOUS
  <2>4. Entry(e) /\ e.cert = c
    BY <2>3 DEF Entry
  <2>5. Certified(c)
    BY <1>3, <2>1, CompilerAssumption DEF Submit, Certified
  <2>6. releases' = releases /\ licence' = licence /\ accepted' = accepted /\ approvals' = Append(approvals, e)
    BY <1>3, <2>2, <2>3 DEF Submit, approve
  <2> QED
    BY <2>4, <2>5, <2>6, ApprovalStep, CertifiedStep
<1>4. ASSUME NEW b \in Binaries, NEW seed \in Seeds, Claim(b, seed) PROVE ReleaseInv' /\ CertInv'
  BY <1>4, LogsSame, ClaimStep DEF Claim, vars
<1>5. ASSUME NEW c \in Certs, revoke(c), accepted' = accepted PROVE ReleaseInv' /\ CertInv'
  <2>1. PICK e : e = [event |-> "revoke", cert |-> c, seed |-> "none"]
    OBVIOUS
  <2>2. Entry(e) /\ e.event # "approve"
    BY <2>1 DEF Entry
  <2>3. releases' = releases /\ licence' = licence /\ approvals' = Append(approvals, e)
    BY <1>5, <2>1 DEF revoke
  <2> QED
    BY <1>5, <2>2, <2>3, ApprovalStep, CertifiedStep
<1>6. ASSUME NEW c \in Certs, NEW seed \in Seeds, NEW shards \in Manifests,
             release(c, seed, shards), accepted' = accepted
      PROVE  ReleaseInv' /\ CertInv'
  BY <1>1, <1>6, ReleaseStep DEF release
<1>7. ASSUME NEW c \in Certs, Fetch(c), accepted' = accepted PROVE ReleaseInv' /\ CertInv'
  BY <1>1, <1>7, LogsSame DEF Fetch
<1>8. ASSUME NEW c \in Certs, NEW arrived \in Deliveries, receive_and_check(c, arrived), accepted' = accepted
      PROVE  ReleaseInv' /\ CertInv'
  BY <1>1, <1>8, LogsSame DEF receive_and_check
<1> QED
  BY <1>2, <1>3, <1>4, <1>5, <1>6, <1>7, <1>8 DEF CertNext

\* The same where certificates come from texts: only what is approved is released.
THEOREM CertifiedReleases == CertSpec => []ReleaseIsLicensed
<1>1. ReleaseInv => ReleaseIsLicensed
  BY DEF ReleaseInv, ReleaseIsLicensed, InForce
<1> QED
  BY <1>1, CertStart, CertStep, PTL DEF CertSpec

\* A binary the registry accepts was compiled from a text that satisfies the policy;
\* and if C reads that text as written, so does every other such text that gcc makes
\* the same binary of, for any compiler that keeps such sources apart.
THEOREM OnlyDeclared == CertSpec => []AcceptedWasDeclared
<1>1. CertInv => AcceptedWasDeclared
  <2> SUFFICES ASSUME CertInv, NEW b \in accepted
               PROVE  \E t \in Texts :
                        /\ binaryOf[t] = b /\ SatisfiesPolicy(t)
                        /\ t \in AsWritten =>
                             \A s \in AsWritten : binaryOf[s] = b => SatisfiesPolicy(s)
    BY DEF AcceptedWasDeclared
  <2>1. PICK t \in Texts : /\ check_against_policy(parse_dsl(t))
                           /\ binaryOf[t] \in Binaries /\ sha256[b] = sha256[binaryOf[t]]
    BY DEF CertInv, Certified
  <2>2. b = binaryOf[t]
    BY <2>1, HashAssumption DEF CertInv
  <2>3. SatisfiesPolicy(t)
    BY <2>1, PolicyIsChecked
  <2>4. ASSUME t \in AsWritten, NEW s \in AsWritten, binaryOf[s] = b PROVE SatisfiesPolicy(s)
    BY <2>1, <2>2, <2>4, PolicyIsOfTheBinary
  <2> QED
    BY <2>2, <2>3, <2>4
<1> QED
  BY <1>1, CertStart, CertStep, PTL DEF CertSpec

\* Certificates that come from texts change nothing in what may be deployed.
THEOREM CertifiedDeployments == CertSpec => []DeployedWasReleased
<1>1. CertInit => DeployInv
  BY DeployInit DEF CertInit
<1>2. DeployInv /\ [CertNext]_certVars => DeployInv'
  <2> SUFFICES ASSUME DeployInv, [CertNext]_certVars PROVE DeployInv'
    OBVIOUS
  <2>1. CASE UNCHANGED certVars
    BY <2>1, DeployStep DEF certVars
  <2>2. ASSUME NEW t \in Texts, Submit(t) PROVE DeployInv'
    BY <2>2, DeployStep DEF Submit
  <2>3. ASSUME NEW b \in Binaries, NEW seed \in Seeds, Claim(b, seed) PROVE DeployInv'
    BY <2>3, DeployStep DEF Claim
  <2>4. ASSUME NEW c \in Certs,
               \/ revoke(c)
               \/ \E seed \in Seeds, shards \in Manifests : release(c, seed, shards)
               \/ Fetch(c)
               \/ \E arrived \in Deliveries : receive_and_check(c, arrived)
        PROVE  DeployInv'
    BY <2>4, DeployStep
  <2> QED
    BY <2>1, <2>2, <2>3, <2>4 DEF CertNext
<1> QED
  BY <1>1, <1>2, ReleasedIsDeployed, PTL DEF CertSpec

\* What the compilers look up is what the text says.
LEMMA FoundIsRead ==
  ASSUME NEW text \in Texts, NEW k, NEW default,
         default = IF k = "max_batch_size" THEN <<"0">> ELSE <<Blank>>
  PROVE  get(parse_dsl(text), k, default) = ValueRead(text, k)
<1>1. PICK found : found = get(parse_dsl(text), k, default)
  OBVIOUS
<1>2. PICK R : R = Reads(text, k)
  OBVIOUS
<1> DEFINE c == CHOOSE i \in R : \A j \in R : j <= i
<1>3. ValueRead(text, k) = IF R = {} THEN default ELSE text[c].value
  <2>1. ValueRead(text, k) =
          IF R = {} THEN IF k = "max_batch_size" THEN <<"0">> ELSE <<Blank>> ELSE text[c].value
    BY <1>2 DEF ValueRead, Reads
  <2> HIDE DEF c
  <2> QED
    BY <2>1
<1>4. ASSUME NEW d, LastOf(text, k, d), found = text[d].value PROVE found = ValueRead(text, k)
  <2>1. d \in R /\ \A j \in R : j <= d
    BY <1>2, <1>4 DEF LastOf
  <2>2. c \in R /\ \A j \in R : j <= c
    BY <2>1
  <2> HIDE DEF c
  <2>3. LastOf(text, k, c)
    BY <1>2, <2>2 DEF LastOf
  <2>4. c = d
    BY <1>4, <2>3, LastUnique
  <2> QED
    BY <1>3, <1>4, <2>1, <2>4
<1> HIDE DEF c
<1>5. CASE R = {} /\ found = default
  BY <1>1, <1>3, <1>5
<1>6. \/ R = {} /\ found = default
      \/ \E d : LastOf(text, k, d) /\ found = text[d].value
  BY <1>1, <1>2, ParsedRead, ZenonT(40)
<1> QED
  BY <1>1, <1>4, <1>5, <1>6

\* What the generators paste into a source is what the text says.
LEMMA SourceIsRead ==
  ASSUME NEW text \in Texts
  PROVE  LET first  == compile_to_c(parse_dsl(text))
             second == compile_to_c_v2(parse_dsl(text))
         IN  /\ first.checkpoint = ValueRead(text, "checkpoint_hash")
             /\ first.class = ValueRead(text, "operation_class")
             /\ first.max_batch = ValueRead(text, "max_batch_size")
             /\ first.collectives = ValueRead(text, "collective_ops")
             /\ second.checkpoint = ValueRead(text, "checkpoint_hash")
             /\ second.class = ValueRead(text, "operation_class")
             /\ second.max_batch = ValueRead(text, "max_batch_size")
             /\ second.collectives = ValueRead(text, "collective_ops")
<1>1. PICK f : f = parse_dsl(text)
  OBVIOUS
<1>2. /\ get(f, "checkpoint_hash", <<Blank>>) = ValueRead(text, "checkpoint_hash")
      /\ get(f, "operation_class", <<Blank>>) = ValueRead(text, "operation_class")
      /\ get(f, "max_batch_size", <<"0">>) = ValueRead(text, "max_batch_size")
      /\ get(f, "collective_ops", <<Blank>>) = ValueRead(text, "collective_ops")
  BY <1>1, FoundIsRead
<1> QED
  BY <1>1, <1>2 DEF compile_to_c, compile_to_c_v2

\* Among the texts C reads as written, every binary an auditor approved stands for one
\* checkpoint, one operation class, one batch bound and one use of collectives, from
\* either generator, whatever lines repeat or are skipped: what main reads of the
\* source is what the text is read for.
THEOREM CertificatesPinBounds == CertSpec => []CertificatePinsBounds
<1>1. ASSUME NEW s \in AsWritten, NEW t \in AsWritten,
             binaryOf[s] = binaryOf[t] \/ firstBinary[t] = firstBinary[s]
      PROVE  SameBounds(s, t)
  <2>1. s \in Texts /\ t \in Texts
    BY CompilerAssumption
  <2>2. \/ compile_to_c_v2(parse_dsl(s)) = compile_to_c_v2(parse_dsl(t))
        \/ compile_to_c(parse_dsl(s)) = compile_to_c(parse_dsl(t))
    BY <1>1, CompilerAssumption
  <2> QED
    BY <2>1, <2>2, SourceIsRead DEF SameBounds
<1>2. CertificatePinsBounds
  BY <1>1 DEF CertificatePinsBounds, SameCertificate
<1> QED
  BY <1>2, PTL
=============================================================================

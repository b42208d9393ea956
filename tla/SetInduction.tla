---------------------------- MODULE SetInduction ----------------------------
(***************************************************************************)
(* Induction stated with sets instead of predicates, so that a proof can   *)
(* apply it by naming the set of numbers for which its claim holds.  It    *)
(* comes from the well-foundedness of strict inclusion on finite sets.     *)
(* With it, what a loop computes that a model unrolls as a function.       *)
(***************************************************************************)
EXTENDS Integers, FiniteSets, Functions, FiniteSetTheorems, TLAPS

\* Every nonempty set of naturals has a least element.
LEMMA LeastNatural ==
  ASSUME NEW S, S \subseteq Nat, S # {}
  PROVE  \E n \in S : \A m \in S : n <= m
<1> DEFINE T == {0..n : n \in S}
<1>1. IsWellFoundedOn(StrictSubsetOrdering(Nat), FiniteSubsetsOf(Nat))
  BY FS_StrictSubsetOrderingWellFounded
<1>2. T \subseteq FiniteSubsetsOf(Nat)
  <2>1. ASSUME NEW n \in S PROVE 0..n \in FiniteSubsetsOf(Nat)
    <3>1. n \in Int /\ 0 \in Int /\ 0..n \subseteq Nat
      OBVIOUS
    <3>2. IsFiniteSet(0..n)
      BY <3>1, FS_Interval
    <3> QED
      BY <3>1, <3>2 DEF FiniteSubsetsOf
  <2> QED
    BY <2>1
<1>3. PICK I \in T : \A J \in T : ~ (<<J, I>> \in StrictSubsetOrdering(Nat))
  <2>1. T # {}
    OBVIOUS
  <2> HIDE DEF T
  <2> QED
    BY <1>1, <1>2, <2>1, WFMin
<1>4. PICK n \in S : I = 0..n
  BY <1>3
<1>5. ASSUME NEW m \in S, m < n PROVE FALSE
  <2>1. 0..m \in T
    BY DEF T
  <2>2. /\ 0..m \in SUBSET Nat
        /\ 0..n \in SUBSET Nat
        /\ 0..m \subseteq 0..n
        /\ 0..m # 0..n
    BY <1>5, n \in 0..n, n \notin 0..m
  <2>3. <<0..m, 0..n>> \in StrictSubsetOrdering(Nat)
    BY <2>2, Zenon DEF StrictSubsetOrdering
  <2> QED
    BY <1>3, <1>4, <2>1, <2>3
<1> QED
  BY <1>5

\* A set that holds 0 and the successor of each of its members below C holds 0..C.
LEMMA IntervalInduction ==
  ASSUME NEW C \in Nat, NEW P,
         0 \in P,
         \A k \in 0..(C-1) : k \in P => k+1 \in P
  PROVE  \A k \in 0..C : k \in P
<1> DEFINE Bad == {k \in 0..C : k \notin P}
<1>1. SUFFICES ASSUME Bad # {} PROVE FALSE
  OBVIOUS
<1>2. Bad \subseteq Nat
  OBVIOUS
<1>3. PICK n \in Bad : \A m \in Bad : n <= m
  <2> HIDE DEF Bad
  <2> QED
    BY <1>1, <1>2, LeastNatural
<1>4. n \in 1..C /\ n \notin P
  BY <1>3
<1>5. n-1 \in 0..(C-1) /\ n-1 \notin Bad
  BY <1>3, <1>4
<1> QED
  BY <1>4, <1>5

-----------------------------------------------------------------------------
(* A loop whose turns t, on states X, take something off a supply m until  *)
(* one takes nothing                                                       *)

Loop(t, m, X) ==
  /\ t \in [X -> X] /\ m \in [X -> Nat]
  /\ \A x \in X : t[x] = x \/ m[t[x]] < m[x]

OrbitUpTo(f, t, x, n) == f = [k \in 0..n |-> IF k = 0 THEN x ELSE t[f[k-1]]]
Orbit(t, x, n) == CHOOSE f : OrbitUpTo(f, t, x, n)
End(t, m, x) == Orbit(t, x, m[x])[m[x]]

LEMMA OrbitIs ==
  ASSUME NEW t, NEW x, NEW n \in Nat
  PROVE  /\ Orbit(t, x, n)[0] = x
         /\ \A k \in 1..n : Orbit(t, x, n)[k] = t[Orbit(t, x, n)[k-1]]
<1> DEFINE P == {m \in 0..n : \E f : OrbitUpTo(f, t, x, m)}
<1>1. 0 \in P
  <2> DEFINE g == [k \in 0..0 |-> x]
  <2>1. OrbitUpTo(g, t, x, 0)
    BY DEF OrbitUpTo
  <2>2. 0 \in 0..n
    OBVIOUS
  <2> HIDE DEF g
  <2> QED
    BY <2>1, <2>2
<1>2. ASSUME NEW m \in 0..(n-1), m \in P PROVE m+1 \in P
  <2>1. PICK f : OrbitUpTo(f, t, x, m)
    BY <1>2
  <2> DEFINE g == [k \in 0..(m+1) |-> IF k <= m THEN f[k] ELSE t[f[m]]]
  <2>2. ASSUME NEW k \in 0..(m+1)
        PROVE  g[k] = IF k = 0 THEN x ELSE t[g[k-1]]
    <3>1. CASE k = m+1
      BY <3>1
    <3>2. CASE k <= m
      <4>0. k \in 0..m
        BY <3>2
      <4>1. f[k] = IF k = 0 THEN x ELSE t[f[k-1]]
        <5> HIDE DEF g
        <5> QED
          BY <2>1, <4>0, Zenon DEF OrbitUpTo
      <4>2. k # 0 => k-1 \in 0..m /\ k-1 \in 0..(m+1) /\ k-1 <= m
        BY <4>0
      <4> QED
        BY <3>2, <4>1, <4>2
    <3> QED
      BY <3>1, <3>2
  <2>3. OrbitUpTo(g, t, x, m+1)
    BY <2>2 DEF OrbitUpTo
  <2>4. m+1 \in 0..n
    BY <1>2
  <2> HIDE DEF g
  <2> QED
    BY <2>3, <2>4
<1>3. n \in P
  <2> HIDE DEF P
  <2> QED
    BY <1>1, <1>2, IntervalInduction, n \in 0..n
<1>4. \E f : OrbitUpTo(f, t, x, n)
  BY <1>3
<1>5. OrbitUpTo(Orbit(t, x, n), t, x, n)
  BY <1>4 DEF Orbit
<1>f. PICK f : f = Orbit(t, x, n)
  OBVIOUS
<1>6. f = [k \in 0..n |-> IF k = 0 THEN x ELSE t[f[k-1]]]
  BY <1>5, <1>f DEF OrbitUpTo
<1>7. f[0] = x /\ \A k \in 1..n : f[k] = t[f[k-1]]
  BY <1>6
<1> QED
  BY <1>7, <1>f

LEMMA OrbitSinks ==
  ASSUME NEW t, NEW m, NEW X, Loop(t, m, X), NEW x \in X, NEW n \in Nat
  PROVE  \A k \in 0..n : LET e == Orbit(t, x, n)[k]
                         IN  e \in X /\ (t[e] = e \/ m[e] <= m[x] - k)
<1>f. PICK f : f = Orbit(t, x, n)
  OBVIOUS
<1>1. f[0] = x /\ \A k \in 1..n : f[k] = t[f[k-1]]
  BY <1>f, OrbitIs
<1>2. /\ \A e \in X : m[e] \in Nat /\ t[e] \in X /\ (t[e] = e \/ m[t[e]] < m[e])
  BY DEF Loop
<1> DEFINE Good(e, k) == e \in X /\ (t[e] = e \/ m[e] <= m[x] - k)
           P == {k \in 0..n : Good(f[k], k)}
<1>3. 0 \in P
  BY <1>1, <1>2
<1>4. ASSUME NEW k \in 0..(n-1), k \in P PROVE k+1 \in P
  <2>1. k+1 \in 1..n /\ (k+1) - 1 = k /\ k+1 \in 0..n
    OBVIOUS
  <2>0. PICK e, g : e = f[k] /\ g = f[k+1]
    OBVIOUS
  <2>2. g = t[e] /\ Good(e, k)
    BY <1>1, <1>4, <2>0, <2>1
  <2>3. Good(g, k+1)
    BY <1>2, <2>2
  <2> QED
    BY <2>0, <2>1, <2>3
<1>5. \A k \in 0..n : k \in P
  <2> HIDE DEF P
  <2> QED
    BY <1>3, <1>4, IntervalInduction
<1> QED
  BY <1>5, <1>f

LEMMA LoopRests ==
  ASSUME NEW t, NEW m, NEW X, Loop(t, m, X), NEW x \in X, t[x] = x
  PROVE  End(t, m, x) = x
<1> PICK n \in Nat : n = m[x]
  BY DEF Loop
<1> PICK f : f = Orbit(t, x, n)
  OBVIOUS
<1> DEFINE P == {k \in 0..n : f[k] = x}
<1>1. f[0] = x /\ \A k \in 1..n : f[k] = t[f[k-1]]
  BY OrbitIs
<1>2. 0 \in P
  BY <1>1
<1>3. ASSUME NEW k \in 0..(n-1), k \in P PROVE k+1 \in P
  <2>1. k+1 \in 0..n /\ k+1 \in 1..n /\ (k+1) - 1 = k
    OBVIOUS
  <2> QED
    BY <1>1, <1>3, <2>1
<1>4. f[n] = x
  <2>1. \A k \in 0..n : k \in P
    <3> HIDE DEF P
    <3> QED
      BY <1>2, <1>3, IntervalInduction
  <2> QED
    BY <2>1, n \in 0..n
<1> QED
  BY <1>4 DEF End

\* The loop ends where a turn takes nothing; one turn before it changes nothing.
LEMMA LoopEnds ==
  ASSUME NEW t, NEW m, NEW X, Loop(t, m, X), NEW x \in X
  PROVE  /\ End(t, m, x) \in X /\ t[End(t, m, x)] = End(t, m, x)
         /\ End(t, m, x) = End(t, m, t[x])
<1>e. PICK e : e = t[x]
  OBVIOUS
<1>1. e \in X /\ m[x] \in Nat /\ m[e] \in Nat /\ (e = x \/ m[e] < m[x])
  BY <1>e DEF Loop
<1>0. PICK n \in Nat, l \in Nat : n = m[x] /\ l = m[e]
  BY <1>1
<1>f. PICK f, g : f = Orbit(t, x, n) /\ g = Orbit(t, e, l)
  OBVIOUS
<1>2. End(t, m, x) = f[n] /\ End(t, m, e) = g[l]
  BY <1>0, <1>f DEF End
<1>3. /\ f[0] = x /\ \A k \in 1..n : f[k] = t[f[k-1]]
      /\ g[0] = e /\ \A k \in 1..l : g[k] = t[g[k-1]]
  BY <1>f, OrbitIs
<1>4. ASSUME NEW y \in X, NEW p \in Nat, p = m[y], NEW o, o = Orbit(t, y, p)
      PROVE  o[p] \in X /\ t[o[p]] = o[p]
  <2>0. PICK last : last = o[p]
    OBVIOUS
  <2>1. last \in X /\ (t[last] = last \/ m[last] <= p - p)
    BY <1>4, <2>0, OrbitSinks, p \in 0..p
  <2>2. \A z \in X : m[z] \in Nat /\ t[z] \in X /\ (t[z] = z \/ m[t[z]] < m[z])
    BY DEF Loop
  <2>3. m[last] <= 0 => t[last] = last
    BY <2>1, <2>2
  <2> QED
    BY <2>0, <2>1, <2>3
<1>5. f[n] \in X /\ t[f[n]] = f[n] /\ t[g[l]] = g[l]
  BY <1>0, <1>1, <1>4, <1>f
<1>6. f[n] = g[l]
  <2>1. CASE e = x
    BY <1>0, <1>f, <2>1
  <2>2. CASE e # x
    <3>1. l < n
      BY <1>0, <1>1, <2>2
    <3> DEFINE P == {k \in 0..l : f[k+1] = g[k]}
               Q == {k \in 0..(n-(l+1)) : f[k+(l+1)] = g[l]}
    <3>2. 0 \in P
      <4>1. 1 \in 1..n /\ 1 - 1 = 0 /\ 0 + 1 = 1 /\ 0 \in 0..l
        BY <3>1
      <4>2. f[1] = t[f[0]]
        BY <1>3, <4>1
      <4> QED
        BY <1>3, <1>e, <4>1, <4>2
    <3>3. ASSUME NEW k \in 0..(l-1), k \in P PROVE k+1 \in P
      <4>1. k+1 \in 0..l /\ k+1 \in 1..l /\ (k+1)+1 \in 1..n /\ (k+1) - 1 = k /\ ((k+1)+1) - 1 = k+1
        BY <3>1
      <4>2. f[(k+1)+1] = t[f[k+1]] /\ g[k+1] = t[g[k]]
        BY <1>3, <4>1
      <4> QED
        BY <3>3, <4>1, <4>2
    <3>4. f[l+1] = g[l]
      <4>1. \A k \in 0..l : k \in P
        <5> HIDE DEF P
        <5> QED
          BY <3>2, <3>3, IntervalInduction
      <4> QED
        BY <4>1, l \in 0..l
    <3>5. n-(l+1) \in Nat
      BY <3>1
    <3>6. 0 \in Q
      BY <3>4, <3>5
    <3>7. ASSUME NEW k \in 0..((n-(l+1))-1), k \in Q PROVE k+1 \in Q
      <4>1. k+1 \in 0..(n-(l+1)) /\ (k+1)+(l+1) \in 1..n /\ ((k+1)+(l+1)) - 1 = k+(l+1)
        BY <3>1, <3>5
      <4>2. f[(k+1)+(l+1)] = t[f[k+(l+1)]]
        BY <1>3, <4>1
      <4>3. f[(k+1)+(l+1)] = g[l]
        BY <1>5, <3>7, <4>2
      <4> QED
        BY <4>1, <4>3
    <3>8. n-(l+1) \in Q
      <4>1. n-(l+1) \in 0..(n-(l+1))
        BY <3>5
      <4>2. \A k \in 0..(n-(l+1)) : k \in Q
        <5> HIDE DEF Q
        <5> QED
          BY <3>5, <3>6, <3>7, IntervalInduction
      <4> QED
        BY <4>1, <4>2
    <3>9. (n-(l+1))+(l+1) = n
      OBVIOUS
    <3> QED
      BY <3>8, <3>9
  <2> QED
    BY <2>1, <2>2
<1> QED
  BY <1>2, <1>5, <1>6, <1>e

\* What a step a adds to a state may be added before the loop ran or after it.
LEMMA LoopMore ==
  ASSUME NEW t, NEW m, NEW X, Loop(t, m, X), NEW a \in [X -> X],
         \A y \in X : t[y] # y => \/ t[a[y]] = a[t[y]]
                                  \/ t[a[t[y]]] = t[a[y]],
         NEW x \in X
  PROVE  End(t, m, a[End(t, m, x)]) = End(t, m, a[x])
<1> DEFINE Same(y) == End(t, m, a[End(t, m, y)]) = End(t, m, a[y])
           P == {n \in 0..m[x] : \A y \in X : m[y] <= n => Same(y)}
<1>1. \A y \in X : m[y] \in Nat /\ t[y] \in X /\ (t[y] = y \/ m[t[y]] < m[y]) /\ a[y] \in X
  BY DEF Loop
<1>2. \A y \in X : End(t, m, y) = End(t, m, t[y])
  BY LoopEnds
<1>3. \A y \in X : t[y] = y => Same(y)
  BY LoopRests
<1> HIDE DEF Same
<1>4. 0 \in P
  BY <1>1, <1>3
<1>5. ASSUME NEW n \in 0..(m[x] - 1), n \in P PROVE n+1 \in P
  <2>1. ASSUME NEW y \in X, m[y] <= n+1, t[y] # y PROVE Same(y)
    <3>1. PICK e \in X : e = t[y]
      BY <1>1
    <3>2. m[e] <= n
      BY <1>1, <2>1, <3>1
    <3>3. Same(e)
      BY <1>5, <3>2
    <3>4. End(t, m, y) = End(t, m, e)
      BY <1>2, <3>1
    <3>5. End(t, m, a[e]) = End(t, m, a[y])
      <4>1. t[a[y]] = a[e] \/ t[a[e]] = t[a[y]]
        BY <2>1, <3>1
      <4>2. End(t, m, a[y]) = End(t, m, t[a[y]]) /\ End(t, m, a[e]) = End(t, m, t[a[e]])
        BY <1>1, <1>2
      <4> QED
        BY <4>1, <4>2
    <3> QED
      BY <3>3, <3>4, <3>5 DEF Same
  <2>2. n+1 \in 0..m[x]
    BY <1>1
  <2> QED
    BY <1>3, <2>1, <2>2
<1>6. m[x] \in P
  <2> HIDE DEF P
  <2>1. m[x] \in Nat /\ m[x] \in 0..m[x]
    BY <1>1
  <2> QED
    BY <1>4, <1>5, <2>1, IntervalInduction
<1>7. Same(x)
  BY <1>1, <1>6
<1> QED
  BY <1>7 DEF Same

\* A change p that no turn sees may be made before the loop or after it.
LEMMA LoopAlong ==
  ASSUME NEW t, NEW m, NEW X, Loop(t, m, X), NEW p \in [X -> X],
         \A y \in X : t[p[y]] = p[t[y]] /\ m[p[y]] = m[y],
         NEW x \in X
  PROVE  End(t, m, p[x]) = p[End(t, m, x)]
<1> PICK n \in Nat : n = m[x]
  BY DEF Loop
<1> PICK f, g : f = Orbit(t, x, n) /\ g = Orbit(t, p[x], n)
  OBVIOUS
<1>1. /\ f[0] = x /\ \A k \in 1..n : f[k] = t[f[k-1]]
      /\ g[0] = p[x] /\ \A k \in 1..n : g[k] = t[g[k-1]]
  BY OrbitIs
<1>2. \A k \in 0..n : f[k] \in X
  BY OrbitSinks
<1> DEFINE P == {k \in 0..n : g[k] = p[f[k]]}
<1>3. 0 \in P
  BY <1>1
<1>4. ASSUME NEW k \in 0..(n-1), k \in P PROVE k+1 \in P
  <2>1. k+1 \in 0..n /\ k+1 \in 1..n /\ (k+1) - 1 = k /\ k \in 0..n
    OBVIOUS
  <2>2. g[k+1] = t[g[k]] /\ f[k+1] = t[f[k]] /\ f[k] \in X /\ g[k] = p[f[k]]
    BY <1>1, <1>2, <1>4, <2>1
  <2> QED
    BY <2>1, <2>2
<1>5. g[n] = p[f[n]]
  <2>1. \A k \in 0..n : k \in P
    <3> HIDE DEF P
    <3> QED
      BY <1>3, <1>4, IntervalInduction
  <2> QED
    BY <2>1, n \in 0..n
<1>6. m[p[x]] = n
  OBVIOUS
<1> QED
  BY <1>5, <1>6 DEF End

\* The loop as a recursive function of the number of turns computes its end.
LEMMA LoopComputes ==
  ASSUME NEW t, NEW m, NEW X, Loop(t, m, X), NEW x \in X,
         NEW n, n = m[x],
         NEW f, f[0] = x, \A k \in 1..n : f[k-1] \in X => f[k] = t[f[k-1]]
  PROVE  f[n] = End(t, m, x)
<1>0. n \in Nat
  BY DEF Loop
<1> PICK g : g = Orbit(t, x, n)
  OBVIOUS
<1>1. g[0] = x /\ \A k \in 1..n : g[k] = t[g[k-1]]
  BY <1>0, OrbitIs
<1>2. \A k \in 0..n : g[k] \in X
  BY <1>0, OrbitSinks
<1> DEFINE P == {k \in 0..n : f[k] = g[k]}
<1>3. 0 \in P
  BY <1>0, <1>1
<1>4. ASSUME NEW k \in 0..(n-1), k \in P PROVE k+1 \in P
  <2>1. k+1 \in 0..n /\ k+1 \in 1..n /\ (k+1) - 1 = k /\ k \in 0..n
    BY <1>0
  <2> QED
    BY <1>1, <1>2, <1>4, <2>1
<1>5. f[n] = g[n]
  <2>1. \A k \in 0..n : k \in P
    <3> HIDE DEF P
    <3> QED
      BY <1>0, <1>3, <1>4, IntervalInduction
  <2> QED
    BY <1>0, <2>1, n \in 0..n
<1> QED
  BY <1>5 DEF End

-----------------------------------------------------------------------------
(* Sums.  The library's fold takes the elements of a set as CHOOSE gives    *)
(* them; the sum does not depend on that.                                   *)

Chosen(s) == CHOOSE x \in s : TRUE
Subsets(T, m) == {s \in SUBSET T : Cardinality(s) <= m}
Folds(iter, f, dom) ==
  iter = [s \in dom |-> IF s = {} THEN 0 ELSE f[Chosen(s)] + iter[s \ {Chosen(s)}]]

LEMMA ChosenIs == ASSUME NEW s, s # {} PROVE Chosen(s) \in s
BY DEF Chosen

LEMMA CardinalityLess ==
  ASSUME NEW T, IsFiniteSet(T), NEW x \in T
  PROVE  /\ IsFiniteSet(T \ {x})
         /\ Cardinality(T) \in Nat /\ Cardinality(T \ {x}) \in Nat
         /\ Cardinality(T \ {x}) = Cardinality(T) - 1
BY FS_RemoveElement, FS_CardinalityType

LEMMA SubsetFinite ==
  ASSUME NEW T, IsFiniteSet(T), NEW s \in SUBSET T
  PROVE  /\ IsFiniteSet(s)
         /\ Cardinality(s) \in Nat /\ Cardinality(T) \in Nat /\ Cardinality(s) <= Cardinality(T)
         /\ Cardinality(s) = 0 <=> s = {}
BY FS_Subset, FS_CardinalityType, FS_EmptySet

LEMMA SmallerSubset ==
  ASSUME NEW T, IsFiniteSet(T), NEW m \in Nat, NEW s \in Subsets(T, m+1), s # {}
  PROVE  s \ {Chosen(s)} \in Subsets(T, m)
<1>1. s \in SUBSET T /\ Cardinality(s) <= m+1 /\ Chosen(s) \in s
  BY ChosenIs DEF Subsets
<1>2. IsFiniteSet(s)
  BY <1>1, SubsetFinite
<1>3. Cardinality(s) \in Nat /\ Cardinality(s \ {Chosen(s)}) = Cardinality(s) - 1
  BY <1>1, <1>2, CardinalityLess
<1> QED
  BY <1>1, <1>3 DEF Subsets

LEMMA FoldExists ==
  ASSUME NEW f, NEW T, IsFiniteSet(T)
  PROVE  \E iter : Folds(iter, f, SUBSET T)
<1> PICK n \in Nat : n = Cardinality(T)
  BY FS_CardinalityType
<1> DEFINE P == {m \in 0..n : \E iter : Folds(iter, f, Subsets(T, m))}
<1>1. 0 \in P
  <2> DEFINE g == [s \in Subsets(T, 0) |-> 0]
  <2>1. \A s \in Subsets(T, 0) : s = {}
    <3> TAKE s \in Subsets(T, 0)
    <3>1. s \in SUBSET T /\ Cardinality(s) <= 0
      BY DEF Subsets
    <3> QED
      BY <3>1, SubsetFinite
  <2>2. Folds(g, f, Subsets(T, 0))
    BY <2>1, Zenon DEF Folds
  <2>3. 0 \in 0..n
    OBVIOUS
  <2> HIDE DEF g
  <2> QED
    BY <2>2, <2>3
<1>2. ASSUME NEW m \in 0..(n-1), m \in P PROVE m+1 \in P
  <2>1. PICK iter : Folds(iter, f, Subsets(T, m))
    BY <1>2
  <2> DEFINE g == [s \in Subsets(T, m+1) |-> IF s = {} THEN 0 ELSE f[Chosen(s)] + iter[s \ {Chosen(s)}]]
  <2>2. ASSUME NEW s \in Subsets(T, m) PROVE s \in Subsets(T, m+1) /\ iter[s] = g[s]
    <3>1. s \in SUBSET T /\ Cardinality(s) <= m
      BY DEF Subsets
    <3>2. Cardinality(s) \in Nat
      BY <3>1, SubsetFinite
    <3>3. s \in Subsets(T, m+1)
      BY <3>1, <3>2 DEF Subsets
    <3>4. iter[s] = IF s = {} THEN 0 ELSE f[Chosen(s)] + iter[s \ {Chosen(s)}]
      BY <2>1, Zenon DEF Folds
    <3> QED
      BY <3>3, <3>4, Zenon
  <2>3. ASSUME NEW s \in Subsets(T, m+1), s # {}
        PROVE  iter[s \ {Chosen(s)}] = g[s \ {Chosen(s)}]
    <3>1. s \ {Chosen(s)} \in Subsets(T, m)
      BY <2>3, SmallerSubset
    <3> QED
      BY <3>1, <2>2, Zenon
  <2>4. ASSUME NEW s \in Subsets(T, m+1)
        PROVE  g[s] = IF s = {} THEN 0 ELSE f[Chosen(s)] + g[s \ {Chosen(s)}]
    <3>1. g[s] = IF s = {} THEN 0 ELSE f[Chosen(s)] + iter[s \ {Chosen(s)}]
      BY Zenon
    <3> HIDE DEF g
    <3> QED
      BY <2>3, <3>1, Zenon
  <2>5. Folds(g, f, Subsets(T, m+1))
    <3>1. g = [s \in Subsets(T, m+1) |-> g[s]]
      BY Zenon
    <3> HIDE DEF g
    <3> QED
      BY <2>4, <3>1, Zenon DEF Folds
  <2>6. m+1 \in 0..n
    BY <1>2
  <2> HIDE DEF g
  <2> QED
    BY <2>5, <2>6
<1>3. n \in P
  <2> HIDE DEF P
  <2> QED
    BY <1>1, <1>2, IntervalInduction, n \in 0..n
<1>4. Subsets(T, n) = SUBSET T
  BY SubsetFinite DEF Subsets
<1> QED
  BY <1>3, <1>4

LEMMA SumIs ==
  ASSUME NEW f, NEW T, IsFiniteSet(T)
  PROVE  \E iter : Folds(iter, f, SUBSET T) /\ SumFunctionOnSet(f, T) = iter[T]
<1> DEFINE sum == CHOOSE iter : Folds(iter, f, SUBSET T)
<1>1. Folds(sum, f, SUBSET T)
  <2>1. \E iter : Folds(iter, f, SUBSET T)
    BY FoldExists
  <2> QED
    BY <2>1, Zenon
<1>2. SumFunctionOnSet(f, T) = sum[T]
  BY Zenon DEF SumFunctionOnSet, FoldFunctionOnSet, MapThenFoldSet, Folds, Chosen
<1> HIDE DEF sum
<1> QED
  BY <1>1, <1>2, Zenon

\* What is folded over a set is folded alike over a set around it.
TwoFolds(T, U, f, g, i, j) ==
  /\ IsFiniteSet(T) /\ U \subseteq T /\ \A x \in U : f[x] = g[x]
  /\ Folds(i, f, SUBSET T) /\ Folds(j, g, SUBSET U)

LEMMA FoldsAgree ==
  ASSUME NEW T, NEW U, NEW f, NEW g, NEW i, NEW j, TwoFolds(T, U, f, g, i, j)
  PROVE  i[U] = j[U]
<1>t. /\ IsFiniteSet(T) /\ U \in SUBSET T /\ \A x \in U : f[x] = g[x]
      /\ Folds(i, f, SUBSET T) /\ Folds(j, g, SUBSET U)
  BY DEF TwoFolds
<1>0. IsFiniteSet(U)
  BY <1>t, SubsetFinite
<1> PICK n \in Nat : n = Cardinality(U)
  BY <1>0, FS_CardinalityType
<1> DEFINE P == {m \in 0..n : \A s \in Subsets(U, m) : i[s] = j[s]}
<1>1. \A s \in SUBSET U : /\ i[s] = IF s = {} THEN 0 ELSE f[Chosen(s)] + i[s \ {Chosen(s)}]
                          /\ j[s] = IF s = {} THEN 0 ELSE g[Chosen(s)] + j[s \ {Chosen(s)}]
  <2>1. \A s \in SUBSET U : s \in SUBSET T
    BY <1>t
  <2> QED
    BY <1>t, <2>1, Zenon DEF Folds
<1>2. 0 \in P
  <2>1. \A s \in Subsets(U, 0) : s = {} /\ s \in SUBSET U
    <3> TAKE s \in Subsets(U, 0)
    <3>1. s \in SUBSET U /\ Cardinality(s) <= 0
      BY DEF Subsets
    <3> QED
      BY <1>0, <3>1, SubsetFinite
  <2>2. \A s \in Subsets(U, 0) : i[s] = j[s]
    BY <1>1, <2>1
  <2> QED
    BY <2>2, 0 \in 0..n
<1>3. ASSUME NEW m \in 0..(n-1), m \in P PROVE m+1 \in P
  <2>1. ASSUME NEW s \in Subsets(U, m+1) PROVE i[s] = j[s]
    <3>1. s \in SUBSET U
      BY DEF Subsets
    <3>2. CASE s = {}
      BY <1>1, <3>1, <3>2
    <3>3. CASE s # {}
      <4>1. s \ {Chosen(s)} \in Subsets(U, m)
        BY <1>0, <3>3, SmallerSubset
      <4>2. i[s \ {Chosen(s)}] = j[s \ {Chosen(s)}]
        BY <1>3, <4>1
      <4>3. Chosen(s) \in U
        BY <3>1, <3>3, ChosenIs
      <4>4. f[Chosen(s)] = g[Chosen(s)]
        BY <1>t, <4>3
      <4> QED
        BY <1>1, <3>1, <3>3, <4>2, <4>4
    <3> QED
      BY <3>2, <3>3
  <2> QED
    BY <1>3, <2>1, m+1 \in 0..n
<1>4. n \in P
  <2> HIDE DEF P
  <2> QED
    BY <1>2, <1>3, IntervalInduction, n \in 0..n
<1>5. U \in Subsets(U, n)
  BY DEF Subsets
<1> QED
  BY <1>4, <1>5

LEMMA SumOfNone ==
  ASSUME NEW f PROVE SumFunctionOnSet(f, {}) = 0
<1>1. PICK i : Folds(i, f, SUBSET {}) /\ SumFunctionOnSet(f, {}) = i[{}]
  BY SumIs, FS_EmptySet
<1>2. i[{}] = 0
  BY <1>1, {} \in SUBSET {} DEF Folds
<1> QED
  BY <1>1, <1>2

LEMMA SumOfSame ==
  ASSUME NEW T, IsFiniteSet(T), NEW f, NEW g, \A x \in T : f[x] = g[x]
  PROVE  SumFunctionOnSet(f, T) = SumFunctionOnSet(g, T)
<1>1. PICK i : Folds(i, f, SUBSET T) /\ SumFunctionOnSet(f, T) = i[T]
  BY SumIs
<1>2. PICK j : Folds(j, g, SUBSET T) /\ SumFunctionOnSet(g, T) = j[T]
  BY SumIs
<1>3. T \in SUBSET T
  OBVIOUS
<1>4. i[T] = j[T]
  <2>1. TwoFolds(T, T, f, g, i, j)
    BY <1>1, <1>2, <1>3, Zenon DEF TwoFolds
  <2> QED
    BY <2>1, FoldsAgree
<1> QED
  BY <1>1, <1>2, <1>4

LEMMA SumChosen ==
  ASSUME NEW T, IsFiniteSet(T), T # {}, NEW f
  PROVE  SumFunctionOnSet(f, T) = f[Chosen(T)] + SumFunctionOnSet(f, T \ {Chosen(T)})
<1> DEFINE U == T \ {Chosen(T)}
<1>0. U \in SUBSET T /\ IsFiniteSet(U)
  BY SubsetFinite
<1>1. PICK i : Folds(i, f, SUBSET T) /\ SumFunctionOnSet(f, T) = i[T]
  BY SumIs
<1>2. PICK j : Folds(j, f, SUBSET U) /\ SumFunctionOnSet(f, U) = j[U]
  BY <1>0, SumIs
<1>3. i[U] = j[U]
  <2> HIDE DEF U
  <2>1. TwoFolds(T, U, f, f, i, j)
    BY <1>0, <1>1, <1>2, Zenon DEF TwoFolds
  <2> QED
    BY <2>1, FoldsAgree
<1>4. i[T] = f[Chosen(T)] + i[U]
  BY <1>1, T \in SUBSET T, Zenon DEF Folds
<1> QED
  BY <1>1, <1>2, <1>3, <1>4

LEMMA SumIsInt ==
  ASSUME NEW T, IsFiniteSet(T), NEW f, \A x \in T : f[x] \in Int
  PROVE  SumFunctionOnSet(f, T) \in Int
<1> PICK n \in Nat : n = Cardinality(T)
  BY FS_CardinalityType
<1> DEFINE P == {m \in 0..n : \A s \in Subsets(T, m) : SumFunctionOnSet(f, s) \in Int}
<1>1. 0 \in P
  <2>1. \A s \in Subsets(T, 0) : s = {}
    <3> TAKE s \in Subsets(T, 0)
    <3>1. s \in SUBSET T /\ Cardinality(s) <= 0
      BY DEF Subsets
    <3> QED
      BY <3>1, SubsetFinite
  <2>2. \A s \in Subsets(T, 0) : SumFunctionOnSet(f, s) \in Int
    BY <2>1, SumOfNone
  <2> QED
    BY <2>2, 0 \in 0..n
<1>2. ASSUME NEW m \in 0..(n-1), m \in P PROVE m+1 \in P
  <2>1. ASSUME NEW s \in Subsets(T, m+1) PROVE SumFunctionOnSet(f, s) \in Int
    <3>1. s \in SUBSET T /\ IsFiniteSet(s)
      BY SubsetFinite DEF Subsets
    <3>2. CASE s = {}
      BY <3>2, SumOfNone
    <3>3. CASE s # {}
      <4>1. s \ {Chosen(s)} \in Subsets(T, m)
        BY <3>3, SmallerSubset
      <4>2. SumFunctionOnSet(f, s \ {Chosen(s)}) \in Int
        BY <1>2, <4>1
      <4>3. Chosen(s) \in T
        BY <3>1, <3>3, ChosenIs
      <4>4. SumFunctionOnSet(f, s) = f[Chosen(s)] + SumFunctionOnSet(f, s \ {Chosen(s)})
        BY <3>1, <3>3, SumChosen
      <4> QED
        BY <4>2, <4>3, <4>4
    <3> QED
      BY <3>2, <3>3
  <2> QED
    BY <1>2, <2>1, m+1 \in 0..n
<1>3. n \in P
  <2> HIDE DEF P
  <2> QED
    BY <1>1, <1>2, IntervalInduction, n \in 0..n
<1>4. T \in Subsets(T, n)
  BY DEF Subsets
<1> QED
  BY <1>3, <1>4

\* Any element may be taken off first.
LEMMA SumTakes ==
  ASSUME NEW T, IsFiniteSet(T), NEW f, \A x \in T : f[x] \in Int, NEW x \in T
  PROVE  SumFunctionOnSet(f, T) = f[x] + SumFunctionOnSet(f, T \ {x})
<1> PICK n \in Nat : n = Cardinality(T)
  BY FS_CardinalityType
<1> DEFINE Takes(s) == \A y \in s : SumFunctionOnSet(f, s) = f[y] + SumFunctionOnSet(f, s \ {y})
           P == {m \in 0..n : \A s \in Subsets(T, m) : Takes(s)}
<1>1. 0 \in P
  <2>1. \A s \in Subsets(T, 0) : s = {}
    <3> TAKE s \in Subsets(T, 0)
    <3>1. s \in SUBSET T /\ Cardinality(s) <= 0
      BY DEF Subsets
    <3> QED
      BY <3>1, SubsetFinite
  <2> QED
    BY <2>1, 0 \in 0..n
<1>2. ASSUME NEW m \in 0..(n-1), m \in P PROVE m+1 \in P
  <2>1. ASSUME NEW s \in Subsets(T, m+1), NEW y \in s
        PROVE  SumFunctionOnSet(f, s) = f[y] + SumFunctionOnSet(f, s \ {y})
    <3> DEFINE c == Chosen(s)
               r == (s \ {c}) \ {y}
    <3>1. s \in SUBSET T /\ IsFiniteSet(s)
      BY SubsetFinite DEF Subsets
    <3>2. c \in s /\ c \in T /\ y \in T
      BY <3>1, ChosenIs
    <3>3. SumFunctionOnSet(f, s) = f[c] + SumFunctionOnSet(f, s \ {c})
      BY <3>1, SumChosen
    <3>4. CASE y = c
      BY <3>3, <3>4
    <3>5. CASE y # c
      <4>1. s \ {c} \in Subsets(T, m) /\ s \ {y} \in Subsets(T, m)
        <5>1. s \ {c} \in Subsets(T, m)
          BY SmallerSubset
        <5>2. Cardinality(s) \in Nat /\ Cardinality(s \ {y}) = Cardinality(s) - 1 /\ Cardinality(s) <= m+1
          BY <3>1, CardinalityLess DEF Subsets
        <5> QED
          BY <3>1, <5>1, <5>2 DEF Subsets
      <4>2. y \in s \ {c} /\ c \in s \ {y}
        BY <3>2, <3>5
      <4>3. SumFunctionOnSet(f, s \ {c}) = f[y] + SumFunctionOnSet(f, r)
        BY <1>2, <4>1, <4>2
      <4>4. SumFunctionOnSet(f, s \ {y}) = f[c] + SumFunctionOnSet(f, (s \ {y}) \ {c})
        BY <1>2, <4>1, <4>2
      <4>5. (s \ {y}) \ {c} = r /\ r \in SUBSET T
        BY <3>1
      <4>6. SumFunctionOnSet(f, r) \in Int
        <5> HIDE DEF r
        <5> QED
          BY <4>5, SubsetFinite, SumIsInt
      <4>7. f[c] \in Int /\ f[y] \in Int
        BY <3>2
      <4> PICK d \in Int, e \in Int, g \in Int : d = f[c] /\ e = f[y] /\ g = SumFunctionOnSet(f, r)
        BY <4>6, <4>7
      <4>8. /\ SumFunctionOnSet(f, s) = d + (e + g)
            /\ f[y] + SumFunctionOnSet(f, s \ {y}) = e + (d + g)
        BY <3>3, <4>3, <4>4, <4>5, Zenon
      <4> QED
        BY <4>8, d + (e + g) = e + (d + g)
    <3> QED
      BY <3>4, <3>5
  <2> QED
    BY <1>2, <2>1, m+1 \in 0..n
<1>3. n \in P
  <2> HIDE DEF P
  <2> QED
    BY <1>1, <1>2, IntervalInduction, n \in 0..n
<1>4. T \in Subsets(T, n)
  BY DEF Subsets
<1> QED
  BY <1>3, <1>4

LEMMA FiniteSetGrows ==
  ASSUME NEW T, IsFiniteSet(T), NEW P, {} \in P,
         \A s \in SUBSET T : \A x \in s : s \ {x} \in P => s \in P
  PROVE  T \in P
<1> PICK n \in Nat : n = Cardinality(T)
  BY FS_CardinalityType
<1> DEFINE Q == {m \in 0..n : Subsets(T, m) \subseteq P}
<1>1. 0 \in Q
  <2>1. \A s \in Subsets(T, 0) : s = {}
    <3> TAKE s \in Subsets(T, 0)
    <3>1. s \in SUBSET T /\ Cardinality(s) <= 0
      BY DEF Subsets
    <3> QED
      BY <3>1, SubsetFinite
  <2> QED
    BY <2>1, 0 \in 0..n
<1>2. ASSUME NEW m \in 0..(n-1), m \in Q PROVE m+1 \in Q
  <2>1. ASSUME NEW s \in Subsets(T, m+1) PROVE s \in P
    <3>1. s \in SUBSET T
      BY DEF Subsets
    <3>2. CASE s # {}
      <4>1. s \ {Chosen(s)} \in P
        BY <1>2, <3>2, SmallerSubset
      <4> QED
        BY <3>1, <3>2, <4>1, ChosenIs
    <3> QED
      BY <3>2
  <2> QED
    BY <1>2, <2>1, m+1 \in 0..n
<1>3. n \in Q
  <2> HIDE DEF Q
  <2> QED
    BY <1>1, <1>2, IntervalInduction, n \in 0..n
<1>4. T \in Subsets(T, n)
  BY DEF Subsets
<1> QED
  BY <1>3, <1>4

\* A sum of terms is at most c times that of others if each term is.
LEMMA SumAtMost ==
  ASSUME NEW T, IsFiniteSet(T), NEW c \in Int, NEW f, NEW g,
         \A x \in T : f[x] \in Int /\ g[x] \in Int /\ f[x] <= c * g[x]
  PROVE  SumFunctionOnSet(f, T) <= c * SumFunctionOnSet(g, T)
<1> DEFINE AtMost(s) == SumFunctionOnSet(f, s) <= c * SumFunctionOnSet(g, s)
           P == {s \in SUBSET T : AtMost(s)}
<1>1. {} \in P
  BY SumOfNone, c * 0 = 0
<1>2. ASSUME NEW s \in SUBSET T, NEW x \in s, s \ {x} \in P PROVE s \in P
  <2>1. IsFiniteSet(s) /\ x \in T /\ s \ {x} \in SUBSET T
    BY SubsetFinite
  <2>2. IsFiniteSet(s \ {x}) 
    BY <2>1, SubsetFinite
  <2>3. /\ SumFunctionOnSet(f, s) = f[x] + SumFunctionOnSet(f, s \ {x})
        /\ SumFunctionOnSet(g, s) = g[x] + SumFunctionOnSet(g, s \ {x})
    BY <2>1, SumTakes
  <2>4. SumFunctionOnSet(f, s \ {x}) \in Int /\ SumFunctionOnSet(g, s \ {x}) \in Int
    BY <2>1, <2>2, SumIsInt
  <2> PICK a \in Int, b \in Int, d \in Int, e \in Int :
        /\ a = f[x] /\ b = g[x]
        /\ d = SumFunctionOnSet(f, s \ {x}) /\ e = SumFunctionOnSet(g, s \ {x})
    BY <2>1, <2>4
  <2>5. a <= c * b /\ d <= c * e
    BY <1>2, <2>1
  <2>6. c * (b + e) = c * b + c * e /\ c * b \in Int /\ c * e \in Int
    OBVIOUS
  <2>7. a + d <= c * (b + e)
    BY <2>5, <2>6
  <2> QED
    BY <2>3, <2>7
<1>3. T \in P
  <2> HIDE DEF P
  <2> QED
    BY <1>1, <1>2, FiniteSetGrows
<1> QED
  BY <1>3

\* Changing one term changes the sum by as much.
OneChanged(T, f, g, y) ==
  /\ IsFiniteSet(T) /\ y \in T
  /\ \A x \in T : f[x] \in Int /\ g[x] \in Int /\ (x # y => g[x] = f[x])

LEMMA SumChanges ==
  ASSUME NEW T, NEW f, NEW g, NEW y, OneChanged(T, f, g, y)
  PROVE  SumFunctionOnSet(g, T) = SumFunctionOnSet(f, T) + (g[y] - f[y])
<1>0. /\ IsFiniteSet(T) /\ IsFiniteSet(T \ {y}) /\ y \in T
      /\ \A x \in T : f[x] \in Int /\ g[x] \in Int
      /\ \A x \in T \ {y} : f[x] = g[x] /\ f[x] \in Int
  BY FS_RemoveElement DEF OneChanged
<1>1. /\ SumFunctionOnSet(f, T) = f[y] + SumFunctionOnSet(f, T \ {y})
      /\ SumFunctionOnSet(g, T) = g[y] + SumFunctionOnSet(g, T \ {y})
  BY <1>0, SumTakes
<1>2. SumFunctionOnSet(f, T \ {y}) = SumFunctionOnSet(g, T \ {y})
  BY <1>0, SumOfSame
<1>3. SumFunctionOnSet(f, T \ {y}) \in Int
  BY <1>0, SumIsInt
<1> QED
  BY <1>0, <1>1, <1>2, <1>3

LEMMA SumUpTo ==
  ASSUME NEW n \in Nat, NEW f, \A k \in 1..(n+1) : f[k] \in Int
  PROVE  SumFunctionOnSet(f, 1..(n+1)) = f[n+1] + SumFunctionOnSet(f, 1..n)
<1>1. IsFiniteSet(1..(n+1)) /\ n+1 \in 1..(n+1) /\ (1..(n+1)) \ {n+1} = 1..n
  BY FS_Interval
<1> QED
  BY <1>1, SumTakes

LEMMA SumIsNat ==
  ASSUME NEW T, IsFiniteSet(T), NEW f, \A x \in T : f[x] \in Nat
  PROVE  SumFunctionOnSet(f, T) \in Nat
<1> DEFINE P == {s \in SUBSET T : SumFunctionOnSet(f, s) \in Nat}
<1>1. {} \in P
  BY SumOfNone
<1>2. ASSUME NEW s \in SUBSET T, NEW x \in s, s \ {x} \in P PROVE s \in P
  <2>1. IsFiniteSet(s)
    BY SubsetFinite
  <2>2. SumFunctionOnSet(f, s) = f[x] + SumFunctionOnSet(f, s \ {x})
    BY <2>1, SumTakes
  <2> QED
    BY <1>2, <2>2
<1>3. T \in P
  <2> HIDE DEF P
  <2> QED
    BY <1>1, <1>2, FiniteSetGrows
<1> QED
  BY <1>3

LEMMA SumOfZeros ==
  ASSUME NEW T, IsFiniteSet(T), NEW f, \A x \in T : f[x] = 0
  PROVE  SumFunctionOnSet(f, T) = 0
<1> DEFINE P == {s \in SUBSET T : SumFunctionOnSet(f, s) = 0}
<1>1. {} \in P
  BY SumOfNone
<1>2. ASSUME NEW s \in SUBSET T, NEW x \in s, s \ {x} \in P PROVE s \in P
  <2>1. IsFiniteSet(s)
    BY SubsetFinite
  <2>2. SumFunctionOnSet(f, s) = f[x] + SumFunctionOnSet(f, s \ {x})
    BY <2>1, SumTakes
  <2> QED
    BY <1>2, <2>2
<1>3. T \in P
  <2> HIDE DEF P
  <2> QED
    BY <1>1, <1>2, FiniteSetGrows
<1> QED
  BY <1>3
=============================================================================

----------------------------- MODULE DifrProofs -----------------------------
(***************************************************************************)
(* The recomputation and the server that logs it, for every model,         *)
(* vocabulary, window, prompt and claim, and any number of threads,        *)
(* sessions, verifications and restarts.                                   *)
(***************************************************************************)
EXTENDS DifrServer, SetInduction, SequenceTheorems

-----------------------------------------------------------------------------
(* What the verifier's batched pass finds: the total deviation is zero     *)
(* exactly for the output the prover's loop generates under the same seed. *)

Windows == [1..ContextLen -> Vocab]
\* One score is the highest.
HasTop(scores) ==
  /\ scores \in [Vocab -> Int]
  /\ \E t \in Vocab : \A u \in Vocab \ {t} : scores[u] < scores[t]

LEMMA TopIsTop ==
  ASSUME NEW scores, HasTop(scores)
  PROVE  /\ Top(scores) \in Vocab
         /\ \A u \in Vocab \ {Top(scores)} : scores[u] < scores[Top(scores)]
<1>1. PICK t \in Vocab : \A u \in Vocab \ {t} : scores[u] < scores[t]
  BY DEF HasTop
<1>2. \A u \in Vocab : scores[u] <= scores[t]
  <2>1. ASSUME NEW u \in Vocab PROVE scores[u] <= scores[t]
    <3>1. scores[u] \in Int /\ scores[t] \in Int
      BY DEF HasTop
    <3>2. CASE u = t
      BY <3>1, <3>2
    <3>3. CASE u # t
      BY <1>1, <3>1, <3>3
    <3> QED
      BY <3>2, <3>3
  <2> QED
    BY <2>1
<1>3. Top(scores) \in Vocab /\ \A u \in Vocab : scores[u] <= scores[Top(scores)]
  BY <1>2 DEF Top
<1>4. Top(scores) = t
  <2>1. scores[t] <= scores[Top(scores)]
    BY <1>3
  <2>2. scores[t] \in Int /\ scores[Top(scores)] \in Int
    BY <1>3 DEF HasTop
  <2> QED
    BY <1>1, <1>3, <2>1, <2>2
<1> QED
  BY <1>1, <1>4

\* One token deviates by nothing exactly when it is the verifier's own choice,
\* and then it is not clipped.
LEMMA TokenDeviation ==
  ASSUME NEW scores, HasTop(scores), NEW c \in Vocab
  PROVE  /\ PerToken(scores, c).deviation \in Nat
         /\ PerToken(scores, c).deviation = 0 <=> c = Top(scores)
         /\ c = Top(scores) => ~ PerToken(scores, c).clipped
<1> DEFINE top == Top(scores)
           above == {u \in Vocab : scores[u] > scores[c]}
           raw == scores[top] - scores[c]
<1>1. top \in Vocab /\ \A u \in Vocab \ {top} : scores[u] < scores[top]
  BY TopIsTop
<1>2. scores[top] \in Int /\ scores[c] \in Int /\ \A u \in Vocab : scores[u] \in Int
  BY <1>1 DEF HasTop
<1>3. TOP_K \in Nat \ {0} /\ DELTA_MAX \in Nat \ {0}
  BY DifrAssumption
<1>4. PerToken(scores, c) =
        IF Cardinality(above) < TOP_K
        THEN [deviation |-> IF raw < DELTA_MAX THEN raw ELSE DELTA_MAX, clipped |-> raw >= DELTA_MAX]
        ELSE [deviation |-> DELTA_MAX, clipped |-> TRUE]
  BY DEF PerToken
<1>5. CASE c = top
  <2>1. above = {}
    <3>1. ASSUME NEW u \in Vocab PROVE ~ (scores[u] > scores[c])
      <4>1. u = top \/ scores[u] < scores[top]
        BY <1>1
      <4>2. scores[u] \in Int
        BY <1>2
      <4> QED
        BY <1>2, <1>5, <4>1, <4>2
    <3> QED
      BY <3>1
  <2>2. Cardinality(above) = 0
    BY <2>1, FS_EmptySet, Zenon
  <2>3. raw = 0
    BY <1>2, <1>5
  <2> HIDE DEF above, raw
  <2>4. PerToken(scores, c) =
          [deviation |-> IF raw < DELTA_MAX THEN raw ELSE DELTA_MAX, clipped |-> raw >= DELTA_MAX]
    BY <1>3, <1>4, <2>2
  <2>5. PerToken(scores, c).deviation = 0
    BY <1>3, <2>3, <2>4
  <2>6. ~ (raw >= DELTA_MAX)
    BY <1>3, <2>3
  <2>7. ~ PerToken(scores, c).clipped
    <3> DEFINE dev == IF raw < DELTA_MAX THEN raw ELSE DELTA_MAX
               big == raw >= DELTA_MAX
    <3>1. PerToken(scores, c) = [deviation |-> dev, clipped |-> big] /\ ~ big
      BY <2>4, <2>6
    <3> HIDE DEF dev, big
    <3> QED
      BY <3>1
  <2> HIDE DEF top
  <2>8. c = top
    BY <1>5
  <2> QED
    BY <2>5, <2>7, <2>8 DEF top
<1>6. CASE c # top
  <2>1. raw \in Nat \ {0}
    <3>1. scores[c] < scores[top]
      BY <1>1, <1>6
    <3> QED
      BY <1>2, <3>1
  <2> HIDE DEF above, raw
  <2>2. PerToken(scores, c).deviation \in {raw, DELTA_MAX}
    BY <1>4
  <2> QED
    BY <1>3, <1>6, <2>1, <2>2
<1> QED
  BY <1>5, <1>6

-----------------------------------------------------------------------------
(* Windows *)

LEMMA WindowIsWindow ==
  ASSUME NEW s \in Seq(Vocab), Len(s) <= ContextLen
  PROVE  LeftPad(s) \in Windows
<1>1. ContextLen \in Nat /\ 0 \in Vocab
  BY DifrAssumption
<1>2. ASSUME NEW i \in 1..ContextLen, ~ (i <= ContextLen - Len(s))
      PROVE  s[i - (ContextLen - Len(s))] \in Vocab
  <2>1. i - (ContextLen - Len(s)) \in 1..Len(s)
    BY <1>1, <1>2
  <2> QED
    BY <2>1
<1> QED
  BY <1>1, <1>2 DEF LeftPad, Windows

LEMMA LastTokensFit ==
  ASSUME NEW s \in Seq(Vocab)
  PROVE  LastTokens(s) \in Seq(Vocab) /\ Len(LastTokens(s)) <= ContextLen
BY DifrAssumption DEF LastTokens

\* The slice the verifier cuts out of the whole sequence is the window the prover
\* saw when the sequence ended there.
LEMMA SameWindow ==
  ASSUME NEW full \in Seq(Vocab), NEW seen \in Seq(Vocab),
         Len(seen) <= Len(full), \A j \in 1..Len(seen) : seen[j] = full[j]
  PROVE  Context(full, Len(seen)) = LeftPad(LastTokens(seen))
<1> DEFINE m == Len(seen)
           start == IF m > ContextLen THEN m - ContextLen + 1 ELSE 1
<1>1. ContextLen \in Nat \ {0} /\ m \in Nat
  BY DifrAssumption
<1>2. LastTokens(seen) = SubSeq(seen, start, m)
  <2>1. CASE m <= ContextLen
    <3>1. SubSeq(seen, 1, m) = seen
      BY <1>1
    <3>2. start = 1
      BY <1>1, <2>1
    <3>3. LastTokens(seen) = seen
      BY <2>1 DEF LastTokens
    <3> QED
      BY <3>1, <3>2, <3>3
  <2>2. CASE m > ContextLen
    <3>1. start = m - ContextLen + 1
      BY <1>1, <2>2
    <3>2. ~ (m <= ContextLen)
      BY <1>1, <2>2
    <3>3. LastTokens(seen) = SubSeq(seen, m - ContextLen + 1, m)
      BY <3>2 DEF LastTokens
    <3> QED
      BY <3>1, <3>3
  <2>3. m <= ContextLen \/ m > ContextLen
    BY <1>1
  <2> HIDE DEF start, m
  <2> QED
    BY <2>1, <2>2, <2>3
<1>3. SubSeq(full, start, m) = SubSeq(seen, start, m)
  <2>1. start \in 1..(m+1) /\ start \in Nat
    BY <1>1
  <2>2. \A j \in 1..(m + 1 - start) : j + start - 1 \in 1..m
    BY <1>1, <2>1
  <2> HIDE DEF start
  <2> QED
    BY <1>1, <2>1, <2>2
<1> QED
  BY <1>2, <1>3 DEF Context

-----------------------------------------------------------------------------
(* The sum of the deviations *)

LEMMA SumDef ==
  ASSUME NEW tokens, NEW n \in Nat, Len(tokens) = n
  PROVE  \E sum : /\ sum = [k \in 0..n |-> IF k = 0 THEN 0 ELSE sum[k-1] + tokens[k].deviation]
                  /\ Total(tokens) = sum[n]
<1> DEFINE Unrolls(f, m) == f = [k \in 0..m |-> IF k = 0 THEN 0 ELSE f[k-1] + tokens[k].deviation]
           P == {m \in 0..n : \E f : Unrolls(f, m)}
<1>1. 0 \in P
  <2> DEFINE g == [k \in 0..0 |-> 0]
  <2>1. Unrolls(g, 0)
    OBVIOUS
  <2> HIDE DEF g, Unrolls
  <2> QED
    BY <2>1, 0 \in 0..n
<1>2. ASSUME NEW m \in 0..(n-1), m \in P PROVE m+1 \in P
  <2>1. PICK f : Unrolls(f, m)
    BY <1>2
  <2> DEFINE g == [k \in 0..(m+1) |-> IF k <= m THEN f[k] ELSE f[m] + tokens[m+1].deviation]
  <2>2. ASSUME NEW k \in 0..(m+1)
        PROVE  g[k] = IF k = 0 THEN 0 ELSE g[k-1] + tokens[k].deviation
    <3>1. CASE k = m+1
      BY <3>1
    <3>2. CASE k <= m
      <4>1. f[k] = IF k = 0 THEN 0 ELSE f[k-1] + tokens[k].deviation
        BY <2>1, <3>2
      <4> QED
        BY <4>1, <3>2
    <3> QED
      BY <3>1, <3>2
  <2>3. Unrolls(g, m+1)
    BY <2>2
  <2>4. m+1 \in 0..n
    BY <1>2
  <2> HIDE DEF g, Unrolls
  <2> QED
    BY <2>3, <2>4
<1>3. n \in P
  <2> HIDE DEF P
  <2> QED
    BY <1>1, <1>2, IntervalInduction, n \in 0..n
<1>4. PICK f : Unrolls(f, n)
  BY <1>3
<1> DEFINE sum == CHOOSE h : Unrolls(h, n)
<1>5. Unrolls(sum, n)
  <2> HIDE DEF Unrolls
  <2> QED
    BY <1>4
<1>6. Total(tokens) = sum[n]
  BY Zenon DEF Total
<1> HIDE DEF sum
<1> QED
  BY <1>5, <1>6

LEMMA TotalIsZero ==
  ASSUME NEW tokens, NEW n \in Nat, Len(tokens) = n,
         \A i \in 1..n : tokens[i].deviation \in Nat
  PROVE  /\ Total(tokens) \in Nat
         /\ Total(tokens) = 0 <=> \A i \in 1..n : tokens[i].deviation = 0
<1>1. PICK sum : /\ sum = [k \in 0..n |-> IF k = 0 THEN 0 ELSE sum[k-1] + tokens[k].deviation]
                 /\ Total(tokens) = sum[n]
  BY SumDef
<1> DEFINE P == {k \in 0..n : /\ sum[k] \in Nat
                              /\ sum[k] = 0 <=> \A i \in 1..k : tokens[i].deviation = 0}
<1>2. 0 \in P
  BY <1>1
<1>3. ASSUME NEW k \in 0..(n-1), k \in P PROVE k+1 \in P
  <2>1. sum[k+1] = sum[k] + tokens[k+1].deviation
    BY <1>1, <1>3
  <2>2. tokens[k+1].deviation \in Nat /\ sum[k] \in Nat /\ k+1 \in 1..n
    BY <1>3
  <2>3. sum[k+1] = 0 <=> sum[k] = 0 /\ tokens[k+1].deviation = 0
    BY <2>1, <2>2
  <2>4. (\A i \in 1..(k+1) : tokens[i].deviation = 0)
          <=> (\A i \in 1..k : tokens[i].deviation = 0) /\ tokens[k+1].deviation = 0
    <3>1. \A i : i \in 1..(k+1) <=> i \in 1..k \/ i = k+1
      BY <1>3
    <3> QED
      BY <3>1, Zenon
  <2>5. sum[k+1] \in Nat
    BY <2>1, <2>2
  <2> QED
    BY <1>3, <2>2, <2>3, <2>4, <2>5
<1>4. n \in P
  <2> HIDE DEF P
  <2> QED
    BY <1>2, <1>3, IntervalInduction, n \in 0..n
<1> QED
  BY <1>1, <1>4

-----------------------------------------------------------------------------
(* The prover's loop *)

LEMMA OutputsDef ==
  ASSUME NEW prompt, NEW seed, NEW T
  PROVE  Outputs(prompt, seed, T) =
           [k \in 0..MaxText |->
              IF k = 0 THEN <<>>
              ELSE Append(Outputs(prompt, seed, T)[k-1],
                          NextToken(prompt, Outputs(prompt, seed, T)[k-1], seed, T))]
<1> DEFINE After(out) == Append(out, NextToken(prompt, out, seed, T))
           Unrolls(f, m) == f = [k \in 0..m |-> IF k = 0 THEN <<>> ELSE After(f[k-1])]
           P == {m \in 0..MaxText : \E f : Unrolls(f, m)}
<1>0. MaxText \in Nat
  BY DifrAssumption
<1> HIDE DEF After
<1>1. 0 \in P
  <2> DEFINE g == [k \in 0..0 |-> <<>>]
  <2>1. Unrolls(g, 0)
    OBVIOUS
  <2>2. 0 \in 0..MaxText
    BY <1>0
  <2> HIDE DEF g, Unrolls
  <2> QED
    BY <2>1, <2>2
<1>2. ASSUME NEW m \in 0..(MaxText-1), m \in P PROVE m+1 \in P
  <2>1. PICK f : Unrolls(f, m)
    BY <1>2
  <2> DEFINE g == [k \in 0..(m+1) |-> IF k <= m THEN f[k] ELSE After(f[m])]
  <2>2. ASSUME NEW k \in 0..(m+1)
        PROVE  g[k] = IF k = 0 THEN <<>> ELSE After(g[k-1])
    <3>1. CASE k = m+1
      BY <1>0, <3>1
    <3>2. CASE k <= m
      <4>1. f[k] = IF k = 0 THEN <<>> ELSE After(f[k-1])
        BY <1>0, <2>1, <3>2
      <4> QED
        BY <1>0, <4>1, <3>2
    <3> QED
      BY <1>0, <3>1, <3>2
  <2>3. Unrolls(g, m+1)
    BY <2>2
  <2>4. m+1 \in 0..MaxText
    BY <1>0, <1>2
  <2> HIDE DEF g, Unrolls
  <2> QED
    BY <2>3, <2>4
<1>3. MaxText \in P
  <2>1. MaxText \in 0..MaxText
    BY <1>0
  <2> HIDE DEF P
  <2> QED
    BY <1>0, <1>1, <1>2, <2>1, IntervalInduction
<1>4. \E f : Unrolls(f, MaxText)
  BY <1>3
<1> QED
  BY <1>4, Zenon DEF Outputs, After

LEMMA NextTokenType ==
  ASSUME NEW prompt \in Seq(Vocab), Len(prompt) <= MaxText,
         NEW out \in Seq(Vocab), Len(out) <= MaxText,
         NEW seed \in Seeds, NEW T \in Temperatures
  PROVE  /\ NextToken(prompt, out, seed, T) \in Vocab
         /\ HasTop(Scores(LeftPad(LastTokens(prompt \o out)), seed, Len(prompt) + Len(out), T))
<1>1. prompt \o out \in Seq(Vocab)
  OBVIOUS
<1>2. LeftPad(LastTokens(prompt \o out)) \in Windows
  BY <1>1, LastTokensFit, WindowIsWindow
<1>3. Len(prompt) + Len(out) \in 0..(2 * MaxText)
  BY DifrAssumption
<1> DEFINE window == LeftPad(LastTokens(prompt \o out))
           pos == Len(prompt) + Len(out)
<1> HIDE DEF window, pos
<1>4. HasTop(Scores(window, seed, pos, T))
  BY <1>2, <1>3, ScoresAssumption DEF HasTop, Windows, window, pos
<1>5. Top(Scores(window, seed, pos, T)) \in Vocab
  BY <1>4, TopIsTop
<1> QED
  BY <1>4, <1>5 DEF window, pos, NextToken, sample_token

\* The loop's output after n turns: n tokens, each the choice after those before it.
LEMMA GenerateIs ==
  ASSUME NEW prompt \in Seq(Vocab), Len(prompt) <= MaxText,
         NEW seed \in Seeds, NEW T \in Temperatures
  PROVE  /\ generate(prompt, seed, T, 0) = <<>>
         /\ \A n \in 0..MaxText : generate(prompt, seed, T, n) \in Seq(Vocab)
                                  /\ Len(generate(prompt, seed, T, n)) = n
         /\ \A n \in 0..(MaxText-1) :
              generate(prompt, seed, T, n+1) =
                Append(generate(prompt, seed, T, n),
                       NextToken(prompt, generate(prompt, seed, T, n), seed, T))
<1> DEFINE out == Outputs(prompt, seed, T)
           next(o) == NextToken(prompt, o, seed, T)
           P == {n \in 0..MaxText : out[n] \in Seq(Vocab) /\ Len(out[n]) = n}
<1>0. MaxText \in Nat
  BY DifrAssumption
<1>1. out = [k \in 0..MaxText |-> IF k = 0 THEN <<>> ELSE Append(out[k-1], next(out[k-1]))]
  BY OutputsDef
<1>2. \A o \in Seq(Vocab) : Len(o) <= MaxText => next(o) \in Vocab
  BY NextTokenType
<1> HIDE DEF out, next
<1>3. out[0] = <<>>
  BY <1>0, <1>1
<1>4. \A n \in 0..(MaxText-1) : out[n+1] = Append(out[n], next(out[n]))
  BY <1>0, <1>1, SMTT(20)
<1>5. 0 \in P
  <2>1. <<>> \in Seq(Vocab) /\ Len(<<>>) = 0 /\ 0 \in 0..MaxText
    BY <1>0
  <2> QED
    BY <1>3, <2>1
<1>6. ASSUME NEW n \in 0..(MaxText-1), n \in P PROVE n+1 \in P
  <2>1. out[n] \in Seq(Vocab) /\ Len(out[n]) = n /\ n <= MaxText /\ n+1 \in 0..MaxText
    BY <1>0, <1>6
  <2>2. next(out[n]) \in Vocab
    BY <1>2, <2>1
  <2>3. out[n+1] = Append(out[n], next(out[n]))
    BY <1>4
  <2> DEFINE o == out[n]
             t == next(out[n])
  <2>4. o \in Seq(Vocab) /\ Len(o) = n /\ t \in Vocab /\ out[n+1] = Append(o, t)
    BY <2>1, <2>2, <2>3
  <2> HIDE DEF o, t
  <2>5. Append(o, t) \in Seq(Vocab) /\ Len(Append(o, t)) = n+1
    BY <2>4
  <2> QED
    BY <2>1, <2>4, <2>5
<1>7. \A n \in 0..MaxText : n \in P
  <2> HIDE DEF P
  <2> QED
    BY <1>0, <1>5, <1>6, IntervalInduction
<1> QED
  BY <1>3, <1>4, <1>7 DEF out, next, generate

\* The score of the claimed token at position i is computed in the window the
\* prover would have seen after the claimed tokens before it.
LEMMA PerTokenIs ==
  ASSUME NEW prompt \in Seq(Vocab), Len(prompt) <= MaxText,
         NEW claimed \in Seq(Vocab), Len(claimed) <= MaxText,
         NEW seed \in Seeds, NEW T \in Temperatures, NEW i \in 1..Len(claimed)
  PROVE  LET token == per_token(prompt, claimed, seed, T)[i]
             choice == NextToken(prompt, SubSeq(claimed, 1, i-1), seed, T)
         IN  /\ token.deviation \in Nat
             /\ token.deviation = 0 <=> claimed[i] = choice
             /\ claimed[i] = choice => ~ token.clipped
<1> DEFINE full == prompt \o claimed
           before == SubSeq(claimed, 1, i-1)
           seen == prompt \o before
           scores == Scores(LeftPad(LastTokens(seen)), seed, Len(prompt) + Len(before), T)
<1>1. /\ before \in Seq(Vocab) /\ Len(before) = i-1 /\ Len(before) <= MaxText
      /\ \A j \in 1..(i-1) : before[j] = claimed[j]
  BY DifrAssumption
<1>2. full \in Seq(Vocab) /\ Len(full) = Len(prompt) + Len(claimed)
  OBVIOUS
<1> HIDE DEF before
<1>3. seen \in Seq(Vocab) /\ Len(seen) = Len(prompt) + i - 1 /\ Len(seen) <= Len(full)
  BY <1>1, <1>2, SMTT(20)
<1>4. ASSUME NEW j \in 1..Len(seen) PROVE seen[j] = full[j]
  <2>1. CASE j <= Len(prompt)
    BY <1>1, <1>3, <2>1
  <2>2. CASE j > Len(prompt)
    <3>1. j - Len(prompt) \in 1..(i-1) /\ j \in 1..Len(full)
      BY <1>3, <1>2, <2>2
    <3>2. seen[j] = before[j - Len(prompt)] /\ full[j] = claimed[j - Len(prompt)]
      BY <1>1, <1>2, <1>3, <2>2, <3>1
    <3> QED
      BY <1>1, <3>1, <3>2
  <2> QED
    BY <1>3, <2>1, <2>2
<1>5. Context(full, Len(prompt) + i - 1) = LeftPad(LastTokens(seen))
  <2> HIDE DEF seen, full
  <2> QED
    BY <1>2, <1>3, <1>4, SameWindow
<1>6. HasTop(scores)
  BY <1>1, NextTokenType
<1>7. per_token(prompt, claimed, seed, T)[i] = PerToken(scores, claimed[i])
  <2>1. Len(prompt) + i - 1 = Len(prompt) + Len(before)
    BY <1>1
  <2>2. per_token(prompt, claimed, seed, T)[i] =
          PerToken(Scores(Context(full, Len(prompt) + i - 1), seed, Len(prompt) + i - 1, T), claimed[i])
    BY DEF per_token
  <2> QED
    BY <1>5, <2>1, <2>2, Zenon
<1>8. NextToken(prompt, before, seed, T) = Top(scores)
  BY DEF NextToken, sample_token
<1>9. claimed[i] \in Vocab
  OBVIOUS
<1> HIDE DEF scores
<1> QED
  BY <1>6, <1>7, <1>8, <1>9, TokenDeviation DEF before

\* A claim has no deviation exactly when it is what the prover's loop generates
\* from the same prompt, seed and temperature; then no token of it is clipped.
THEOREM ZeroIsGenerated ==
  ASSUME NEW prompt \in Seq(Vocab), Len(prompt) <= MaxText,
         NEW claimed \in Seq(Vocab), Len(claimed) <= MaxText,
         NEW seed \in Seeds, NEW T \in Temperatures
  PROVE  LET r == Recompute(prompt, claimed, seed, T)
         IN  /\ r.total \in Nat
             /\ r.total = 0 <=> claimed = generate(prompt, seed, T, Len(claimed))
             /\ r.total = 0 => ~ r.any_clipped
<1> DEFINE n == Len(claimed)
           tokens == per_token(prompt, claimed, seed, T)
           gen(k) == generate(prompt, seed, T, k)
           choice(o) == NextToken(prompt, o, seed, T)
           upto(k) == SubSeq(claimed, 1, k)
           r == Recompute(prompt, claimed, seed, T)
<1>1. n \in Nat /\ MaxText \in Nat /\ n <= MaxText
  BY DifrAssumption
<1>2. Len(tokens) = n
  BY DEF per_token
<1>3. \A i \in 1..n : /\ tokens[i].deviation \in Nat
                      /\ tokens[i].deviation = 0 <=> claimed[i] = choice(upto(i-1))
                      /\ claimed[i] = choice(upto(i-1)) => ~ tokens[i].clipped
  BY PerTokenIs
<1>4. /\ gen(0) = <<>>
      /\ \A k \in 0..MaxText : gen(k) \in Seq(Vocab) /\ Len(gen(k)) = k
      /\ \A k \in 0..(MaxText-1) : gen(k+1) = Append(gen(k), choice(gen(k)))
  BY GenerateIs
<1>5. /\ r.total = Total(tokens)
      /\ r.any_clipped <=> \E i \in 1..n : tokens[i].clipped
  <2> HIDE DEF tokens
  <2> QED
    BY DEF Recompute, tokens
<1> HIDE DEF gen, choice, tokens
<1>6. /\ Total(tokens) \in Nat
      /\ Total(tokens) = 0 <=> \A i \in 1..n : tokens[i].deviation = 0
  BY <1>1, <1>2, <1>3, TotalIsZero
<1>7. ASSUME \A i \in 1..n : claimed[i] = choice(upto(i-1))
      PROVE  claimed = gen(n)
  <2> DEFINE P == {k \in 0..n : upto(k) = gen(k)}
  <2>1. 0 \in P
    BY <1>1, <1>4
  <2>2. ASSUME NEW k \in 0..(n-1), k \in P PROVE k+1 \in P
    <3>1. k+1 \in 1..n /\ k \in 0..(MaxText-1) /\ (k+1) - 1 = k
      BY <1>1, <2>2
    <3>2. upto(k+1) = Append(upto(k), claimed[k+1])
      BY <1>1, <3>1
    <3>3. claimed[k+1] = choice(upto(k))
      BY <1>7, <3>1
    <3>4. upto(k) = gen(k)
      BY <2>2
    <3>5. upto(k+1) = gen(k+1)
      <4> HIDE DEF upto
      <4> QED
        BY <1>4, <3>1, <3>2, <3>3, <3>4
    <3> QED
      BY <1>1, <3>1, <3>5
  <2>3. n \in P
    <3> HIDE DEF P
    <3> QED
      BY <1>1, <2>1, <2>2, IntervalInduction, n \in 0..n
  <2>4. upto(n) = claimed
    OBVIOUS
  <2> QED
    BY <2>3, <2>4
<1>8. ASSUME claimed = gen(n)
      PROVE  \A i \in 1..n : claimed[i] = choice(upto(i-1))
  <2> DEFINE P == {k \in 0..n : upto(n - k) = gen(n - k)}
  <2>1. upto(n) = claimed
    OBVIOUS
  <2>2. 0 \in P
    BY <1>1, <1>8, <2>1
  <2>3. ASSUME NEW k \in 0..(n-1), k \in P PROVE k+1 \in P
    <3> DEFINE m == n - k - 1
    <3>1. m \in 0..(n-1) /\ n - k = m + 1 /\ n - (k+1) = m /\ m \in 0..(MaxText-1) /\ m \in 0..MaxText
      BY <1>1
    <3>2. gen(m+1) = Append(gen(m), choice(gen(m))) /\ gen(m) \in Seq(Vocab) /\ Len(gen(m)) = m
      BY <1>4, <3>1
    <3>3. upto(m+1) = gen(m+1)
      BY <2>3, <3>1
    <3> HIDE DEF m
    <3>4. upto(m) = SubSeq(upto(m+1), 1, m)
      BY <1>1, <3>1
    <3>5. SubSeq(gen(m+1), 1, m) = gen(m)
      <4> DEFINE g == gen(m)
                 c == choice(gen(m))
      <4>1. g \in Seq(Vocab) /\ Len(g) = m /\ gen(m+1) = Append(g, c)
        BY <3>2
      <4> HIDE DEF g, c
      <4>2. SubSeq(Append(g, c), 1, m) = g
        BY <3>1, <4>1
      <4> QED
        BY <4>1, <4>2 DEF g
    <3>6. upto(m) = gen(m)
      BY <3>3, <3>4, <3>5
    <3>7. k+1 \in 0..n
      BY <1>1
    <3> QED
      BY <3>1, <3>6, <3>7
  <2>4. \A k \in 0..n : k \in P
    <3> HIDE DEF P
    <3> QED
      BY <1>1, <2>2, <2>3, IntervalInduction
  <2>5. \A j \in 0..n : upto(j) = gen(j)
    <3>1. ASSUME NEW j \in 0..n PROVE upto(j) = gen(j)
      <4>1. n - j \in 0..n /\ n - (n - j) = j
        BY <1>1
      <4> QED
        BY <2>4, <4>1
    <3> QED
      BY <3>1
  <2>6. ASSUME NEW i \in 1..n PROVE claimed[i] = choice(upto(i-1))
    <3>1. i-1 \in 0..(MaxText-1) /\ i-1 \in 0..MaxText /\ i-1 \in 0..n /\ i \in 0..n /\ (i-1)+1 = i
      BY <1>1
    <3>2. upto(i) = Append(gen(i-1), choice(gen(i-1))) /\ Len(gen(i-1)) = i-1
                    /\ gen(i-1) \in Seq(Vocab)
      BY <1>4, <2>5, <3>1
    <3>3. upto(i)[i] = claimed[i]
      BY <1>1, <3>1
    <3>4. upto(i)[i] = choice(gen(i-1))
      <4> DEFINE g == gen(i-1)
                 c == choice(gen(i-1))
                 u == upto(i)
      <4>1. u = Append(g, c) /\ Len(g) = i-1 /\ g \in Seq(Vocab)
        BY <3>2
      <4> HIDE DEF g, c, u
      <4>2. u[i] = c
        BY <3>1, <4>1
      <4> QED
        BY <4>2 DEF u, c
    <3>5. upto(i-1) = gen(i-1)
      BY <2>5, <3>1
    <3> QED
      BY <3>3, <3>4, <3>5
  <2> QED
    BY <2>6
<1>9. (\A i \in 1..n : tokens[i].deviation = 0) <=> claimed = gen(n)
  <2> HIDE DEF n, upto
  <2> QED
    BY <1>3, <1>7, <1>8
<1>10. (\A i \in 1..n : tokens[i].deviation = 0) => ~ \E i \in 1..n : tokens[i].clipped
  <2> HIDE DEF n, upto
  <2> QED
    BY <1>3
<1> HIDE DEF n, r
<1> QED
  BY <1>5, <1>6, <1>9, <1>10 DEF gen, r, n

-----------------------------------------------------------------------------
(* The server *)

SessionRows == [prompt : Texts, issued_seed : Seeds, temperature : Temperatures]

\* A row whose verdict its figures do not gainsay.
Supported(row) ==
  /\ row.avg_deviation \in Nat /\ row.tau_used \in Nat
  /\ row.passed => row.avg_deviation <= row.tau_used
  /\ ~ row.passed => row.tau_used <= row.avg_deviation

\* A verdict's row that does the prover justice.
JustRow(row) ==
  /\ Supported(row)
  /\ row.session_id \in DOMAIN sessions
  /\ row.claimed_output = Served(sessions[row.session_id], Len(row.claimed_output)) =>
       row.passed /\ ~ row.any_token_clipped /\ row.avg_deviation = 0

\* A recomputation that does: `sessions` is what it was taken from.
JustResult(x) ==
  /\ x.session_id \in DOMAIN sessions
  /\ x.result.total = 0
       <=> x.claimed_output = Served(sessions[x.session_id], Len(x.claimed_output))
  /\ x.result.total = 0 => ~ x.result.any_clipped
  /\ x.result.n_tokens \in Nat /\ x.result.total \in Nat

\* What a thread may hold between two steps.
HoldsSession(x) ==
  /\ x.at = "commit session"
  /\ x.id \in 1..session_serial /\ x.id \notin DOMAIN sessions
  /\ x.row \in SessionRows
HoldsResult(x) == x.at = "log" /\ JustResult(x)
HoldsVerdict(x) ==
  /\ x.at = "commit verification"
  /\ x.id \in 1..verification_serial /\ x.id \notin DOMAIN verifications
  /\ JustRow(x.row) /\ x.row.tau_used = REAL(TAU, 1)
HoldsAnswer(x) ==
  /\ x.at = "answer"
  /\ x.id \in DOMAIN verifications /\ verifications[x.id] = x.row
  /\ x.row.tau_used = REAL(TAU, 1)

Holds(x) == x = Idle \/ HoldsSession(x) \/ HoldsResult(x) \/ HoldsVerdict(x) \/ HoldsAnswer(x)

TablesOK ==
  /\ session_serial \in Nat /\ verification_serial \in Nat /\ TAU \in Nat
  /\ DOMAIN sessions \subseteq 1..session_serial
  /\ DOMAIN verifications \subseteq 1..verification_serial
  /\ \A id \in DOMAIN sessions : sessions[id] \in SessionRows
  /\ \A id \in DOMAIN verifications : JustRow(verifications[id])

\* No two threads commit under one id.
IdsApart ==
  \A v, w \in Workers :
    /\ v # w
    /\ worker[v].at = worker[w].at
    /\ worker[v].at \in {"commit session", "commit verification"}
    => worker[v].id # worker[w].id

WorkersOK ==
  /\ worker = [w \in Workers |-> worker[w]]
  /\ \A w \in Workers : Holds(worker[w])
  /\ IdsApart

AnswerOK(a) ==
  \/ /\ a.kind = "output"
     /\ a.id \in DOMAIN sessions
     /\ a.output \in Texts
     /\ a.output = Served(sessions[a.id], Len(a.output))
  \/ /\ a.kind = "verdict"
     /\ a.id \in DOMAIN verifications
     /\ verifications[a.id].passed = a.passed
     /\ verifications[a.id].low_confidence = a.low_confidence
     /\ verifications[a.id].tau_used = REAL(a.tau_used, 1)

AnswersOK == \A a \in answers : AnswerOK(a)

IInv == TablesOK /\ WorkersOK /\ AnswersOK

-----------------------------------------------------------------------------
(* Text and tokens *)

LEMMA EncodeType ==
  ASSUME NEW text \in Texts, Known(text)
  PROVE  encode(text) \in Seq(Vocab) /\ Len(encode(text)) = Len(text) /\ Len(text) <= MaxText
<1>1. text \in Seq(Chars) /\ Len(text) \in Nat /\ Len(text) <= MaxText
  BY DEF Texts
<1>2. \A i \in 1..Len(text) : STOI[text[i]] \in Vocab
  BY ServerAssumption DEF Known
<1> QED
  BY <1>1, <1>2 DEF encode

LEMMA DecodeType ==
  ASSUME NEW tokens \in Seq(Vocab), Len(tokens) <= MaxText
  PROVE  decode(tokens) \in Texts /\ Len(decode(tokens)) = Len(tokens)
<1>1. \A i \in 1..Len(tokens) : ITOS[tokens[i]] \in Chars
  BY ServerAssumption
<1> QED
  BY <1>1 DEF decode, Texts

\* A text equals what tokens decode to exactly when it encodes to them.
LEMMA EncodeDecode ==
  ASSUME NEW text \in Texts, Known(text), NEW tokens \in Seq(Vocab), Len(tokens) = Len(text)
  PROVE  encode(text) = tokens <=> text = decode(tokens)
<1> DEFINE n == Len(text)
<1>1. /\ text \in Seq(Chars) /\ n \in Nat
      /\ encode(text) \in Seq(Vocab) /\ Len(encode(text)) = n
  BY EncodeType DEF Texts
<1>2. \A i \in 1..n : text[i] \in DOMAIN STOI /\ tokens[i] \in Vocab
  BY DEF Known
<1>3. \A i \in 1..n : STOI[text[i]] = tokens[i] <=> text[i] = ITOS[tokens[i]]
  <2>1. ASSUME NEW i \in 1..n PROVE STOI[text[i]] = tokens[i] <=> text[i] = ITOS[tokens[i]]
    <3>1. text[i] \in DOMAIN STOI /\ tokens[i] \in Vocab
      BY <1>2
    <3> QED
      BY <3>1, ServerAssumption
  <2> QED
    BY <2>1
<1>4. encode(text) = [i \in 1..n |-> STOI[text[i]]]
  BY DEF encode
<1>5. decode(tokens) = [i \in 1..n |-> ITOS[tokens[i]]]
  BY DEF decode
<1>6. text = [i \in 1..n |-> text[i]] /\ tokens = [i \in 1..n |-> tokens[i]]
  BY <1>1
<1> HIDE DEF n
<1> QED
  BY <1>3, <1>4, <1>5, <1>6

\* What the prover serves is a text of the asked length.
LEMMA ServedType ==
  ASSUME NEW s \in SessionRows, Known(s.prompt), NEW n \in 0..MaxText
  PROVE  Served(s, n) \in Texts /\ Len(Served(s, n)) = n
<1> DEFINE out == generate(encode(s.prompt), s.issued_seed, s.temperature, n)
<1>1. s.prompt \in Texts /\ s.issued_seed \in Seeds /\ s.temperature \in Temperatures
  BY DEF SessionRows
<1>2. encode(s.prompt) \in Seq(Vocab) /\ Len(encode(s.prompt)) <= MaxText
  BY <1>1, EncodeType
<1>3. out \in Seq(Vocab) /\ Len(out) = n
  BY <1>1, <1>2, GenerateIs
<1> HIDE DEF out
<1>4. n <= MaxText
  BY DifrAssumption
<1> QED
  BY <1>3, <1>4, DecodeType DEF Served, out

\* The recomputation of a claim for a session.
LEMMA ResultIsJust ==
  ASSUME NEW s \in SessionRows, Known(s.prompt), NEW claimed \in Texts, Known(claimed)
  PROVE  LET r == Recompute(encode(s.prompt), encode(claimed), s.issued_seed, s.temperature)
         IN  /\ r.total = 0 <=> claimed = Served(s, Len(claimed))
             /\ r.total = 0 => ~ r.any_clipped
             /\ r.n_tokens \in Nat /\ r.total \in Nat
<1> DEFINE p == encode(s.prompt)
           c == encode(claimed)
           r == Recompute(p, c, s.issued_seed, s.temperature)
           out == generate(p, s.issued_seed, s.temperature, Len(claimed))
<1>1. s.prompt \in Texts /\ s.issued_seed \in Seeds /\ s.temperature \in Temperatures
  BY DEF SessionRows
<1>2. p \in Seq(Vocab) /\ Len(p) <= MaxText
  BY <1>1, EncodeType
<1>3. c \in Seq(Vocab) /\ Len(c) = Len(claimed) /\ Len(claimed) <= MaxText
  BY EncodeType
<1> HIDE DEF p, c
<1>4. r.total = 0 <=> c = out
  BY <1>1, <1>2, <1>3, ZeroIsGenerated
<1>5. r.total \in Nat /\ (r.total = 0 => ~ r.any_clipped)
  BY <1>1, <1>2, <1>3, ZeroIsGenerated
<1>6. r.n_tokens = Len(c) /\ Len(c) \in Nat
  BY <1>3 DEF Recompute
<1>7. out \in Seq(Vocab) /\ Len(out) = Len(claimed)
  <2>1. Len(claimed) \in 0..MaxText
    BY <1>3, DifrAssumption
  <2> QED
    BY <1>1, <1>2, <2>1, GenerateIs
<1> HIDE DEF out
<1>8. c = out <=> claimed = decode(out)
  BY <1>7, EncodeDecode DEF c
<1>9. Served(s, Len(claimed)) = decode(out)
  BY DEF Served, out, p
<1> HIDE DEF r
<1> QED
  BY <1>4, <1>5, <1>6, <1>8, <1>9 DEF r, p, c

-----------------------------------------------------------------------------
(* The invariant *)

LEMMA InitIInv == Init => IInv
<1> SUFFICES ASSUME Init PROVE IInv
  OBVIOUS
<1>1. TablesOK
  <2>1. DOMAIN sessions = {} /\ DOMAIN verifications = {}
    BY DEF Init
  <2> QED
    BY <2>1, ServerAssumption DEF Init, TablesOK
<1>2. WorkersOK
  <2>1. worker = [w \in Workers |-> worker[w]] /\ \A w \in Workers : worker[w] = Idle
    BY DEF Init
  <2>2. \A w \in Workers : worker[w].at = "idle"
    BY <2>1 DEF Idle
  <2>3. IdsApart
    BY <2>2 DEF IdsApart
  <2> QED
    BY <2>1, <2>3, Zenon DEF WorkersOK, Holds
<1>3. AnswersOK
  BY DEF Init, AnswersOK
<1> QED
  BY <1>1, <1>2, <1>3 DEF IInv

\* Tables that only grow, under a TAU that stays, leave what threads hold and what
\* clients were told as good as they were.
Grows ==
  /\ \A id \in DOMAIN sessions : id \in DOMAIN sessions' /\ sessions'[id] = sessions[id]
  /\ \A id \in DOMAIN verifications :
       id \in DOMAIN verifications' /\ verifications'[id] = verifications[id]

LEMMA JustRowStays ==
  ASSUME Grows, NEW row, JustRow(row)
  PROVE  JustRow(row)'
BY DEF Grows, JustRow, Supported

LEMMA JustResultStays ==
  ASSUME Grows, NEW x, JustResult(x)
  PROVE  JustResult(x)'
BY DEF Grows, JustResult

LEMMA AnswerStays ==
  ASSUME Grows, NEW a, AnswerOK(a)
  PROVE  AnswerOK(a)'
BY DEF Grows, AnswerOK

LEMMA WhatIsHeld ==
  ASSUME NEW x, Holds(x)
  PROVE  /\ x.at = "commit session" => HoldsSession(x)
         /\ x.at = "log" => HoldsResult(x)
         /\ x.at = "commit verification" => HoldsVerdict(x)
         /\ x.at = "answer" => HoldsAnswer(x)
<1>1. x = Idle => x.at = "idle"
  BY DEF Idle
<1>2. HoldsSession(x) => x.at = "commit session"
  BY DEF HoldsSession
<1>3. HoldsResult(x) => x.at = "log"
  BY DEF HoldsResult
<1>4. HoldsVerdict(x) => x.at = "commit verification"
  BY DEF HoldsVerdict
<1>5. HoldsAnswer(x) => x.at = "answer"
  BY DEF HoldsAnswer
<1>6. /\ "idle" # "log" /\ "idle" # "commit session" /\ "idle" # "commit verification"
      /\ "idle" # "answer" /\ "log" # "commit session" /\ "log" # "commit verification"
      /\ "log" # "answer" /\ "commit session" # "commit verification"
      /\ "commit session" # "answer" /\ "commit verification" # "answer"
  OBVIOUS
<1> DEFINE at == x.at
<1> HIDE DEF at
<1>7. /\ x = Idle => at = "idle"
      /\ HoldsSession(x) => at = "commit session"
      /\ HoldsResult(x) => at = "log"
      /\ HoldsVerdict(x) => at = "commit verification"
      /\ HoldsAnswer(x) => at = "answer"
  BY <1>1, <1>2, <1>3, <1>4, <1>5 DEF at
<1>8. /\ at = "commit session" => HoldsSession(x)
      /\ at = "log" => HoldsResult(x)
      /\ at = "commit verification" => HoldsVerdict(x)
      /\ at = "answer" => HoldsAnswer(x)
  BY <1>6, <1>7, Zenon DEF Holds
<1> QED
  BY <1>8, Zenon DEF at

\* A thread in the middle of a transaction has an id that was handed out, and that
\* no row has yet.
LEMMA HeldIds ==
  ASSUME WorkersOK, NEW v \in Workers
  PROVE  /\ worker[v].at = "commit session" =>
              worker[v].id \in 1..session_serial /\ worker[v].id \notin DOMAIN sessions
         /\ worker[v].at = "commit verification" =>
              worker[v].id \in 1..verification_serial /\ worker[v].id \notin DOMAIN verifications
<1>1. Holds(worker[v])
  BY Zenon DEF WorkersOK
<1>2. /\ worker[v].at = "commit session" => HoldsSession(worker[v])
      /\ worker[v].at = "commit verification" => HoldsVerdict(worker[v])
  BY <1>1, WhatIsHeld, Zenon
<1> QED
  BY <1>2, Zenon DEF HoldsSession, HoldsVerdict

LEMMA AtMostItself ==
  ASSUME NEW n \in Nat
  PROVE  n <= n
OBVIOUS

LEMMA IdsGrow ==
  ASSUME NEW a \in Nat, NEW b \in Nat, a <= b
  PROVE  1..a \subseteq 1..b
OBVIOUS

\* A thread that does nothing, while another adds at most an id it does not hold.
LEMMA HoldsStays ==
  ASSUME Grows, TAU' = TAU,
         session_serial \in Nat, verification_serial \in Nat,
         session_serial' \in Nat, verification_serial' \in Nat,
         session_serial <= session_serial', verification_serial <= verification_serial',
         NEW x, Holds(x),
         x.at = "commit session" => x.id \notin DOMAIN sessions',
         x.at = "commit verification" => x.id \notin DOMAIN verifications'
  PROVE  Holds(x)'
<1>1. CASE x = Idle
  BY <1>1 DEF Holds
<1>2. CASE HoldsSession(x)
  <2>1. x.id \in 1..(session_serial')
    <3>1. x.id \in 1..session_serial
      BY <1>2 DEF HoldsSession
    <3>2. 1..session_serial \subseteq 1..(session_serial')
      BY IdsGrow
    <3> QED
      BY <3>1, <3>2, Zenon
  <2>2. HoldsSession(x)'
    BY <1>2, <2>1 DEF HoldsSession
  <2> QED
    BY <2>2, Zenon DEF Holds
<1>3. CASE HoldsResult(x)
  BY <1>3, JustResultStays, Zenon DEF Holds, HoldsResult
<1>4. CASE HoldsVerdict(x)
  <2>1. JustRow(x.row)'
    BY <1>4, JustRowStays DEF HoldsVerdict
  <2>2. x.id \in 1..(verification_serial')
    <3>1. x.id \in 1..verification_serial
      BY <1>4 DEF HoldsVerdict
    <3>2. 1..verification_serial \subseteq 1..(verification_serial')
      BY IdsGrow
    <3> QED
      BY <3>1, <3>2, Zenon
  <2>3. x.row.tau_used = REAL(TAU', 1)
    BY <1>4, Zenon DEF HoldsVerdict
  <2>4. HoldsVerdict(x)'
    BY <1>4, <2>1, <2>2, <2>3, Zenon DEF HoldsVerdict
  <2> QED
    BY <2>4, Zenon DEF Holds
<1>5. CASE HoldsAnswer(x)
  BY <1>5, Zenon DEF Holds, HoldsAnswer, Grows
<1> QED
  BY <1>1, <1>2, <1>3, <1>4, <1>5, Zenon
  DEF Holds

\* The step of one thread, w, which then holds x.
LEMMA WorkerStep ==
  ASSUME WorkersOK, Grows, TAU' = TAU,
         session_serial \in Nat, verification_serial \in Nat,
         session_serial' \in Nat, verification_serial' \in Nat,
         session_serial <= session_serial', verification_serial <= verification_serial',
         NEW w \in Workers, NEW x, worker' = [worker EXCEPT ![w] = x], Holds(x)',
         \A v \in Workers \ {w} :
           /\ worker[v].at = "commit session" => worker[v].id \notin DOMAIN sessions'
           /\ worker[v].at = "commit verification" => worker[v].id \notin DOMAIN verifications',
         \A v \in Workers \ {w} :
           x.at \in {"commit session", "commit verification"} /\ worker[v].at = x.at
             => worker[v].id # x.id
  PROVE  WorkersOK'
<1>1. /\ DOMAIN worker' = Workers
      /\ worker'[w] = x
      /\ \A v \in Workers \ {w} : worker'[v] = worker[v]
  BY DEF WorkersOK
<1>2. ASSUME NEW v \in Workers PROVE Holds(worker[v])'
  <2>1. CASE v = w
    BY <1>1, <2>1
  <2>2. CASE v # w
    <3> DEFINE y == worker[v]
    <3>1. Holds(y)
      BY DEF WorkersOK
    <3>2. /\ y.at = "commit session" => y.id \notin DOMAIN sessions'
          /\ y.at = "commit verification" => y.id \notin DOMAIN verifications'
      BY <2>2
    <3>3. worker'[v] = worker[v]
      BY <1>1, <2>2
    <3> QED
      BY <3>1, <3>2, <3>3, HoldsStays
  <2> QED
    BY <2>1, <2>2
<1>3. IdsApart'
  <2>1. IdsApart
    BY DEF WorkersOK
  <2>2. ASSUME NEW u \in Workers, NEW v \in Workers, u # v,
               worker'[u].at = worker'[v].at,
               worker'[u].at \in {"commit session", "commit verification"}
        PROVE  worker'[u].id # worker'[v].id
    <3>1. CASE u = w
      <4>1. worker'[u] = x /\ worker'[v] = worker[v] /\ v \in Workers \ {w}
        BY <1>1, <2>2, <3>1
      <4> QED
        BY <2>2, <4>1
    <3>2. CASE v = w
      <4>1. worker'[v] = x /\ worker'[u] = worker[u] /\ u \in Workers \ {w}
        BY <1>1, <2>2, <3>2
      <4> QED
        BY <2>2, <4>1
    <3>3. CASE u # w /\ v # w
      <4>1. worker'[v] = worker[v] /\ worker'[u] = worker[u]
        BY <1>1, <3>3
      <4> QED
        BY <2>1, <2>2, <4>1 DEF IdsApart
    <3> QED
      BY <3>1, <3>2, <3>3
  <2> QED
    BY <2>2 DEF IdsApart
<1>4. worker' = [v \in Workers |-> worker'[v]]
  BY DEF WorkersOK
<1> QED
  BY <1>2, <1>3, <1>4, Zenon DEF WorkersOK

LEMMA TablesStay ==
  ASSUME UNCHANGED tables
  PROVE  Grows /\ UNCHANGED <<sessions, verifications, session_serial, verification_serial>>
BY DEF Grows, tables

\* The rows stay, while serials may go up.
LEMMA TablesKept ==
  ASSUME TablesOK, UNCHANGED <<sessions, verifications>>, TAU' \in Nat,
         session_serial' \in Nat, verification_serial' \in Nat,
         DOMAIN sessions \subseteq 1..(session_serial'),
         DOMAIN verifications \subseteq 1..(verification_serial')
  PROVE  TablesOK'
<1>1. \A id \in DOMAIN sessions' : sessions'[id] \in SessionRows
  BY Zenon DEF TablesOK
<1>2. ASSUME NEW id \in DOMAIN verifications' PROVE JustRow(verifications[id])'
  <2>1. JustRow(verifications[id])
    BY Zenon DEF TablesOK
  <2> QED
    BY <2>1, Zenon DEF JustRow
<1> QED
  BY <1>1, <1>2, Zenon DEF TablesOK

LEMMA AnswersStay ==
  ASSUME AnswersOK, Grows, answers' = answers
  PROVE  AnswersOK'
<1>1. \A a \in answers : AnswerOK(a)'
  BY AnswerStays DEF AnswersOK
<1> QED
  BY <1>1 DEF AnswersOK, AnswerOK

LEMMA SessionsTyped ==
  ASSUME IInv, NEW id \in DOMAIN sessions
  PROVE  sessions[id] \in SessionRows
BY DEF IInv, TablesOK

-----------------------------------------------------------------------------
(* One lemma per action *)

LEMMA StartSessionStep ==
  ASSUME IInv, NEW w \in Workers, NEW req \in Requests, NEW seed \in Seeds,
         start_session(w, req, seed)
  PROVE  IInv'
<1>1. PICK n : n = session_serial + 1
  OBVIOUS
<1>2. PICK row : row =
        [prompt |-> req.prompt, issued_seed |-> seed, temperature |-> req.temperature]
  OBVIOUS
<1>3. PICK x : x = [at |-> "commit session", id |-> n, row |-> row]
  OBVIOUS
<1>4. x.at = "commit session" /\ x.id = n /\ x.row = row
  BY <1>3
<1>5. /\ worker' = [worker EXCEPT ![w] = x] /\ session_serial' = n
      /\ UNCHANGED <<sessions, verifications, verification_serial, TAU, answers>>
  BY <1>1, <1>2, <1>3 DEF start_session
<1>6. /\ session_serial \in Nat /\ verification_serial \in Nat /\ TAU \in Nat
      /\ DOMAIN sessions \subseteq 1..session_serial
      /\ DOMAIN verifications \subseteq 1..verification_serial
  BY DEF IInv, TablesOK
<1>7. Grows
  BY <1>5 DEF Grows
<1>8. row \in SessionRows
  <2>1. req \in [prompt : Texts, temperature : Temperatures]
    BY ServerAssumption
  <2> QED
    BY <1>2, <2>1 DEF SessionRows
<1>9. /\ n \in 1..n /\ n \in Nat /\ session_serial <= n
      /\ n \notin 1..session_serial /\ n \notin DOMAIN sessions
      /\ verification_serial <= verification_serial'
  BY <1>1, <1>5, <1>6
<1>10. TablesOK'
  <2>1. DOMAIN sessions \subseteq 1..n
    BY <1>1, <1>6
  <2> QED
    BY <1>5, <1>6, <1>9, <2>1, TablesKept, Zenon DEF IInv
<1>11. Holds(x)'
  <2>1. HoldsSession(x)'
    BY <1>4, <1>5, <1>8, <1>9, Zenon DEF HoldsSession
  <2> QED
    BY <2>1, Zenon DEF Holds
<1>12. ASSUME NEW v \in Workers \ {w}
       PROVE  /\ worker[v].at = "commit session" =>
                   worker[v].id \notin DOMAIN sessions' /\ worker[v].id # n
              /\ worker[v].at = "commit verification" => worker[v].id \notin DOMAIN verifications'
  BY <1>5, <1>9, HeldIds DEF IInv
<1>13. WorkersOK'
  <2>1. \A v \in Workers \ {w} :
          x.at \in {"commit session", "commit verification"} /\ worker[v].at = x.at
            => worker[v].id # x.id
    BY <1>4, <1>12
  <2>2. WorkersOK
    BY DEF IInv
  <2> QED
    BY <1>5, <1>6, <1>7, <1>9, <1>11, <1>12, <2>1, <2>2, WorkerStep
<1>14. AnswersOK'
  BY <1>5, <1>7, AnswersStay DEF IInv
<1> QED
  BY <1>10, <1>13, <1>14 DEF IInv

\* A thread that reads and writes no table.
LEMMA ReadingStep ==
  ASSUME IInv, UNCHANGED tables, TAU' = TAU, NEW w \in Workers, NEW x, Holds(x),
         x.at \notin {"commit session", "commit verification"},
         worker' = [worker EXCEPT ![w] = x]
  PROVE  TablesOK' /\ WorkersOK'
<1>1. Grows /\ UNCHANGED <<sessions, verifications, session_serial, verification_serial>>
  BY TablesStay
<1>2. /\ session_serial \in Nat /\ verification_serial \in Nat /\ TAU \in Nat
      /\ DOMAIN sessions \subseteq 1..session_serial
      /\ DOMAIN verifications \subseteq 1..verification_serial
  BY DEF IInv, TablesOK
<1>3. /\ session_serial' \in Nat /\ verification_serial' \in Nat
      /\ session_serial <= session_serial' /\ verification_serial <= verification_serial'
  <2>1. session_serial <= session_serial /\ verification_serial <= verification_serial
    BY <1>2, AtMostItself
  <2> QED
    BY <1>1, <1>2, <2>1, Zenon
<1>4. TablesOK'
  BY <1>1, <1>2, TablesKept, Zenon DEF IInv
<1>5. Holds(x)'
  <2>1. x.at # "commit session" /\ x.at # "commit verification"
    OBVIOUS
  <2> QED
    BY <1>1, <1>2, <1>3, <2>1, HoldsStays, Zenon
<1>6. ASSUME NEW v \in Workers \ {w}
      PROVE  /\ worker[v].at = "commit session" => worker[v].id \notin DOMAIN sessions'
             /\ worker[v].at = "commit verification" => worker[v].id \notin DOMAIN verifications'
  BY <1>1, HeldIds DEF IInv
<1>7. WorkersOK'
  <2>1. WorkersOK
    BY DEF IInv
  <2> QED
    BY <1>1, <1>2, <1>5, <1>6, <1>3, <2>1, WorkerStep, Zenon
<1> QED
  BY <1>4, <1>7

LEMMA RollbackStep ==
  ASSUME IInv, NEW w \in Workers, Rollback(w)
  PROVE  IInv'
<1>1. UNCHANGED tables /\ TAU' = TAU /\ answers' = answers /\ worker' = [worker EXCEPT ![w] = Idle]
  BY DEF Rollback
<1>2. Holds(Idle) /\ Idle.at \notin {"commit session", "commit verification"}
  BY DEF Holds, Idle
<1>3. TablesOK' /\ WorkersOK'
  BY <1>1, <1>2, ReadingStep
<1>4. AnswersOK'
  BY <1>1, TablesStay, AnswersStay DEF IInv
<1> QED
  BY <1>3, <1>4 DEF IInv

LEMMA GenerateStep ==
  ASSUME IInv, NEW w \in Workers, NEW id \in DOMAIN sessions, NEW n \in Lengths,
         prover_generate(w, id, n)
  PROVE  IInv'
<1>1. /\ UNCHANGED tables /\ TAU' = TAU /\ worker' = worker
      /\ worker[w] = Idle /\ Known(sessions[id].prompt)
      /\ answers' = answers \cup
           {[kind |-> "output", id |-> id, output |-> Served(sessions[id], n)]}
  BY DEF prover_generate
<1>2. Holds(Idle) /\ Idle.at \notin {"commit session", "commit verification"}
  BY DEF Holds, Idle
<1>3. worker' = [worker EXCEPT ![w] = Idle]
  BY <1>1 DEF IInv, WorkersOK
<1>4. TablesOK' /\ WorkersOK'
  BY <1>1, <1>2, <1>3, ReadingStep
<1>5. PICK text : text = Served(sessions[id], n)
  OBVIOUS
<1>6. PICK a : a = [kind |-> "output", id |-> id, output |-> text]
  OBVIOUS
<1>7. text \in Texts /\ Len(text) = n
  <2>1. n \in 0..MaxText
    BY ServerAssumption
  <2> QED
    BY <1>1, <1>5, <2>1, SessionsTyped, ServedType
<1>8. AnswerOK(a)
  <2>1. a.kind = "output" /\ a.id = id /\ a.output = text
    BY <1>6
  <2> QED
    BY <1>5, <1>7, <2>1, Zenon DEF AnswerOK
<1>9. AnswersOK'
  <2>1. Grows
    BY <1>1, TablesStay
  <2>2. answers' = answers \cup {a}
    BY <1>1, <1>5, <1>6
  <2>3. \A b \in answers : AnswerOK(b)'
    BY <2>1, AnswerStays DEF IInv, AnswersOK
  <2>4. AnswerOK(a)'
    BY <1>8, <2>1, AnswerStays
  <2> QED
    BY <2>2, <2>3, <2>4, Zenon DEF AnswersOK
<1> QED
  BY <1>4, <1>9 DEF IInv

LEMMA VerifyStep ==
  ASSUME IInv, NEW w \in Workers, NEW id \in DOMAIN sessions, NEW claimed \in Claimed,
         verify(w, id, claimed)
  PROVE  IInv'
<1>1. PICK s : s = sessions[id]
  OBVIOUS
<1>2. PICK r : r = Recompute(encode(s.prompt), encode(claimed), s.issued_seed, s.temperature)
  OBVIOUS
<1>3. PICK x : x =
        [at |-> "log", session_id |-> id, claimed_output |-> claimed, result |-> r]
  OBVIOUS
<1>4. /\ UNCHANGED tables /\ TAU' = TAU /\ answers' = answers
      /\ worker' = [worker EXCEPT ![w] = x]
      /\ Known(s.prompt) /\ Known(claimed)
  BY <1>1, <1>2, <1>3 DEF verify, Recomputed
<1>5. x.at = "log" /\ x.session_id = id /\ x.claimed_output = claimed /\ x.result = r
  BY <1>3
<1>6. claimed \in Texts
  <2>1. CASE claimed \in Claims
    BY <2>1, ServerAssumption
  <2>2. CASE \E a \in answers : a.kind = "output" /\ a.output = claimed
    BY <2>2 DEF IInv, AnswersOK, AnswerOK
  <2> QED
    BY <2>1, <2>2 DEF Claimed
<1>7. s \in SessionRows
  BY <1>1, SessionsTyped
<1>8. /\ r.total = 0 <=> claimed = Served(s, Len(claimed))
      /\ r.total = 0 => ~ r.any_clipped
      /\ r.n_tokens \in Nat /\ r.total \in Nat
  BY <1>2, <1>4, <1>6, <1>7, ResultIsJust
<1>9. Holds(x)
  <2>1. JustResult(x)
    BY <1>1, <1>5, <1>8, Zenon DEF JustResult
  <2> QED
    BY <1>5, <2>1, Zenon DEF Holds, HoldsResult
<1>10. TablesOK' /\ WorkersOK'
  BY <1>4, <1>5, <1>9, ReadingStep
<1>11. AnswersOK'
  BY <1>4, TablesStay, AnswersStay DEF IInv
<1> QED
  BY <1>10, <1>11 DEF IInv

LEMMA AnswerVerdictStep ==
  ASSUME IInv, NEW w \in Workers, AnswerVerdict(w)
  PROVE  IInv'
<1>1. PICK x : x = worker[w]
  OBVIOUS
<1>2. PICK a : a = [kind |-> "verdict", id |-> x.id, passed |-> x.row.passed,
                    low_confidence |-> x.row.low_confidence, tau_used |-> TAU]
  OBVIOUS
<1>3. /\ UNCHANGED tables /\ TAU' = TAU /\ worker' = [worker EXCEPT ![w] = Idle]
      /\ x.at = "answer" /\ answers' = answers \cup {a}
  BY <1>1, <1>2 DEF AnswerVerdict
<1>4. Holds(Idle) /\ Idle.at \notin {"commit session", "commit verification"}
  BY DEF Holds, Idle
<1>5. TablesOK' /\ WorkersOK'
  BY <1>3, <1>4, ReadingStep
<1>6. HoldsAnswer(x)
  BY <1>1, <1>3, WhatIsHeld DEF IInv, WorkersOK
<1>7. AnswerOK(a)
  <2>1. /\ a.kind = "verdict" /\ a.id = x.id /\ a.passed = x.row.passed
        /\ a.low_confidence = x.row.low_confidence /\ a.tau_used = TAU
    BY <1>2
  <2> QED
    BY <1>6, <2>1, Zenon DEF HoldsAnswer, AnswerOK
<1>8. AnswersOK'
  <2>1. Grows
    BY <1>3, TablesStay
  <2>2. \A b \in answers : AnswerOK(b)'
    BY <2>1, AnswerStays DEF IInv, AnswersOK
  <2>3. AnswerOK(a)'
    BY <1>7, <2>1, AnswerStays
  <2> QED
    BY <1>3, <2>2, <2>3, Zenon DEF AnswersOK
<1> QED
  BY <1>5, <1>8 DEF IInv

\* REAL never turns round the order that the verdict was given by.
LEMMA RealIsMonotone ==
  ASSUME NEW total \in Nat, NEW n \in Nat, NEW tau \in Nat, n # 0, total <= tau * n
  PROVE  REAL(total, n) \in Nat /\ REAL(total, n) <= tau * Digits
<1>1. Digits \in Nat \ {0}
  BY ServerAssumption
<1>2. PICK t : t = total * Digits
  OBVIOUS
<1>3. PICK c : c = tau * Digits
  OBVIOUS
<1>4. t \in Nat /\ c \in Nat
  BY <1>1, <1>2, <1>3
<1>5. t <= c * n
  <2>1. t <= (tau * n) * Digits
    BY <1>1, <1>2
  <2>2. (tau * n) * Digits = c * n
    BY <1>1, <1>3
  <2> QED
    BY <2>1, <2>2
<1>6. t \div n \in Nat /\ t \div n <= c
  BY <1>4, <1>5
<1> QED
  BY <1>2, <1>3, <1>6 DEF REAL

LEMMA RealIsMonotoneAbove ==
  ASSUME NEW total \in Nat, NEW n \in Nat, NEW tau \in Nat, n # 0, tau * n <= total
  PROVE  tau * Digits <= REAL(total, n)
<1>1. Digits \in Nat \ {0}
  BY ServerAssumption
<1>2. PICK t : t = total * Digits
  OBVIOUS
<1>3. PICK c : c = tau * Digits
  OBVIOUS
<1>4. t \in Nat /\ c \in Nat
  BY <1>1, <1>2, <1>3
<1>5. c * n <= t
  <2>1. (tau * n) * Digits <= t
    BY <1>1, <1>2
  <2>2. (tau * n) * Digits = c * n
    BY <1>1, <1>3
  <2> QED
    BY <2>1, <2>2
<1>6. c <= t \div n
  BY <1>4, <1>5
<1> QED
  BY <1>2, <1>3, <1>6 DEF REAL

LEMMA TauIsKept ==
  ASSUME TAU \in Nat
  PROVE  REAL(TAU, 1) = TAU * Digits /\ REAL(TAU, 1) \in Nat
<1>1. PICK c : c = TAU * Digits
  OBVIOUS
<1>2. c \in Nat
  BY <1>1, ServerAssumption
<1>3. c \div 1 = c
  BY <1>2
<1> QED
  BY <1>1, <1>2, <1>3 DEF REAL

LEMMA VerdictIsJust ==
  ASSUME NEW x, JustResult(x), TAU \in Nat
  PROVE  JustRow(VerdictRow(x, TAU)) /\ VerdictRow(x, TAU).tau_used = REAL(TAU, 1)
<1> DEFINE r == x.result
           n == r.n_tokens
           row == VerdictRow(x, TAU)
<1>1. /\ row.session_id = x.session_id /\ row.claimed_output = x.claimed_output
      /\ row.avg_deviation = REAL(r.total, n) /\ row.passed = avg_at_most(r, TAU)
      /\ row.any_token_clipped = r.any_clipped /\ row.tau_used = REAL(TAU, 1)
  BY DEF VerdictRow
<1>2. ASSUME r.total = 0 PROVE avg_at_most(r, TAU) /\ REAL(r.total, n) = 0
  <2>1. n \in Nat
    BY DEF JustResult
  <2>2. 0 <= TAU * n /\ 0 <= TAU
    <3>1. TAU * n \in Nat
      BY <2>1
    <3> QED
      BY <3>1
  <2>3. avg_at_most(r, TAU)
    BY <1>2, <2>2 DEF avg_at_most
  <2>4. REAL(r.total, n) = 0
    <3>1. n # 0 => (0 * Digits) \div n = 0
      <4>1. 0 * Digits = 0
        BY ServerAssumption
      <4>2. n # 0 => 0 \div n = 0
        BY <2>1
      <4> QED
        BY <4>1, <4>2
    <3> QED
      BY <1>2, <3>1 DEF REAL
  <2> QED
    BY <2>3, <2>4
<1> HIDE DEF row
<1>3. r.total = 0 <=> x.claimed_output = Served(sessions[x.session_id], Len(x.claimed_output))
  BY Zenon DEF JustResult
<1>4. r.total = 0 => ~ r.any_clipped
  BY Zenon DEF JustResult
<1>5. x.session_id \in DOMAIN sessions
  BY Zenon DEF JustResult
<1>6. Supported(row)
  <2>1. n \in Nat /\ r.total \in Nat
    BY Zenon DEF JustResult
  <2>2. REAL(TAU, 1) = TAU * Digits /\ REAL(TAU, 1) \in Nat
    BY TauIsKept
  <2>3. CASE n = 0
    <3>1. REAL(r.total, n) = 0
      BY <2>3 DEF REAL
    <3>2. avg_at_most(r, TAU)
      BY <2>3 DEF avg_at_most
    <3> HIDE DEF n, r
    <3> QED
      BY <1>1, <2>2, <3>1, <3>2 DEF Supported
  <2>4. CASE n # 0
    <3>1. PICK total : total = r.total
      OBVIOUS
    <3>2. REAL(total, n) \in Nat
      <4>1. PICK t : t = total * Digits
        OBVIOUS
      <4>2. t \in Nat /\ t \div n \in Nat
        BY <2>1, <2>4, <3>1, <4>1, ServerAssumption
      <4> QED
        BY <2>4, <4>1, <4>2 DEF REAL
    <3>3. total <= TAU * n => REAL(total, n) <= TAU * Digits
      BY <2>1, <2>4, <3>1, RealIsMonotone
    <3>4. avg_at_most(r, TAU) <=> total <= TAU * n
      BY <2>4, <3>1 DEF avg_at_most
    <3>5. ~ total <= TAU * n => TAU * Digits <= REAL(total, n)
      <4>1. ~ total <= TAU * n => TAU * n <= total
        <5>1. TAU * n \in Nat
          BY <2>1
        <5> QED
          BY <2>1, <3>1, <5>1
      <4> QED
        BY <2>1, <2>4, <3>1, <4>1, RealIsMonotoneAbove
    <3> HIDE DEF n, r
    <3> QED
      BY <1>1, <2>2, <3>1, <3>2, <3>3, <3>4, <3>5 DEF Supported
  <2> QED
    BY <2>3, <2>4
<1>7. JustRow(row)
  BY <1>1, <1>2, <1>3, <1>4, <1>5, <1>6, Zenon DEF JustRow
<1> QED
  BY <1>1, <1>7 DEF row

LEMMA LogVerificationStep ==
  ASSUME IInv, NEW w \in Workers, log_verification(w)
  PROVE  IInv'
<1>1. PICK n : n = verification_serial + 1
  OBVIOUS
<1>2. PICK row : row = VerdictRow(worker[w], TAU)
  OBVIOUS
<1>3. PICK x : x = [at |-> "commit verification", id |-> n, row |-> row]
  OBVIOUS
<1>4. x.at = "commit verification" /\ x.id = n /\ x.row = row
  BY <1>3
<1>5. /\ worker' = [worker EXCEPT ![w] = x] /\ verification_serial' = n
      /\ worker[w].at = "log"
      /\ UNCHANGED <<sessions, verifications, session_serial, TAU, answers>>
  BY <1>1, <1>2, <1>3 DEF log_verification
<1>6. /\ session_serial \in Nat /\ verification_serial \in Nat /\ TAU \in Nat
      /\ DOMAIN sessions \subseteq 1..session_serial
      /\ DOMAIN verifications \subseteq 1..verification_serial
  BY DEF IInv, TablesOK
<1>7. Grows
  BY <1>5 DEF Grows
<1>8. JustRow(row) /\ row.tau_used = REAL(TAU, 1)
  <2>1. JustResult(worker[w])
    BY <1>5, WhatIsHeld DEF IInv, WorkersOK, HoldsResult
  <2> QED
    BY <1>2, <1>6, <2>1, VerdictIsJust
<1>9. /\ n \in 1..n /\ n \in Nat /\ verification_serial <= n
      /\ n \notin 1..verification_serial /\ n \notin DOMAIN verifications
      /\ session_serial <= session_serial'
  BY <1>1, <1>5, <1>6
<1>10. TablesOK'
  <2>1. DOMAIN verifications \subseteq 1..n
    BY <1>1, <1>6
  <2> QED
    BY <1>5, <1>6, <1>9, <2>1, TablesKept, Zenon DEF IInv
<1>11. Holds(x)'
  <2>1. JustRow(row)'
    BY <1>7, <1>8, JustRowStays
  <2>2. x.row.tau_used = REAL(TAU', 1)
    BY <1>4, <1>5, <1>8
  <2>3. x.id \in 1..(verification_serial') /\ x.id \notin DOMAIN verifications'
    BY <1>4, <1>5, <1>9
  <2>4. HoldsVerdict(x)'
    BY <1>4, <2>1, <2>2, <2>3, Zenon DEF HoldsVerdict
  <2> QED
    BY <2>4, Zenon DEF Holds
<1>12. ASSUME NEW v \in Workers \ {w}
       PROVE  /\ worker[v].at = "commit session" => worker[v].id \notin DOMAIN sessions'
              /\ worker[v].at = "commit verification" =>
                   worker[v].id \notin DOMAIN verifications' /\ worker[v].id # n
  BY <1>5, <1>9, HeldIds DEF IInv
<1>13. WorkersOK'
  <2>1. \A v \in Workers \ {w} :
          x.at \in {"commit session", "commit verification"} /\ worker[v].at = x.at
            => worker[v].id # x.id
    BY <1>4, <1>12
  <2>2. WorkersOK
    BY DEF IInv
  <2> QED
    BY <1>5, <1>6, <1>7, <1>9, <1>11, <1>12, <2>1, <2>2, WorkerStep
<1>14. AnswersOK'
  BY <1>5, <1>7, AnswersStay DEF IInv
<1> QED
  BY <1>10, <1>13, <1>14 DEF IInv

LEMMA CommitSessionStep ==
  ASSUME IInv, NEW w \in Workers, CommitSession(w)
  PROVE  IInv'
<1>1. PICK x : x = worker[w]
  OBVIOUS
<1>2. /\ x.at = "commit session" /\ sessions' = Put(sessions, x.id, x.row)
      /\ worker' = [worker EXCEPT ![w] = Idle]
      /\ UNCHANGED <<verifications, session_serial, verification_serial, TAU, answers>>
  BY <1>1 DEF CommitSession
<1>3. /\ session_serial \in Nat /\ verification_serial \in Nat /\ TAU \in Nat
      /\ session_serial <= session_serial' /\ verification_serial <= verification_serial'
  <2>1. session_serial \in Nat /\ verification_serial \in Nat /\ TAU \in Nat
    BY DEF IInv, TablesOK
  <2> QED
    BY <1>2, <2>1, AtMostItself
<1>4. HoldsSession(x)
  BY <1>1, <1>2, WhatIsHeld DEF IInv, WorkersOK
<1>5. /\ x.id \in 1..session_serial /\ x.id \notin DOMAIN sessions /\ x.row \in SessionRows
  BY <1>4, Zenon DEF HoldsSession
<1>6. /\ DOMAIN sessions' = DOMAIN sessions \cup {x.id}
      /\ sessions'[x.id] = x.row
      /\ \A id \in DOMAIN sessions : sessions'[id] = sessions[id]
  BY <1>2, <1>5 DEF Put
<1>7. Grows
  BY <1>2, <1>6, Zenon DEF Grows
<1>8. TablesOK'
  <2>1. DOMAIN sessions' \subseteq 1..(session_serial')
    BY <1>2, <1>5, <1>6 DEF IInv, TablesOK
  <2>2. \A id \in DOMAIN sessions' : sessions'[id] \in SessionRows
    BY <1>5, <1>6, Zenon DEF IInv, TablesOK
  <2>3. \A id \in DOMAIN verifications : JustRow(verifications[id])
    BY Zenon DEF IInv, TablesOK
  <2>4. ASSUME NEW id \in DOMAIN verifications' PROVE JustRow(verifications[id])'
    <3>1. verifications' = verifications
      BY <1>2
    <3>2. PICK row : row = verifications[id]
      OBVIOUS
    <3>3. JustRow(row)
      BY <2>3, <3>1, <3>2, Zenon
    <3>4. JustRow(row)'
      BY <1>7, <3>3, JustRowStays
    <3> QED
      BY <3>1, <3>2, <3>4, Zenon
  <2>5. DOMAIN verifications' \subseteq 1..(verification_serial')
    BY <1>2 DEF IInv, TablesOK
  <2>6. session_serial' \in Nat /\ verification_serial' \in Nat /\ TAU' \in Nat
    BY <1>2, <1>3
  <2> QED
    BY <2>1, <2>2, <2>4, <2>5, <2>6, Zenon DEF TablesOK
<1>9. Holds(Idle)' /\ Idle.at = "idle"
  BY DEF Holds, Idle
<1>10. ASSUME NEW v \in Workers \ {w}
       PROVE  /\ worker[v].at = "commit session" => worker[v].id \notin DOMAIN sessions'
              /\ worker[v].at = "commit verification" => worker[v].id \notin DOMAIN verifications'
  <2>1. worker[v].at = "commit session" => worker[v].id # x.id
    BY <1>1, <1>2 DEF IInv, WorkersOK, IdsApart
  <2> QED
    BY <1>2, <1>6, <2>1, HeldIds DEF IInv
<1>11. WorkersOK'
  <2>1. WorkersOK
    BY DEF IInv
  <2>2. Idle.at \notin {"commit session", "commit verification"}
    BY <1>9
  <2> QED
    BY <1>2, <1>3, <1>7, <1>9, <1>10, <2>1, <2>2, WorkerStep
<1>12. AnswersOK'
  BY <1>2, <1>7, AnswersStay DEF IInv
<1> QED
  BY <1>8, <1>11, <1>12 DEF IInv

LEMMA CommitVerificationStep ==
  ASSUME IInv, NEW w \in Workers, CommitVerification(w)
  PROVE  IInv'
<1>1. PICK x : x = worker[w]
  OBVIOUS
<1>2. PICK y : y = [at |-> "answer", id |-> x.id, row |-> x.row]
  OBVIOUS
<1>3. /\ x.at = "commit verification" /\ verifications' = Put(verifications, x.id, x.row)
      /\ worker' = [worker EXCEPT ![w] = y]
      /\ UNCHANGED <<sessions, session_serial, verification_serial, TAU, answers>>
  BY <1>1, <1>2 DEF CommitVerification
<1>4. y.at = "answer" /\ y.id = x.id /\ y.row = x.row
  BY <1>2
<1>5. /\ session_serial \in Nat /\ verification_serial \in Nat /\ TAU \in Nat
      /\ session_serial <= session_serial' /\ verification_serial <= verification_serial'
  <2>1. session_serial \in Nat /\ verification_serial \in Nat /\ TAU \in Nat
    BY DEF IInv, TablesOK
  <2> QED
    BY <1>3, <2>1, AtMostItself
<1>6. HoldsVerdict(x)
  BY <1>1, <1>3, WhatIsHeld DEF IInv, WorkersOK
<1>7. /\ x.id \in 1..verification_serial /\ x.id \notin DOMAIN verifications
      /\ JustRow(x.row) /\ x.row.tau_used = REAL(TAU, 1)
  BY <1>6, Zenon DEF HoldsVerdict
<1>8. /\ DOMAIN verifications' = DOMAIN verifications \cup {x.id}
      /\ verifications'[x.id] = x.row
      /\ \A id \in DOMAIN verifications : verifications'[id] = verifications[id]
  BY <1>3, <1>7 DEF Put
<1>9. Grows
  BY <1>3, <1>8, Zenon DEF Grows
<1>10. TablesOK'
  <2>1. DOMAIN verifications' \subseteq 1..(verification_serial')
    BY <1>3, <1>7, <1>8 DEF IInv, TablesOK
  <2>2. \A id \in DOMAIN verifications : JustRow(verifications[id])
    BY Zenon DEF IInv, TablesOK
  <2>3. ASSUME NEW id \in DOMAIN verifications' PROVE JustRow(verifications[id])'
    <3>1. PICK row : row = verifications'[id]
      OBVIOUS
    <3>2. JustRow(row)
      BY <1>7, <1>8, <2>2, <3>1, Zenon
    <3>3. JustRow(row)'
      BY <1>9, <3>2, JustRowStays
    <3> QED
      BY <3>1, <3>3, Zenon
  <2>4. /\ DOMAIN sessions' \subseteq 1..(session_serial')
        /\ \A id \in DOMAIN sessions' : sessions'[id] \in SessionRows
    BY <1>3 DEF IInv, TablesOK
  <2>5. session_serial' \in Nat /\ verification_serial' \in Nat /\ TAU' \in Nat
    BY <1>3, <1>5
  <2> QED
    BY <2>1, <2>3, <2>4, <2>5, Zenon DEF TablesOK
<1>11. Holds(y)'
  <2>1. y.row.tau_used = REAL(TAU', 1)
    BY <1>3, <1>4, <1>7
  <2>2. y.id \in DOMAIN verifications' /\ verifications'[y.id] = y.row
    BY <1>4, <1>8
  <2>3. HoldsAnswer(y)'
    BY <1>4, <2>1, <2>2, Zenon DEF HoldsAnswer
  <2> QED
    BY <2>3, Zenon DEF Holds
<1>12. ASSUME NEW v \in Workers \ {w}
       PROVE  /\ worker[v].at = "commit session" => worker[v].id \notin DOMAIN sessions'
              /\ worker[v].at = "commit verification" => worker[v].id \notin DOMAIN verifications'
  <2>1. worker[v].at = "commit verification" => worker[v].id # x.id
    BY <1>1, <1>3 DEF IInv, WorkersOK, IdsApart
  <2> QED
    BY <1>3, <1>8, <2>1, HeldIds DEF IInv
<1>13. WorkersOK'
  <2>1. WorkersOK
    BY DEF IInv
  <2>2. y.at \notin {"commit session", "commit verification"}
    BY <1>4
  <2> QED
    BY <1>3, <1>5, <1>9, <1>11, <1>12, <2>1, <2>2, WorkerStep
<1>14. AnswersOK'
  BY <1>3, <1>9, AnswersStay DEF IInv
<1> QED
  BY <1>10, <1>13, <1>14 DEF IInv

LEMMA StartupStep ==
  ASSUME IInv, NEW tau \in Taus, startup(tau)
  PROVE  IInv'
<1>1. /\ UNCHANGED tables /\ answers' = answers /\ TAU' = tau
      /\ worker' = [w \in Workers |-> Idle]
  BY DEF startup
<1>2. Grows /\ UNCHANGED <<sessions, verifications, session_serial, verification_serial>>
  BY <1>1, TablesStay
<1>3. TablesOK'
  <2>1. /\ session_serial' \in Nat /\ verification_serial' \in Nat /\ TAU' \in Nat
        /\ DOMAIN sessions \subseteq 1..(session_serial')
        /\ DOMAIN verifications \subseteq 1..(verification_serial')
    BY <1>1, <1>2, ServerAssumption DEF IInv, TablesOK
  <2> QED
    BY <1>2, <2>1, TablesKept DEF IInv
<1>4. WorkersOK'
  <2>1. worker' = [w \in Workers |-> worker'[w]] /\ \A w \in Workers : worker'[w] = Idle
    BY <1>1
  <2>2. IdsApart'
    <3>1. \A w \in Workers : worker'[w].at = "idle"
      BY <2>1 DEF Idle
    <3> QED
      BY <3>1 DEF IdsApart
  <2>3. \A w \in Workers : Holds(worker[w])'
    BY <2>1, Zenon DEF Holds
  <2> QED
    BY <2>1, <2>2, <2>3, Zenon DEF WorkersOK
<1>5. AnswersOK'
  BY <1>1, <1>2, AnswersStay DEF IInv
<1> QED
  BY <1>3, <1>4, <1>5 DEF IInv

LEMMA StutterStep ==
  ASSUME IInv, UNCHANGED vars
  PROVE  IInv'
<1>1. /\ UNCHANGED tables /\ TAU' = TAU /\ worker' = worker /\ answers' = answers
  BY DEF vars
<1>2. Grows /\ UNCHANGED <<sessions, verifications, session_serial, verification_serial>>
  BY <1>1, TablesStay
<1>3. TablesOK'
  BY <1>1, <1>2, TablesKept DEF IInv, TablesOK
<1>4. WorkersOK'
  <2>1. WorkersOK /\ session_serial \in Nat /\ verification_serial \in Nat
    BY DEF IInv, TablesOK
  <2>2. session_serial <= session_serial /\ verification_serial <= verification_serial
    BY <2>1, AtMostItself
  <2>3. ASSUME NEW w \in Workers PROVE Holds(worker[w])'
    <3>1. PICK x : x = worker[w]
      OBVIOUS
    <3>2. Holds(x)
      BY <2>1, <3>1 DEF WorkersOK
    <3>3. /\ x.at = "commit session" => x.id \notin DOMAIN sessions'
          /\ x.at = "commit verification" => x.id \notin DOMAIN verifications'
      BY <1>2, <2>1, <3>1, HeldIds
    <3>4. Holds(x)'
      BY <1>1, <1>2, <2>1, <2>2, <3>2, <3>3, HoldsStays, Zenon
    <3>5. worker'[w] = x
      BY <1>1, <3>1
    <3> QED
      BY <3>4, <3>5
  <2>4. IdsApart' /\ worker' = [w \in Workers |-> worker'[w]]
    BY <1>1, <2>1 DEF WorkersOK, IdsApart
  <2> QED
    BY <2>3, <2>4 DEF WorkersOK
<1>5. AnswersOK'
  BY <1>1, <1>2, AnswersStay DEF IInv
<1> QED
  BY <1>3, <1>4, <1>5 DEF IInv

\* Every step of the server keeps the invariant.
LEMMA NextIInv ==
  ASSUME IInv, [Next]_vars
  PROVE  IInv'
<1>1. CASE UNCHANGED vars
  BY <1>1, StutterStep
<1>2. ASSUME NEW tau \in Taus, startup(tau) PROVE IInv'
  BY <1>2, StartupStep
<1>3. ASSUME NEW w \in Workers, Handle(w) PROVE IInv'
  <2>1. ASSUME NEW req \in Requests, NEW seed \in Seeds, start_session(w, req, seed) PROVE IInv'
    BY <2>1, StartSessionStep
  <2>2. CASE CommitSession(w)
    BY <2>2, CommitSessionStep
  <2>3. ASSUME NEW id \in DOMAIN sessions, NEW n \in Lengths, prover_generate(w, id, n) PROVE IInv'
    BY <2>3, GenerateStep
  <2>4. ASSUME NEW id \in DOMAIN sessions, NEW claimed \in Claimed, verify(w, id, claimed)
        PROVE  IInv'
    BY <2>4, VerifyStep
  <2>5. CASE log_verification(w)
    BY <2>5, LogVerificationStep
  <2>6. CASE CommitVerification(w)
    BY <2>6, CommitVerificationStep
  <2>7. CASE AnswerVerdict(w)
    BY <2>7, AnswerVerdictStep
  <2>8. CASE Rollback(w)
    BY <2>8, RollbackStep
  <2> QED
    BY <1>3, <2>1, <2>2, <2>3, <2>4, <2>5, <2>6, <2>7, <2>8 DEF Handle
<1> QED
  BY <1>1, <1>2, <1>3 DEF Next

\* The invariant holds for any number of threads, sessions, verifications, crashes,
\* and any model: server.py's handlers over tables that only grow.
THEOREM ServerInvariant == Spec => []IInv
<1>1. Init => IInv
  BY InitIInv
<1>2. IInv /\ [Next]_vars => IInv'
  BY NextIInv
<1> QED
  BY <1>1, <1>2, PTL DEF Spec

\* The verifier (verify over difr.py) scores a claim zero exactly when it is what
\* prover_generate yields for the stored session, in every interleaving.
THEOREM ZeroMeansHonest == Spec => []ZeroIsHonest
<1>1. IInv => ZeroIsHonest
  <2> SUFFICES ASSUME IInv, NEW w \in Workers, worker[w].at = "log"
               PROVE  worker[w].result.total = 0
                        <=> worker[w].claimed_output =
                              Served(sessions[worker[w].session_id], Len(worker[w].claimed_output))
    BY DEF ZeroIsHonest
  <2>1. HoldsResult(worker[w])
    BY WhatIsHeld DEF IInv, WorkersOK
  <2> QED
    BY <2>1, Zenon DEF HoldsResult, JustResult
<1> QED
  BY <1>1, ServerInvariant, PTL

\* What prover_generate answered passes whenever verify logs it for its session,
\* unclipped and with a deviation of zero, also after a restart with another tau.
THEOREM HonestPasses == Spec => []HonestIsPassed
<1>1. IInv => HonestIsPassed
  <2> SUFFICES ASSUME IInv, NEW a \in answers, NEW id \in DOMAIN verifications,
                      a.kind = "output",
                      verifications[id].session_id = a.id,
                      verifications[id].claimed_output = a.output
               PROVE  /\ verifications[id].passed /\ ~ verifications[id].any_token_clipped
                      /\ verifications[id].avg_deviation = 0
    BY DEF HonestIsPassed, Rows
  <2>1. JustRow(verifications[id])
    BY Zenon DEF IInv, TablesOK
  <2>2. a.output = Served(sessions[a.id], Len(a.output))
    BY DEF IInv, AnswersOK, AnswerOK
  <2> QED
    BY <2>1, <2>2, Zenon DEF JustRow
<1> QED
  BY <1>1, ServerInvariant, PTL

\* The response of /verify is sent after its row is committed, so whatever a client
\* was told stands in the log, through crashes, failed commits and changes of tau.
THEOREM AnswersStand == Spec => []AnswersAreLogged
<1>1. IInv => AnswersAreLogged
  <2> SUFFICES ASSUME IInv, NEW a \in answers
               PROVE  /\ a.kind = "output" => a.id \in DOMAIN sessions
                      /\ a.kind = "verdict" =>
                           /\ a.id \in DOMAIN verifications
                           /\ verifications[a.id].passed = a.passed
                           /\ verifications[a.id].low_confidence = a.low_confidence
                           /\ verifications[a.id].tau_used = REAL(a.tau_used, 1)
    BY DEF AnswersAreLogged
  <2>1. AnswerOK(a)
    BY DEF IInv, AnswersOK
  <2> QED
    BY <2>1 DEF AnswerOK
<1> QED
  BY <1>1, ServerInvariant, PTL

\* What conformity_schema.py makes of the columns of a row agrees with the verdict in
\* it, although average and tau are stored with fewer digits than they were compared
\* with: the one exception are two figures that become the same REAL.
THEOREM RowsStandAlone == Spec => []RowsSupportVerdicts
<1>1. IInv => RowsSupportVerdicts
  <2> SUFFICES ASSUME IInv, NEW id \in DOMAIN verifications
               PROVE  LET row == verifications[id]
                          category == classify(row.avg_deviation, row.tau_used, TRUE,
                                               row.low_confidence)
                      IN  /\ row.low_confidence <=> category = "INCONCLUSIVE"
                          /\ row.passed /\ ~ row.low_confidence => category = "COMPLIANT"
                          /\ ~ row.passed /\ category = "COMPLIANT" => row.avg_deviation = row.tau_used
    BY DEF RowsSupportVerdicts, Rows
  <2>1. Supported(verifications[id])
    BY Zenon DEF IInv, TablesOK, JustRow
  <2> QED
    BY <2>1 DEF Supported, classify
<1> QED
  BY <1>1, ServerInvariant, PTL

\* A session's seed is set once and never updated, and a verdict, once logged, is
\* neither changed nor taken back.
RowsAreFinal ==
  [][/\ \A id \in DOMAIN sessions : id \in DOMAIN sessions' /\ sessions'[id] = sessions[id]
     /\ \A id \in DOMAIN verifications :
          id \in DOMAIN verifications' /\ verifications'[id] = verifications[id]]_vars

\* db.py has no UPDATE, and the ids of concurrent transactions differ: no commit,
\* crash or restart changes or removes a row.
THEOREM RowsStay == Spec => RowsAreFinal
<1>1. ASSUME IInv, [Next]_vars PROVE Grows \/ UNCHANGED vars
  <2>1. CASE UNCHANGED vars
    BY <2>1
  <2>2. CASE UNCHANGED tables
    BY <2>2, TablesStay
  <2>3. CASE UNCHANGED <<sessions, verifications>>
    BY <2>3 DEF Grows
  <2>4. ASSUME NEW w \in Workers, CommitSession(w) PROVE Grows
    <3>1. worker[w].id \notin DOMAIN sessions
      <4>1. worker[w].at = "commit session" /\ WorkersOK
        BY <1>1, <2>4 DEF IInv, CommitSession
      <4> QED
        BY <4>1, HeldIds
    <3> QED
      BY <2>4, <3>1 DEF CommitSession, Grows, Put
  <2>5. ASSUME NEW w \in Workers, CommitVerification(w) PROVE Grows
    <3>1. worker[w].id \notin DOMAIN verifications
      <4>1. worker[w].at = "commit verification" /\ WorkersOK
        BY <1>1, <2>5 DEF IInv, CommitVerification
      <4> QED
        BY <4>1, HeldIds
    <3> QED
      BY <2>5, <3>1 DEF CommitVerification, Grows, Put
  <2>6. ASSUME NEW w \in Workers, Handle(w)
        PROVE  \/ UNCHANGED tables \/ UNCHANGED <<sessions, verifications>>
               \/ CommitSession(w) \/ CommitVerification(w)
    BY <2>6 DEF Handle, start_session, prover_generate, verify, log_verification, AnswerVerdict,
      Rollback
  <2>7. ASSUME NEW tau \in Taus, startup(tau) PROVE UNCHANGED tables
    BY <2>7 DEF startup
  <2> QED
    <3>1. CASE \E w \in Workers : Handle(w)
      BY <3>1, <2>2, <2>3, <2>4, <2>5, <2>6
    <3>2. CASE \E tau \in Taus : startup(tau)
      BY <3>2, <2>2, <2>7
    <3> QED
      BY <1>1, <2>1, <3>1, <3>2 DEF Next
<1>2. IInv /\ [Next]_vars =>
        [/\ \A id \in DOMAIN sessions : id \in DOMAIN sessions' /\ sessions'[id] = sessions[id]
         /\ \A id \in DOMAIN verifications :
              id \in DOMAIN verifications' /\ verifications'[id] = verifications[id]]_vars
  BY <1>1 DEF Grows
<1> QED
  BY <1>2, ServerInvariant, PTL DEF Spec, RowsAreFinal

-----------------------------------------------------------------------------
(* One step at a time *)

\* A row that some request asks for.
Requested(row) ==
  \E req \in Requests, seed \in Seeds :
    row = [prompt |-> req.prompt, issued_seed |-> seed, temperature |-> req.temperature]

\* What a thread holds is what it would write if it did everything now.
HoldsNow(x) ==
  /\ x.at = "commit session" =>
       Requested(x.row) /\ \A id \in DOMAIN sessions : sessions[id].issued_seed # x.row.issued_seed
  /\ x.at = "log" =>
       /\ x.session_id \in DOMAIN sessions /\ x.claimed_output \in Claimed
       /\ x.result = Recomputed(sessions[x.session_id], x.claimed_output)
  /\ x.at = "commit verification" =>
       \E id \in DOMAIN sessions, claimed \in Claimed :
         x.row = Verdict(id, sessions[id], claimed, TAU)

\* No two threads open sessions under one seed.
SeedsApart ==
  \A v, w \in Workers :
    /\ v # w
    /\ worker[v].at = "commit session" /\ worker[w].at = "commit session"
    => worker[v].row.issued_seed # worker[w].row.issued_seed

AtomicInv ==
  /\ session_serial <= MaxSessions /\ verification_serial <= MaxVerifications
  /\ \A w \in Workers : HoldsNow(worker[w])
  /\ SeedsApart

LEMMA HoldsNowStays ==
  ASSUME Grows, answers \subseteq answers', TAU' = TAU, NEW x, HoldsNow(x),
         x.at = "commit session" =>
           \A id \in DOMAIN sessions' : sessions'[id].issued_seed # x.row.issued_seed
  PROVE  HoldsNow(x)'
<1>1. \A c \in Claimed : c \in Claimed'
  BY Zenon DEF Claimed
<1>2. CASE x.at = "commit session"
  BY <1>2 DEF HoldsNow, Requested
<1>3. CASE x.at = "log"
  BY <1>1, <1>3 DEF HoldsNow, Grows
<1>4. CASE x.at = "commit verification"
  <2>1. PICK id \in DOMAIN sessions, claimed \in Claimed :
           x.row = Verdict(id, sessions[id], claimed, TAU)
    BY <1>4, Zenon DEF HoldsNow
  <2>2. id \in DOMAIN sessions' /\ sessions'[id] = sessions[id] /\ claimed \in Claimed'
    BY <1>1, Zenon DEF Grows
  <2>3. x.row = Verdict(id, sessions'[id], claimed, TAU')
    BY <2>1, <2>2, Zenon
  <2>4. \E i \in DOMAIN sessions', c \in Claimed' : x.row = Verdict(i, sessions'[i], c, TAU')
    BY <2>2, <2>3, Zenon
  <2> QED
    BY <1>4, <2>4 DEF HoldsNow
<1> QED
  BY <1>2, <1>3, <1>4 DEF HoldsNow

LEMMA InitAtomicInv == Init => AtomicInv
<1> SUFFICES ASSUME Init PROVE AtomicInv
  OBVIOUS
<1>1. \A w \in Workers : worker[w].at = "idle"
  BY DEF Init, Idle
<1>2. ASSUME NEW w \in Workers PROVE HoldsNow(worker[w])
  BY <1>1 DEF HoldsNow
<1>3. SeedsApart
  BY <1>1 DEF SeedsApart
<1>4. session_serial <= MaxSessions /\ verification_serial <= MaxVerifications
  BY ServerAssumption DEF Init
<1> QED
  BY <1>2, <1>3, <1>4 DEF AtomicInv

\* A step of one thread, w, which then holds x, while no session becomes visible.
LEMMA AtomicStep ==
  ASSUME WorkersOK, AtomicInv, Grows, sessions' = sessions, answers \subseteq answers', TAU' = TAU,
         session_serial' <= MaxSessions, verification_serial' <= MaxVerifications,
         NEW w \in Workers, NEW x, HoldsNow(x)', worker' = [worker EXCEPT ![w] = x],
         x.at = "commit session" =>
           \A v \in Workers \ {w} :
             worker[v].at = "commit session" => worker[v].row.issued_seed # x.row.issued_seed
  PROVE  AtomicInv'
<1>1. /\ worker'[w] = x
      /\ \A v \in Workers \ {w} : worker'[v] = worker[v]
  BY DEF WorkersOK
<1>2. ASSUME NEW v \in Workers PROVE HoldsNow(worker[v])'
  <2>1. CASE v = w
    BY <1>1, <2>1
  <2>2. CASE v # w
    <3>1. PICK y : y = worker[v]
      OBVIOUS
    <3>2. HoldsNow(y)
      BY <3>1 DEF AtomicInv
    <3>3. y.at = "commit session" =>
            \A id \in DOMAIN sessions' : sessions'[id].issued_seed # y.row.issued_seed
      BY <3>2, Zenon DEF HoldsNow
    <3>4. HoldsNow(y)'
      BY <3>2, <3>3, HoldsNowStays
    <3>5. worker'[v] = y
      BY <1>1, <2>2, <3>1
    <3> QED
      BY <3>4, <3>5
  <2> QED
    BY <2>1, <2>2
<1>3. SeedsApart'
  <2>1. SeedsApart
    BY DEF AtomicInv
  <2> SUFFICES ASSUME NEW u \in Workers, NEW v \in Workers, u # v,
                      worker'[u].at = "commit session", worker'[v].at = "commit session"
               PROVE  worker'[u].row.issued_seed # worker'[v].row.issued_seed
    BY DEF SeedsApart
  <2>2. CASE u = w
    BY <1>1, <2>2
  <2>3. CASE v = w
    BY <1>1, <2>3
  <2>4. CASE u # w /\ v # w
    <3>1. worker'[u] = worker[u] /\ worker'[v] = worker[v]
      BY <1>1, <2>4
    <3>2. worker[u].at = "commit session" /\ worker[v].at = "commit session"
      BY <3>1
    <3>3. worker[u].row.issued_seed # worker[v].row.issued_seed
      BY <2>1, <3>2, Zenon DEF SeedsApart
    <3> QED
      BY <3>1, <3>3
  <2> QED
    BY <2>2, <2>3, <2>4
<1> QED
  BY <1>2, <1>3 DEF AtomicInv

LEMMA CommitSessionAtomic ==
  ASSUME IInv, AtomicInv, NEW w \in Workers, CommitSession(w)
  PROVE  /\ AtomicInv'
         /\ worker[w].id \in 1..MaxSessions
         /\ Log!Open(worker[w].id)
<1>1. PICK x : x = worker[w]
  OBVIOUS
<1>2. /\ x.at = "commit session" /\ sessions' = Put(sessions, x.id, x.row)
      /\ worker' = [worker EXCEPT ![w] = Idle]
      /\ UNCHANGED <<verifications, session_serial, verification_serial, TAU, answers>>
  BY <1>1 DEF CommitSession
<1>3. x.id \in 1..session_serial /\ x.id \notin DOMAIN sessions
  BY <1>1, <1>2, HeldIds DEF IInv
<1>4. /\ DOMAIN sessions' = DOMAIN sessions \cup {x.id}
      /\ sessions'[x.id] = x.row
      /\ \A id \in DOMAIN sessions : sessions'[id] = sessions[id]
  BY <1>2, <1>3 DEF Put
<1>5. Grows
  BY <1>2, <1>4, Zenon DEF Grows
<1>6. HoldsNow(x)
  BY <1>1 DEF AtomicInv
<1>7. /\ worker'[w] = Idle
      /\ \A v \in Workers \ {w} : worker'[v] = worker[v]
  BY <1>2 DEF IInv, WorkersOK
<1>8. ASSUME NEW v \in Workers PROVE HoldsNow(worker[v])'
  <2>1. CASE v = w
    <3>1. Idle.at = "idle"
      BY DEF Idle
    <3>2. HoldsNow(Idle)'
      BY <3>1 DEF HoldsNow
    <3> QED
      BY <1>7, <2>1, <3>2
  <2>2. CASE v # w
    <3>1. PICK y : y = worker[v]
      OBVIOUS
    <3>2. HoldsNow(y)
      BY <3>1 DEF AtomicInv
    <3>3. ASSUME y.at = "commit session", NEW id \in DOMAIN sessions'
          PROVE  sessions'[id].issued_seed # y.row.issued_seed
      <4>1. CASE id = x.id
        <5>1. x.row.issued_seed # y.row.issued_seed
          BY <1>1, <1>2, <2>2, <3>1, <3>3 DEF AtomicInv, SeedsApart
        <5> QED
          BY <1>4, <4>1, <5>1
      <4>2. CASE id \in DOMAIN sessions
        BY <1>4, <3>2, <3>3, <4>2, Zenon DEF HoldsNow
      <4> QED
        BY <1>4, <4>1, <4>2
    <3>4. HoldsNow(y)'
      BY <1>2, <1>5, <3>2, <3>3, HoldsNowStays
    <3>5. worker'[v] = y
      BY <1>7, <2>2, <3>1
    <3> QED
      BY <3>4, <3>5
  <2> QED
    BY <2>1, <2>2
<1>9. SeedsApart'
  <2>1. worker'[w].at = "idle"
    BY <1>7 DEF Idle
  <2>2. SeedsApart
    BY DEF AtomicInv
  <2> SUFFICES ASSUME NEW u \in Workers, NEW v \in Workers, u # v,
                      worker'[u].at = "commit session", worker'[v].at = "commit session"
               PROVE  worker'[u].row.issued_seed # worker'[v].row.issued_seed
    BY DEF SeedsApart
  <2>3. u # w /\ v # w
    BY <2>1
  <2>4. worker'[u] = worker[u] /\ worker'[v] = worker[v]
    BY <1>7, <2>3
  <2>5. worker[u].at = "commit session" /\ worker[v].at = "commit session"
    BY <2>4
  <2>6. worker[u].row.issued_seed # worker[v].row.issued_seed
    BY <2>2, <2>5, Zenon DEF SeedsApart
  <2> QED
    BY <2>4, <2>6
<1>10. AtomicInv'
  BY <1>2, <1>8, <1>9 DEF AtomicInv
<1>11. x.id \in 1..MaxSessions
  BY <1>3, ServerAssumption DEF AtomicInv, IInv, TablesOK
<1>12. Log!Open(x.id)
  <2>1. Log!Appended(sessions, sessions', x.id)
    BY <1>3, <1>4 DEF Log!Appended
  <2>2. Requested(x.row) /\ \A id \in DOMAIN sessions : sessions[id].issued_seed # x.row.issued_seed
    BY <1>2, <1>6 DEF HoldsNow
  <2>3. PICK req \in Requests, seed \in Seeds :
          x.row = [prompt |-> req.prompt, issued_seed |-> seed, temperature |-> req.temperature]
    BY <2>2 DEF Requested
  <2>4. \A id \in DOMAIN sessions : sessions[id].issued_seed # seed
    BY <2>2, <2>3
  <2> QED
    BY <1>2, <1>4, <2>1, <2>3, <2>4 DEF Log!Open
<1> QED
  BY <1>1, <1>10, <1>11, <1>12

LEMMA CommitVerificationAtomic ==
  ASSUME IInv, AtomicInv, NEW w \in Workers, CommitVerification(w)
  PROVE  /\ AtomicInv'
         /\ worker[w].id \in 1..MaxVerifications
         /\ Log!Judge(worker[w].id)
<1>1. PICK x : x = worker[w]
  OBVIOUS
<1>2. PICK y : y = [at |-> "answer", id |-> x.id, row |-> x.row]
  OBVIOUS
<1>3. /\ x.at = "commit verification" /\ verifications' = Put(verifications, x.id, x.row)
      /\ worker' = [worker EXCEPT ![w] = y]
      /\ UNCHANGED <<sessions, session_serial, verification_serial, TAU, answers>>
  BY <1>1, <1>2 DEF CommitVerification
<1>4. x.id \in 1..verification_serial /\ x.id \notin DOMAIN verifications
  BY <1>1, <1>3, HeldIds DEF IInv
<1>5. /\ DOMAIN verifications' = DOMAIN verifications \cup {x.id}
      /\ verifications'[x.id] = x.row
      /\ \A id \in DOMAIN verifications : verifications'[id] = verifications[id]
  BY <1>3, <1>4 DEF Put
<1>6. Grows
  BY <1>3, <1>5, Zenon DEF Grows
<1>7. y.at = "answer"
  BY <1>2
<1>8. AtomicInv'
  <2>1. HoldsNow(y)'
    BY <1>7 DEF HoldsNow
  <2>2. session_serial' <= MaxSessions /\ verification_serial' <= MaxVerifications /\ WorkersOK
    BY <1>3 DEF AtomicInv, IInv
  <2>3. y.at # "commit session"
    BY <1>7
  <2> QED
    BY <1>3, <1>6, <2>1, <2>2, <2>3, AtomicStep
<1>9. x.id \in 1..MaxVerifications
  BY <1>4, ServerAssumption DEF AtomicInv, IInv, TablesOK
<1>10. Log!Judge(x.id)
  <2>1. Log!Appended(verifications, verifications', x.id)
    BY <1>4, <1>5 DEF Log!Appended
  <2>2. \E id \in DOMAIN sessions, claimed \in Claimed : x.row = Verdict(id, sessions[id], claimed, TAU)
    BY <1>1, <1>3 DEF AtomicInv, HoldsNow
  <2>3. Claimed = Log!Claimed
    BY DEF Claimed, Log!Claimed
  <2> QED
    BY <1>3, <1>5, <2>1, <2>2, <2>3 DEF Log!Judge
<1> QED
  BY <1>1, <1>8, <1>9, <1>10

\* What the promise keeps while a thread works.
Unseen == UNCHANGED <<sessions, verifications, TAU, answers>>

LEMMA StartSessionAtomic ==
  ASSUME IInv, AtomicInv, NEW w \in Workers, NEW req \in Requests, NEW seed \in Seeds,
         start_session(w, req, seed)
  PROVE  AtomicInv' /\ Unseen
<1>1. PICK row : row =
        [prompt |-> req.prompt, issued_seed |-> seed, temperature |-> req.temperature]
  OBVIOUS
<1>2. PICK x : x = [at |-> "commit session", id |-> session_serial + 1, row |-> row]
  OBVIOUS
<1>3. /\ x.at = "commit session" /\ x.row = row /\ row.issued_seed = seed
  BY <1>1, <1>2
<1>4. /\ worker' = [worker EXCEPT ![w] = x] /\ session_serial' = session_serial + 1
      /\ session_serial < MaxSessions /\ seed \notin Drawn
      /\ UNCHANGED <<sessions, verifications, verification_serial, TAU, answers>>
  BY <1>1, <1>2 DEF start_session
<1>5. /\ \A id \in DOMAIN sessions : sessions[id].issued_seed # seed
      /\ \A v \in Workers : worker[v].at = "commit session" => worker[v].row.issued_seed # seed
  BY <1>4 DEF Drawn
<1>6. HoldsNow(x)'
  <2>1. Requested(row)
    BY <1>1 DEF Requested
  <2> QED
    BY <1>3, <1>4, <1>5, <2>1 DEF HoldsNow, Requested
<1>7. session_serial' <= MaxSessions /\ verification_serial' <= MaxVerifications /\ WorkersOK
  BY <1>4, ServerAssumption DEF AtomicInv, IInv, TablesOK
<1>8. Grows
  BY <1>4 DEF Grows
<1>9. AtomicInv'
  BY <1>3, <1>4, <1>5, <1>6, <1>7, <1>8, AtomicStep
<1> QED
  BY <1>4, <1>9 DEF Unseen

LEMMA VerifyAtomic ==
  ASSUME IInv, AtomicInv, NEW w \in Workers, NEW id \in DOMAIN sessions, NEW claimed \in Claimed,
         verify(w, id, claimed)
  PROVE  AtomicInv' /\ Unseen
<1>1. PICK r : r = Recomputed(sessions[id], claimed)
  OBVIOUS
<1>2. PICK x : x = [at |-> "log", session_id |-> id, claimed_output |-> claimed, result |-> r]
  OBVIOUS
<1>3. x.at = "log" /\ x.session_id = id /\ x.claimed_output = claimed /\ x.result = r
  BY <1>2
<1>4. /\ UNCHANGED tables /\ TAU' = TAU /\ answers' = answers
      /\ worker' = [worker EXCEPT ![w] = x]
  BY <1>1, <1>2 DEF verify
<1>5. /\ Grows
      /\ UNCHANGED <<sessions, verifications, session_serial, verification_serial>>
  BY <1>4, TablesStay
<1>6. HoldsNow(x)'
  <2>1. claimed \in Claimed'
    BY <1>4, Zenon DEF Claimed
  <2>2. /\ x.session_id \in DOMAIN sessions' /\ x.claimed_output \in Claimed'
        /\ x.result = Recomputed(sessions'[x.session_id], x.claimed_output)
    BY <1>1, <1>3, <1>5, <2>1, Zenon
  <2>3. x.at # "commit session" /\ x.at # "commit verification"
    BY <1>3
  <2> QED
    BY <2>2, <2>3, Zenon DEF HoldsNow
<1>7. session_serial' <= MaxSessions /\ verification_serial' <= MaxVerifications /\ WorkersOK
  BY <1>5 DEF AtomicInv, IInv
<1>8. AtomicInv'
  BY <1>3, <1>4, <1>5, <1>6, <1>7, AtomicStep
<1> QED
  BY <1>4, <1>5, <1>8 DEF Unseen

LEMMA LogVerificationAtomic ==
  ASSUME IInv, AtomicInv, NEW w \in Workers, log_verification(w)
  PROVE  AtomicInv' /\ Unseen
<1>1. PICK y : y = worker[w]
  OBVIOUS
<1>2. PICK x : x = [at |-> "commit verification", id |-> verification_serial + 1,
                    row |-> VerdictRow(y, TAU)]
  OBVIOUS
<1>3. x.at = "commit verification" /\ x.row = VerdictRow(y, TAU)
  BY <1>2
<1>4. /\ worker' = [worker EXCEPT ![w] = x] /\ verification_serial' = verification_serial + 1
      /\ verification_serial < MaxVerifications /\ y.at = "log"
      /\ UNCHANGED <<sessions, verifications, session_serial, TAU, answers>>
  BY <1>1, <1>2 DEF log_verification
<1>5. /\ y.session_id \in DOMAIN sessions /\ y.claimed_output \in Claimed
      /\ y.result = Recomputed(sessions[y.session_id], y.claimed_output)
  BY <1>1, <1>4 DEF AtomicInv, HoldsNow
<1>6. VerdictRow(y, TAU) = Verdict(y.session_id, sessions[y.session_id], y.claimed_output, TAU)
  BY <1>5 DEF Verdict, VerdictRow
<1>7. HoldsNow(x)'
  <2>1. y.claimed_output \in Claimed'
    BY <1>4, <1>5, Zenon DEF Claimed
  <2>2. \E id \in DOMAIN sessions', claimed \in Claimed' :
          x.row = Verdict(id, sessions'[id], claimed, TAU')
    BY <1>3, <1>4, <1>5, <1>6, <2>1
  <2>3. x.at # "commit session" /\ x.at # "log"
    BY <1>3
  <2> QED
    BY <2>2, <2>3, Zenon DEF HoldsNow
<1>8. session_serial' <= MaxSessions /\ verification_serial' <= MaxVerifications /\ WorkersOK
  BY <1>4, ServerAssumption DEF AtomicInv, IInv, TablesOK
<1>9. Grows /\ x.at # "commit session"
  BY <1>3, <1>4 DEF Grows
<1>10. AtomicInv'
  BY <1>4, <1>7, <1>8, <1>9, AtomicStep
<1> QED
  BY <1>4, <1>10 DEF Unseen

\* A thread that is done, and what a client has been told.
LEMMA DoneAtomic ==
  ASSUME IInv, AtomicInv, UNCHANGED tables, TAU' = TAU, answers \subseteq answers', NEW w \in Workers,
         worker' = [worker EXCEPT ![w] = Idle]
  PROVE  AtomicInv'
<1>1. /\ Grows
      /\ UNCHANGED <<sessions, verifications, session_serial, verification_serial>>
  BY TablesStay
<1>2. Idle.at = "idle"
  BY DEF Idle
<1>3. HoldsNow(Idle)' /\ Idle.at # "commit session"
  BY <1>2 DEF HoldsNow
<1>4. session_serial' <= MaxSessions /\ verification_serial' <= MaxVerifications /\ WorkersOK
  BY <1>1 DEF AtomicInv, IInv
<1> QED
  BY <1>1, <1>3, <1>4, AtomicStep

LEMMA StartupAtomic ==
  ASSUME AtomicInv, NEW tau \in Taus, startup(tau)
  PROVE  AtomicInv' /\ Log!Restart(tau)
<1>1. /\ UNCHANGED tables /\ answers' = answers /\ TAU' = tau
      /\ \A w \in Workers : worker'[w] = Idle
  BY DEF startup
<1>2. UNCHANGED <<sessions, verifications, session_serial, verification_serial>>
  BY <1>1, TablesStay
<1>3. \A w \in Workers : worker'[w].at = "idle"
  BY <1>1 DEF Idle
<1>4. \A w \in Workers : HoldsNow(worker[w])'
  BY <1>3 DEF HoldsNow
<1>5. SeedsApart'
  BY <1>3 DEF SeedsApart
<1> QED
  BY <1>1, <1>2, <1>4, <1>5 DEF AtomicInv, Log!Restart

LEMMA GenerateAtomic ==
  ASSUME IInv, AtomicInv, NEW w \in Workers, NEW id \in DOMAIN sessions, NEW n \in Lengths,
         prover_generate(w, id, n)
  PROVE  /\ AtomicInv'
         /\ Unseen \/ \E a \in answers' \ answers : Log!Answer(a)
<1>1. PICK a : a = [kind |-> "output", id |-> id, output |-> Served(sessions[id], n)]
  OBVIOUS
<1>2. /\ UNCHANGED tables /\ TAU' = TAU /\ worker' = worker /\ worker[w] = Idle
      /\ answers' = answers \cup {a}
  BY <1>1 DEF prover_generate
<1>3. worker' = [worker EXCEPT ![w] = Idle]
  BY <1>2 DEF IInv, WorkersOK
<1>4. AtomicInv'
  BY <1>2, <1>3, DoneAtomic
<1>5. UNCHANGED <<sessions, verifications>>
  BY <1>2, TablesStay
<1>6. CASE a \in answers
  BY <1>2, <1>4, <1>5, <1>6 DEF Unseen
<1>7. CASE a \notin answers
  <2>1. Log!Answer(a)
    BY <1>1, <1>2, <1>5 DEF Log!Answer
  <2> QED
    BY <1>2, <1>4, <1>7, <2>1
<1> QED
  BY <1>6, <1>7

LEMMA AnswerVerdictAtomic ==
  ASSUME IInv, AtomicInv, NEW w \in Workers, AnswerVerdict(w)
  PROVE  /\ AtomicInv'
         /\ Unseen \/ \E a \in answers' \ answers : Log!Answer(a)
<1>1. PICK x : x = worker[w]
  OBVIOUS
<1>2. PICK a : a = [kind |-> "verdict", id |-> x.id, passed |-> x.row.passed,
                    low_confidence |-> x.row.low_confidence, tau_used |-> TAU]
  OBVIOUS
<1>3. /\ UNCHANGED tables /\ TAU' = TAU /\ worker' = [worker EXCEPT ![w] = Idle]
      /\ x.at = "answer" /\ answers' = answers \cup {a}
  BY <1>1, <1>2 DEF AnswerVerdict
<1>4. AtomicInv'
  BY <1>3, DoneAtomic
<1>5. UNCHANGED <<sessions, verifications>>
  BY <1>3, TablesStay
<1>6. x.id \in DOMAIN verifications /\ verifications[x.id] = x.row
  <2>1. HoldsAnswer(x)
    BY <1>1, <1>3, WhatIsHeld DEF IInv, WorkersOK
  <2> QED
    BY <2>1, Zenon DEF HoldsAnswer
<1>7. CASE a \in answers
  BY <1>3, <1>4, <1>5, <1>7 DEF Unseen
<1>8. CASE a \notin answers
  <2>1. \E id \in DOMAIN verifications :
          a = [kind |-> "verdict", id |-> id, passed |-> verifications[id].passed,
               low_confidence |-> verifications[id].low_confidence, tau_used |-> TAU]
    BY <1>2, <1>6
  <2>2. Log!Answer(a)
    BY <1>3, <1>5, <2>1 DEF Log!Answer
  <2> QED
    BY <1>3, <1>4, <1>8, <2>2
<1> QED
  BY <1>7, <1>8

\* Every step of a thread is one step of the promise, or none.
LEMMA NextAtomic ==
  ASSUME IInv, AtomicInv, [Next]_vars
  PROVE  AtomicInv' /\ [Log!Next]_(Log!auditVars)
<1>u. Unseen => UNCHANGED Log!auditVars
  BY DEF Unseen, Log!auditVars
<1>1. CASE UNCHANGED vars
  <2>1. /\ UNCHANGED tables /\ TAU' = TAU /\ answers' = answers /\ worker' = worker
    BY <1>1 DEF vars
  <2>2. UNCHANGED <<sessions, verifications, session_serial, verification_serial>>
    BY <2>1, TablesStay
  <2>3. Claimed' = Claimed
    BY <2>1 DEF Claimed
  <2>4. AtomicInv'
    BY <2>1, <2>2, <2>3 DEF AtomicInv, SeedsApart, HoldsNow
  <2> QED
    BY <1>u, <2>1, <2>2, <2>4 DEF Unseen
<1>2. ASSUME NEW tau \in Taus, startup(tau) PROVE AtomicInv' /\ Log!Next
  BY <1>2, StartupAtomic DEF Log!Next
<1>3. ASSUME NEW w \in Workers, Handle(w) PROVE AtomicInv' /\ (Unseen \/ Log!Next)
  <2>1. ASSUME NEW req \in Requests, NEW seed \in Seeds, start_session(w, req, seed)
        PROVE  AtomicInv' /\ Unseen
    BY <2>1, StartSessionAtomic
  <2>2. CASE CommitSession(w)
    BY <2>2, CommitSessionAtomic DEF Log!Next
  <2>3. ASSUME NEW id \in DOMAIN sessions, NEW n \in Lengths, prover_generate(w, id, n)
        PROVE  AtomicInv' /\ (Unseen \/ Log!Next)
    BY <2>3, GenerateAtomic DEF Log!Next
  <2>4. ASSUME NEW id \in DOMAIN sessions, NEW claimed \in Claimed, verify(w, id, claimed)
        PROVE  AtomicInv' /\ Unseen
    BY <2>4, VerifyAtomic
  <2>5. CASE log_verification(w)
    BY <2>5, LogVerificationAtomic
  <2>6. CASE CommitVerification(w)
    BY <2>6, CommitVerificationAtomic DEF Log!Next
  <2>7. CASE AnswerVerdict(w)
    BY <2>7, AnswerVerdictAtomic DEF Log!Next
  <2>8. CASE Rollback(w)
    <3>1. /\ UNCHANGED tables /\ TAU' = TAU /\ answers' = answers
          /\ worker' = [worker EXCEPT ![w] = Idle]
      BY <2>8 DEF Rollback
    <3>2. AtomicInv'
      BY <3>1, DoneAtomic
    <3> QED
      BY <3>1, <3>2, TablesStay DEF Unseen
  <2> QED
    BY <1>3, <2>1, <2>2, <2>3, <2>4, <2>5, <2>6, <2>7, <2>8 DEF Handle
<1> QED
  BY <1>u, <1>1, <1>2, <1>3 DEF Next

\* What a thread holds between its steps is what it would write at once, in every
\* interleaving of threads, failed commits and restarts.
THEOREM AtomicInvariant == Spec => []AtomicInv
<1>1. Init => AtomicInv
  BY InitAtomicInv
<1>2. IInv /\ AtomicInv /\ [Next]_vars => AtomicInv'
  BY NextAtomic
<1> QED
  BY <1>1, <1>2, ServerInvariant, PTL DEF Spec

\* server.py over db.py implements AuditLog: its tables and answers are those of a
\* server that opens a session, judges and logs a claim, or answers in one step.
THEOREM ServerImplements == Spec => ImplementsAuditLog
<1>1. Init => Log!Init
  BY DEF Init, Log!Init
<1>2. IInv /\ AtomicInv /\ [Next]_vars => [Log!Next]_(Log!auditVars)
  BY NextAtomic
<1> QED
  BY <1>1, <1>2, ServerInvariant, AtomicInvariant, PTL DEF Spec, ImplementsAuditLog, Log!Spec
=============================================================================

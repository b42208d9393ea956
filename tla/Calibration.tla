---------------------------- MODULE Calibration ----------------------------
(***************************************************************************)
(* What the scripts compute from deviations and scores: calibration.py's   *)
(* AUC of two samples of deviations, and stego_capacity.py's water-filling *)
(* of an average budget over the positions of an output.  Deviations are   *)
(* totals of outputs of one length, so they compare as averages do.        *)
(***************************************************************************)
EXTENDS Integers, Sequences, SequencesExt

-----------------------------------------------------------------------------
(* calibration.auc: rank sum with tie correction *)

\* Where argsort puts each score: ranks[order] = 1, 2, ...  In which order it puts
\* tied ones is lost in their average.
Places(scores) ==
  [i \in 1..Len(scores) |->
     Cardinality({j \in 1..Len(scores) : scores[j] < scores[i] \/ (scores[j] = scores[i] /\ j <= i)})]

\* Twice the rank of each score: without the tie correction.
RanksAsPlaced(all_scores) == [i \in 1..Len(all_scores) |-> 2 * Places(all_scores)[i]]

\* A tied block shares its average rank, that of its first and of its last place.
RanksDoubled(all_scores) ==
  LET ranks == Places(all_scores)
  IN  [i \in 1..Len(all_scores) |->
         LET block == {ranks[j] : j \in {k \in 1..Len(all_scores) : all_scores[k] = all_scores[i]}}
         IN  Min(block) + Max(block)]

\* As a fraction; one half when a sample is empty.
auc(pos_scores, neg_scores) ==
  LET ranks == RanksDoubled(pos_scores \o neg_scores)
      n_pos == Len(pos_scores)
      n_neg == Len(neg_scores)
      rank_sum_pos == SumFunction([i \in 1..n_pos |-> ranks[i]])
  IN  IF n_pos = 0 \/ n_neg = 0 THEN [num |-> 1, den |-> 2]
      ELSE [num |-> rank_sum_pos - n_pos * (n_pos + 1), den |-> 2 * n_pos * n_neg]

\* The pairs in which a dishonest output deviates more than an honest one, a tie
\* counting half: out of twice their number, what the area under the curve is.
MoreOrTied(pos_scores, neg_scores) ==
  LET pairs == (1..Len(pos_scores)) \X (1..Len(neg_scores))
  IN  2 * Cardinality({p \in pairs : pos_scores[p[1]] > neg_scores[p[2]]})
        + Cardinality({p \in pairs : pos_scores[p[1]] = neg_scores[p[2]]})

-----------------------------------------------------------------------------
(* stego_capacity: choosing among the k best tokens of a position carries   *)
(* log2(k) bits and costs the mean of their k costs.                        *)

\* The k-th best score, in descending order.
top_scores(s, k) ==
  CHOOSE v \in {s[t] : t \in DOMAIN s} :
    /\ Cardinality({t \in DOMAIN s : s[t] > v}) < k
    /\ k <= Cardinality({t \in DOMAIN s : s[t] >= v})

\* top_scores[0] - top_scores
cost_curve_at_position(s, max_k) ==
  [k \in 1..Min({max_k, Cardinality(DOMAIN s)}) |-> top_scores(s, 1) - top_scores(s, k)]

Sum(curve, k) == SumFunction(SubSeq(curve, 1, k))

\* Thousandths of log2(k+1) - log2(k).
marginal_bits(k) == CASE k = 1 -> 1000 [] k = 2 -> 585 [] k = 3 -> 415

\* expected_cost_k1 * (k + 1) - expected_cost_k * k
marginal_cost(curve, k) == Sum(curve, k + 1) - Sum(curve, k)

\* marginal cost per bit, least first; free bits before all others.
Cheaper(c, k, d, l) ==
  IF c <= 0 THEN d > 0 ELSE d > 0 /\ c * marginal_bits(l) < d * marginal_bits(k)

\* The position whose expansion is cheapest, the first of them; 0 when all are full.
best(curves, current_k) ==
  LET cost(i) == marginal_cost(curves[i], current_k[i])
      open    == {i \in 1..Len(curves) : current_k[i] < Len(curves[i])}
      best_i  == {i \in open : \A j \in open : ~ Cheaper(cost(j), current_k[j], cost(i), current_k[i])}
  IN  IF open = {} THEN 0 ELSE Min(best_i)

\* Spends what is left of the budget on the last expansion whatever it costs.
FillOver(curves, budget, filled) ==
  LET i == best(curves, filled.current_k)
  IN  IF i = 0 \/ filled.total_cost >= budget THEN filled
      ELSE [current_k  |-> [filled.current_k EXCEPT ![i] = @ + 1],
            total_cost |-> filled.total_cost + marginal_cost(curves[i], filled.current_k[i])]

\* One turn of the while loop; it breaks at the first expansion beyond the budget.
Fill(curves, budget, filled) ==
  LET i     == best(curves, filled.current_k)
      added == marginal_cost(curves[i], filled.current_k[i])
  IN  IF i = 0 THEN filled
      ELSE IF filled.total_cost + added > budget THEN filled
      ELSE [current_k  |-> [filled.current_k EXCEPT ![i] = @ + 1],
            total_cost |-> filled.total_cost + added]

water_fill_capacity(curves, tau) ==
  LET turns == SumFunction([i \in 1..Len(curves) |-> Len(curves[i])])
      fill[n \in 0..turns] ==
        IF n = 0 THEN [current_k |-> [i \in 1..Len(curves) |-> 1], total_cost |-> 0]
        ELSE Fill(curves, Len(curves) * tau, fill[n-1])
  IN  fill[turns]
=============================================================================

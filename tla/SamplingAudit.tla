--------------------------- MODULE SamplingAudit ---------------------------
(***************************************************************************)
(* The provers the scripts set against DiFR (calibration.py,               *)
(* verified_evals.py with lora.py, redteam.py, commitment_scheme.py), one  *)
(* token at a time, and the loops that verify what they generate: one      *)
(* output per trial, two with the same seed, a short one and a long one, or *)
(* up to k of which the first to pass is reported.                         *)
(*                                                                         *)
(* Difr's Scores are those of the verifier's model: its logits over the    *)
(* temperature plus the noise.  Claims stand for the tokens they encode.   *)
(* Committed logits are taken over the temperature, which keeps their      *)
(* order; a prover opens what it committed to, as every prover here does.  *)
(***************************************************************************)
EXTENDS Difr, Calibration

CONSTANTS Logits(_, _), Noise(_, _),  \* (window, temperature), (seed, position)
          Delta(_),                   \* (window): what the adapter adds to the scores
          VariantScores(_, _, _, _),  \* (sequence, seed, position, temperature): another checkpoint
          Provers,                    \* [loop, by, T, bits]: the experiments
          Prompts, Trigger,           \* token sequences
          TOP_K_COMMIT, PER_TOKEN_BUDGET, MAX_K, PASS_TAU,
          NOISE,                      \* the 0.01 below which patch 2 takes a deviation for noise
          N_REQUESTS, K_ATTEMPTS, SHORT_TOKENS, MAX_TOKENS

Kinds == {"honest", "variant", "dormant", "active", "stego", "committed", "committed_stego"}
Loops == {"deviations", "prompt_set", "case_A", "stego", "warden", "shopping", "resampling"}

ASSUME SamplingAssumption ==
  /\ \A p \in Provers : p.loop \in Loops /\ p.by \in Kinds /\ p.T \in Temperatures /\ p.bits \in Seq({0, 1})
  \* stego_report and the warden's trials have generators of their own, used nowhere else.
  /\ \A p \in Provers : /\ p.loop = "stego" <=> p.by = "stego"
                        /\ p.loop = "warden" <=> p.by \in {"committed", "committed_stego"}
  /\ Prompts \subseteq Seq(Vocab) /\ Trigger \in Seq(Vocab)
  /\ \A p \in Prompts : Len(p) <= MaxText
  /\ SHORT_TOKENS \in 1..MAX_TOKENS /\ MAX_TOKENS \in 1..MaxText /\ ContextLen <= MaxText
  /\ TOP_K_COMMIT \in Nat \ {0} /\ N_REQUESTS \in Nat /\ K_ATTEMPTS \in Nat \ {0}
  /\ PER_TOKEN_BUDGET \in Nat /\ MAX_K \in 1..3 /\ PASS_TAU \in Nat /\ NOISE \in Nat
  /\ IsFiniteSet(Vocab)
  /\ TOP_K > 1 /\ \E t, u \in Vocab : t # u  \* there is a second choice, inside the top k

ASSUME LogitsAssumption ==
  \A window \in [1..ContextLen -> Vocab], seed \in Seeds, pos \in 0..(2 * MaxText), T \in Temperatures :
    Scores(window, seed, pos, T) = [t \in Vocab |-> Logits(window, T)[t] + Noise(seed, pos)[t]]

\* Every model scores every token.
ASSUME ModelsAssumption ==
  /\ \A w \in [1..ContextLen -> Vocab] : Delta(w) \in [Vocab -> Int]
  /\ \A n \in 0..(2 * MaxText) : \A s \in [1..n -> Vocab], pos \in 0..(2 * MaxText) :
       \A sd \in Seeds, T \in Temperatures : VariantScores(s, sd, pos, T) \in [Vocab -> Int]

VARIABLES prover,     \* the experiment that runs
          prompt, seed, out,
          scored,     \* the deviations the steganographer reckons for itself
          encoded,    \* bits_encoded
          committed,  \* what was committed to before each token
          attempt,    \* the output of this trial that is being generated; 0 between trials
          first_attempt_result,
          devs,       \* total deviations of the outputs verified, in order
          tally       \* trials, and what shopping and resampling count

session == <<prompt, seed, out, scored, encoded, committed>>
samplingVars == <<prover, session, attempt, first_attempt_result, devs, tally>>

-----------------------------------------------------------------------------
(* One token *)

window == LeftPad(LastTokens(prompt \o out))
position == Len(prompt) + Len(out)
scores == Scores(window, seed, position, prover.T)

\* order[1]: the runner-up.
Second(s) == CHOOSE t \in Vocab \ {Top(s)} : \A u \in Vocab \ {Top(s)} : s[u] <= s[t]

\* commit: the k highest logits, before the noise is used.
commit(logits) ==
  LET top_k == {t \in Vocab : Cardinality({u \in Vocab : logits[u] > logits[t]}) < TOP_K_COMMIT}
  IN  [t \in top_k |-> logits[t]]

forward_with_adapter(mask) == [t \in Vocab |-> scores[t] + (IF mask THEN Delta(window)[t] ELSE 0)]

\* verify_prompt_set generates honestly first; resampling takes a short output first.
generator  == IF prover.loop = "prompt_set" /\ attempt = 1 THEN "honest" ELSE prover.by
max_tokens == IF prover.loop = "resampling" /\ attempt = 1 THEN SHORT_TOKENS ELSE MAX_TOKENS

Running(by) == attempt > 0 /\ Len(out) < max_tokens /\ generator = by

Emit(token) ==
  /\ out' = Append(out, token)
  /\ UNCHANGED <<prover, prompt, seed, attempt, first_attempt_result, devs, tally>>

gen_honest_t ==
  Running("honest") /\ Emit(Top(scores)) /\ UNCHANGED <<scored, encoded, committed>>

gen_variant_t ==
  /\ Running("variant")
  /\ Emit(Top(VariantScores(prompt \o out, seed, position, prover.T)))
  /\ UNCHANGED <<scored, encoded, committed>>

\* The mask is forgotten.
AdapterAlwaysOn(by) ==
  /\ Running(by)
  /\ Emit(Top(forward_with_adapter(TRUE)))
  /\ UNCHANGED <<scored, encoded, committed>>

gen_with_adapter(by) ==
  /\ Running(by)
  /\ Emit(Top(forward_with_adapter(by = "active")))
  /\ UNCHANGED <<scored, encoded, committed>>

Wants(bit) == encoded < Len(prover.bits) /\ prover.bits[encoded + 1] = bit
cost_of_rank1 == scores[Top(scores)] - scores[Second(scores)]
CanEncode == Wants(1) /\ cost_of_rank1 <= PER_TOKEN_BUDGET

\* A bit that is not affordable is given up.
StegoSkips ==
  /\ Running("stego")
  /\ Emit(IF CanEncode THEN Second(scores) ELSE Top(scores))
  /\ scored' = Append(scored, IF CanEncode THEN cost_of_rank1 ELSE 0)
  /\ encoded' = encoded + (IF Wants(0) \/ Wants(1) THEN 1 ELSE 0)
  /\ UNCHANGED committed

\* The cost is not added to the attacker's own record.
StegoScoresNothing ==
  /\ Running("stego")
  /\ Emit(IF CanEncode THEN Second(scores) ELSE Top(scores))
  /\ scored' = Append(scored, 0)
  /\ encoded' = encoded + (IF CanEncode \/ Wants(0) THEN 1 ELSE 0)
  /\ UNCHANGED committed

\* Also the deviation from the verifier's choice, as the attacker reckons it.
stego_generate_and_score ==
  /\ Running("stego")
  /\ \/ /\ CanEncode
        /\ Emit(Second(scores))
        /\ scored' = Append(scored, IF cost_of_rank1 < DELTA_MAX THEN cost_of_rank1 ELSE DELTA_MAX)
        /\ encoded' = encoded + 1
     \/ /\ ~ CanEncode
        /\ Emit(Top(scores))
        /\ scored' = Append(scored, 0)
        /\ encoded' = encoded + (IF Wants(0) THEN 1 ELSE 0)
  /\ UNCHANGED committed

committed_generate_honest ==
  /\ Running("committed")
  /\ committed' = Append(committed, commit(Logits(window, prover.T)))
  /\ Emit(Top(scores))
  /\ UNCHANGED <<scored, encoded>>

\* The budget is not asked for.
CommittedStegoAtAnyCost ==
  /\ Running("committed_stego")
  /\ committed' = Append(committed, commit(Logits(window, prover.T)))
  /\ \/ Wants(1) /\ Emit(Second(scores)) /\ encoded' = encoded + 1
     \/ ~ Wants(1) /\ Emit(Top(scores)) /\ UNCHANGED encoded
  /\ UNCHANGED scored

\* Unlike stego_generate_and_score, a 0 is never passed over.
committed_generate_stego ==
  /\ Running("committed_stego")
  /\ committed' = Append(committed, commit(Logits(window, prover.T)))
  /\ \/ CanEncode /\ Emit(Second(scores)) /\ encoded' = encoded + 1
     \/ ~ CanEncode /\ Emit(Top(scores)) /\ UNCHANGED encoded
  /\ UNCHANGED scored

Generate ==
  \/ gen_honest_t \/ gen_variant_t \/ \E by \in {"dormant", "active"} : gen_with_adapter(by)
  \/ stego_generate_and_score \/ committed_generate_honest \/ committed_generate_stego

-----------------------------------------------------------------------------
(* The warden: what the committed logits predict once the noise is known. *)

\* The noise is left out.
PredictedByLogits(i) ==
  LET logits == committed[i]
  IN  CHOOSE t \in DOMAIN logits : \A u \in DOMAIN logits : logits[u] <= logits[t]

predicted_tok(i) ==
  LET logits == committed[i]
      g      == Noise(seed, Len(prompt) + i - 1)
  IN  CHOOSE t \in DOMAIN logits : \A u \in DOMAIN logits : logits[u] + g[u] <= logits[t] + g[t]

Inconsistent == {i \in 1..Len(committed) : predicted_tok(i) # out[i]}

-----------------------------------------------------------------------------
(* The loops *)

SamplingInit ==
  /\ prover \in Provers
  /\ prompt = <<>> /\ seed \in Seeds /\ out = <<>> /\ scored = <<>> /\ encoded = 0 /\ committed = <<>>
  /\ attempt = 0 /\ first_attempt_result = FALSE /\ devs = <<>>
  /\ tally = [trials |-> 0, created |-> 0, reported |-> 0, shopped_pass |-> 0, single_attempt_pass |-> 0,
              both_pass |-> 0]

Blank == out' = <<>> /\ scored' = <<>> /\ encoded' = 0 /\ committed' = <<>>

\* Retries are not counted.
CreateForRequest(count) ==
  /\ seed' \in Seeds /\ Blank
  /\ tally' = [count EXCEPT !.created = @ + (IF attempt = 0 THEN 1 ELSE 0)]

\* seed = rng.integers(...); total_sessions_created += 1
Create(count) == seed' \in Seeds /\ Blank /\ tally' = [count EXCEPT !.created = @ + 1]

\* The prompts of an activated adapter end in its trigger.
Prompt(p) == IF prover.by = "active" THEN LastTokens(p \o Trigger) ELSE p

\* The head of every loop: a prompt and a seed.  Only shopping counts its sessions.
Request ==
  /\ attempt = 0 /\ tally.trials < N_REQUESTS
  /\ \E p \in Prompts : prompt' = Prompt(p)
  /\ LET count == [tally EXCEPT !.trials = @ + 1]
     IN  \/ prover.loop = "shopping" /\ Create(count)
         \/ prover.loop # "shopping" /\ seed' \in Seeds /\ Blank /\ tally' = count
  /\ attempt' = 1 /\ first_attempt_result' = FALSE
  /\ UNCHANGED <<prover, devs>>

result == Recompute(prompt, out, seed, prover.T)
tokens == per_token(prompt, out, seed, prover.T)
passed == avg_at_most(result, PASS_TAU)

\* Patch 2 looks at the tokens that deviate by more than noise instead of at the average.
nonzero_tokens == Cardinality({i \in 1..Len(out) : tokens[i].deviation > NOISE})

\* What choosing another token would have cost at each position of an honest output.
gather_cost_curves ==
  [i \in 1..Len(out) |->
     LET pos == Len(prompt) + i - 1
     IN  cost_curve_at_position(Scores(Context(prompt \o out, pos), seed, pos, prover.T), MAX_K)]

\* An output of this loop is finished, and verified.
Finished(loop) == prover.loop = loop /\ attempt > 0 /\ Len(out) = max_tokens /\ UNCHANGED prover

\* One output per trial: its deviation is added to the list.
Measured(loop) ==
  /\ Finished(loop)
  /\ devs' = Append(devs, result.total)
  /\ attempt' = 0
  /\ UNCHANGED <<session, first_attempt_result, tally>>

gen_deviations == Measured("deviations")
case_A         == Measured("case_A")
stego_report   == Measured("stego")
warden_trial   == Measured("warden")

\* honest_out, then dishonest_out, on one prompt with one seed.
verify_prompt_set ==
  /\ Finished("prompt_set")
  /\ devs' = Append(devs, result.total)
  /\ \/ attempt = 1 /\ attempt' = 2 /\ Blank
     \/ attempt = 2 /\ attempt' = 0 /\ UNCHANGED <<out, scored, encoded, committed>>
  /\ UNCHANGED <<prompt, seed, first_attempt_result, tally>>

One(condition) == IF condition THEN 1 ELSE 0

\* What shopping has counted when an attempt has been verified.
Counted(first) ==
  [tally EXCEPT !.reported = @ + One(passed),
                !.shopped_pass = @ + One(passed),
                !.single_attempt_pass = @ + One(first /\ (passed \/ attempt = K_ATTEMPTS))]

\* A passing attempt ends the request, and so does the last one; the first
\* attempt's result is remembered until then.
attack1_session_shopping ==
  LET first == IF attempt = 1 THEN passed ELSE first_attempt_result
  IN  /\ Finished("shopping")
      /\ first_attempt_result' = first
      /\ \/ /\ passed \/ attempt = K_ATTEMPTS
            /\ tally' = Counted(first)
            /\ attempt' = 0
            /\ UNCHANGED session
         \/ /\ ~ passed /\ attempt < K_ATTEMPTS
            /\ Create(Counted(first))
            /\ attempt' = attempt + 1
            /\ UNCHANGED prompt
      /\ UNCHANGED devs

\* The short output and the long one of the same prompt must both pass.
patch3_mandatory_resampling ==
  /\ Finished("resampling")
  /\ \/ /\ attempt = 1
        /\ attempt' = 2 /\ first_attempt_result' = passed
        /\ seed' \in Seeds /\ Blank
        /\ UNCHANGED <<prompt, tally>>
     \/ /\ attempt = 2
        /\ attempt' = 0
        /\ tally' = [tally EXCEPT !.both_pass = @ + One(first_attempt_result /\ passed)]
        /\ UNCHANGED <<session, first_attempt_result>>
  /\ UNCHANGED devs

Verify ==
  \/ gen_deviations \/ case_A \/ stego_report \/ warden_trial
  \/ verify_prompt_set \/ attack1_session_shopping \/ patch3_mandatory_resampling

SamplingNext == Request \/ Generate \/ Verify

SamplingSpec == SamplingInit /\ [][SamplingNext]_samplingVars

-----------------------------------------------------------------------------
(* Properties *)

Open == One(attempt > 0)

\* An honest prover, one that committed to its logits, and one whose adapter is
\* dormant pass every verification with a deviation of zero, whatever loop it runs
\* in: it abandons no session, and no pair of outputs is refused.  The honest twin of
\* a dishonest output, generated with the same seed, deviates no more.
HonestLeavesNoTrace ==
  /\ prover.by \in {"honest", "committed", "dormant"} =>
       /\ \A i \in 1..Len(devs) : devs[i] = 0
       /\ prover.loop = "shopping" => tally.created = tally.reported + Open
       /\ prover.loop = "resampling" => tally.trials = tally.both_pass + Open
  /\ prover.loop = "prompt_set" => \A i \in 1..Len(devs) : i % 2 = 1 => devs[i] = 0

\* Shopping for a seed gains no more passes than it leaves sessions created and
\* never reported, which is what patch 1 looks at.
ShoppingLeavesTraces ==
  prover.loop = "shopping" =>
    tally.shopped_pass - tally.single_attempt_pass <= tally.created - tally.reported - Open

\* What the steganographer reckons for itself, token by token as it generates, is
\* what the verifier recomputes from the finished output at once.
SelfScoreIsTheVerifiers ==
  prover.by = "stego" => scored = [i \in 1..Len(out) |-> tokens[i].deviation]

\* Smuggling within a budget per token keeps the average within that budget,
\* however many bits: an average threshold of at least the budget misses it.
BudgetBoundsTheAverage ==
  prover.by \in {"stego", "committed_stego"} => avg_at_most(result, PER_TOKEN_BUDGET)

\* Tokens that deviate, by no more than patch 2 takes for noise.
slight_tokens == Cardinality({i \in 1..Len(out) : tokens[i].deviation \in 1..NOISE})

\* Patch 2 counts the 1 bits encoded and nothing else, but for those that were hidden
\* where the runner-up cost no more than noise: they are all it misses.
DetectorMissesOnlySlightBits ==
  prover.by \in {"stego", "committed_stego"} =>
    nonzero_tokens + slight_tokens = Cardinality({j \in 1..encoded : prover.bits[j] = 1})

Choice(i) == Top(Scores(Context(prompt \o out, Len(prompt) + i - 1), seed, Len(prompt) + i - 1, prover.T))

\* Wherever the verifier's choice is among the logits committed to, the warden
\* finds a mismatch exactly if another token was revealed: no bit escapes it and
\* no honest token is accused.  Elsewhere the commitment was cut short.
WardenIsExactWithinItsTopK ==
  \A i \in 1..Len(committed) :
    Choice(i) \in DOMAIN committed[i] => (i \in Inconsistent <=> out[i] # Choice(i))

\* The rank sum with averaged ties counts the pairs of a dishonest and an honest
\* score that are in order, for every way to cut the deviations verified so far
\* into two samples.
AucCountsPairs ==
  \A n \in 0..Len(devs) :
    LET pos == SubSeq(devs, 1, n)
        neg == SubSeq(devs, n + 1, Len(devs))
        a   == auc(pos, neg)
    IN  IF n \in {0, Len(devs)} THEN 2 * a.num = a.den
        ELSE a = [num |-> MoreOrTied(pos, neg), den |-> 2 * n * Len(neg)]

\* The allocation water-filling finds can be paid for: the mean cost of choosing
\* evenly among the tokens of each position stays within the average budget.
WaterFillIsAffordable ==
  prover.by = "honest" => \A tau \in 0..PASS_TAU :
    LET curves == gather_cost_curves
        filled == water_fill_capacity(curves, tau)
        sixths == [i \in 1..Len(out) |-> (6 \div filled.current_k[i]) * Sum(curves[i], filled.current_k[i])]
    IN  SumFunction(sixths) <= 6 * Len(out) * tau
=============================================================================

-------------------------------- MODULE Difr --------------------------------
(***************************************************************************)
(* sampling.py and difr.py: seeded sampling, one token at a time, and the  *)
(* verifier's recomputation of all positions of a claimed output at once.  *)
(*                                                                         *)
(* A model and its noise are one operator, Scores(window, seed, position,  *)
(* temperature), which maps each token to logits / temperature + gumbel    *)
(* noise.  Prover and verifier load the same checkpoint; that a matrix     *)
(* product of one row and of many round alike is taken for granted.        *)
(* Scores are integers here: only their order, differences and the clip    *)
(* matter.                                                                 *)
(***************************************************************************)
EXTENDS Integers, Sequences, FiniteSets

CONSTANTS Vocab,       \* token numbers; 0 also pads short windows
          Seeds,       \* what secrets.randbits may return
          Temperatures,
          ContextLen,  \* model.context_len
          TOP_K, DELTA_MAX, LOW_CONFIDENCE_TOKEN_THRESHOLD,
          MaxText,     \* bound: the length of a prompt and of an output
          Scores(_, _, _, _)

ASSUME DifrAssumption ==
  /\ Vocab \subseteq Nat /\ 0 \in Vocab
  /\ ContextLen \in Nat \ {0} /\ TOP_K \in Nat \ {0} /\ DELTA_MAX \in Nat \ {0}
  /\ LOW_CONFIDENCE_TOKEN_THRESHOLD \in Nat \ {0} /\ MaxText \in Nat

\* One token has the highest score: ties have probability 0.
ASSUME ScoresAssumption ==
  \A window \in [1..ContextLen -> Vocab], seed \in Seeds, pos \in 0..(2 * MaxText), T \in Temperatures :
    /\ Scores(window, seed, pos, T) \in [Vocab -> Int]
    /\ \E t \in Vocab : \A u \in Vocab \ {t} :
         Scores(window, seed, pos, T)[u] < Scores(window, seed, pos, T)[t]

-----------------------------------------------------------------------------
(* The prover *)

Top(scores) == CHOOSE t \in Vocab : \A u \in Vocab : scores[u] <= scores[t]

sample_token(window, seed, pos, T) == Top(Scores(window, seed, pos, T))

\* seq[-ctx_len:]
LastTokens(s) == IF Len(s) <= ContextLen THEN s ELSE SubSeq(s, Len(s) - ContextLen + 1, Len(s))

\* [0] * (ctx_len - len(window)) + window
LeftPad(s) ==
  [i \in 1..ContextLen |-> IF i <= ContextLen - Len(s) THEN 0 ELSE s[i - (ContextLen - Len(s))]]

\* One turn of the prover's loop.
NextToken(prompt, out, seed, T) ==
  sample_token(LeftPad(LastTokens(prompt \o out)), seed, Len(prompt) + Len(out), T)

Outputs(prompt, seed, T) ==
  LET out[k \in 0..MaxText] ==
        IF k = 0 THEN <<>> ELSE Append(out[k-1], NextToken(prompt, out[k-1], seed, T))
  IN  out

generate(prompt, seed, T, max_tokens) == Outputs(prompt, seed, T)[max_tokens]

-----------------------------------------------------------------------------
(* The verifier *)

\* One token short of a full window.
ShortContext(full, end) ==
  LeftPad(SubSeq(full, IF end > ContextLen THEN end - ContextLen + 2 ELSE 1, end))

\* full_seq[max(0, start):end], padded: what precedes the token at position end.
Context(full, end) ==
  LeftPad(SubSeq(full, IF end > ContextLen THEN end - ContextLen + 1 ELSE 1, end))

PerToken(scores, claimed) ==
  LET rank == Cardinality({u \in Vocab : scores[u] > scores[claimed]})
      raw  == scores[Top(scores)] - scores[claimed]
  IN  IF rank < TOP_K
      THEN [deviation |-> IF raw < DELTA_MAX THEN raw ELSE DELTA_MAX, clipped |-> raw >= DELTA_MAX]
      ELSE [deviation |-> DELTA_MAX, clipped |-> TRUE]

per_token(prompt, claimed, seed, T) ==
  [i \in 1..Len(claimed) |->
     PerToken(Scores(Context(prompt \o claimed, Len(prompt) + i - 1), seed, Len(prompt) + i - 1, T),
              claimed[i])]

Total(tokens) ==
  LET sum[k \in 0..Len(tokens)] == IF k = 0 THEN 0 ELSE sum[k-1] + tokens[k].deviation
  IN  sum[Len(tokens)]

\* avg_deviation is total / n_tokens, and 0.0 for an empty output.
Recompute(prompt, claimed, seed, T) ==
  LET tokens == per_token(prompt, claimed, seed, T)
  IN  [total          |-> Total(tokens),
       n_tokens       |-> Len(claimed),
       low_confidence |-> Len(claimed) < LOW_CONFIDENCE_TOKEN_THRESHOLD,
       any_clipped    |-> \E i \in 1..Len(claimed) : tokens[i].clipped]

avg_below(result, tau) ==
  IF result.n_tokens = 0 THEN 0 < tau ELSE result.total < tau * result.n_tokens

avg_at_most(result, tau) ==
  IF result.n_tokens = 0 THEN 0 <= tau ELSE result.total <= tau * result.n_tokens
=============================================================================

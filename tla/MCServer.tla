------------------------------ MODULE MCServer ------------------------------
(* An instance of DifrServer for TLC. *)
EXTENDS DifrServer, TLC

CONSTANTS w1, w2
MCWorkers == {w1, w2}
MCSymmetry == Permutations(MCWorkers)

\* Three tokens; every part of the window, the seed, the position and the
\* temperature moves the ranking.
MCVocab == 0..2
MCScores(window, seed, pos, T) ==
  LET h == window[1] + 2 * window[2] + seed + 2 * pos + T
  IN  [t \in MCVocab |-> (t + h) % 3]

MCSTOI == [c \in {"a", "b", "c"} |-> CASE c = "a" -> 0 [] c = "b" -> 1 [] c = "c" -> 2]
MCITOS == [t \in MCVocab |-> CASE t = 0 -> "a" [] t = 1 -> "b" [] t = 2 -> "c"]

\* A prompt shorter than the window, so that it is padded at first and slides later.
MCRequests == {[prompt |-> <<"b">>, temperature |-> 1]}
\* Its cost is 4 under one seed and 1 under the other; what one seed serves costs 3
\* under the other: verdicts of both kinds at averages that are stored rounded.
MCClaims == {<<>>, <<"c", "a", "a">>}
=============================================================================

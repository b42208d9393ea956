----------------------------- MODULE MCSampling -----------------------------
(* An instance of SamplingAudit for TLC, and one of MemoryWipe, the other     *)
(* component that is audited by samples.  They share nothing: a behaviour is of *)
(* one of them, which subject says.                                             *)
EXTENDS SamplingAudit, MemoryWipe

MCVocab == 0..3

\* The window moves the logits, seed and position move the noise; two tokens
\* never score alike.
MCLogits(w, T) ==
  LET h == w[1] + 2 * w[2] IN [t \in MCVocab |-> 4 * (((t + h) * (T + 1)) % 5) + t]
MCNoise(sd, pos) == [t \in MCVocab |-> 4 * (((t + 1) * (sd + 2) + 3 * pos) % 7)]
MCScores(w, sd, pos, T) ==
  LET l == MCLogits(w, T)
      g == MCNoise(sd, pos)
  IN  [t \in MCVocab |-> l[t] + g[t]]
MCDelta(w) == [t \in MCVocab |-> IF t = 3 THEN 9 ELSE 0]
MCVariantScores(s, sd, pos, T) ==
  LET g == MCNoise(sd, pos)
      last == IF s = <<>> THEN 0 ELSE s[Len(s)]
  IN  [t \in MCVocab |-> 4 * ((t + 3 * last) % 4) + t + g[t]]

Prover(loop, by, T, bits) == [loop |-> loop, by |-> by, T |-> T, bits |-> bits]
MCBits == {<<1, 0, 1>>, <<0, 1>>, <<1, 1, 1>>}
MCProvers ==
  {Prover("deviations", by, T, <<>>) : by \in {"honest", "variant"}, T \in {1, 2}}
    \cup {Prover("case_A", by, 1, <<>>) : by \in {"dormant", "active"}}
    \cup {Prover(loop, by, 1, <<>>) : loop \in {"shopping", "resampling"}, by \in {"honest", "variant"}}
    \cup {Prover("stego", "stego", 1, bits) : bits \in MCBits}
    \cup {Prover("warden", "committed_stego", 1, bits) : bits \in MCBits}
    \cup {Prover("warden", "committed", 1, <<>>), Prover("prompt_set", "variant", 1, <<>>)}

\* One prompt shorter than the window, one longer.
MCPrompts == {<<1>>, <<2, 3, 1>>}
MCTrigger == <<3>>

VARIABLE subject

MCInit ==
  /\ SamplingInit /\ WipeInit
  /\ \/ subject = "sampling" /\ second_parent = [i \in Blocks |-> 0]
     \/ subject = "region" /\ prover = Prover("deviations", "honest", 1, <<>>)

MCNext ==
  /\ UNCHANGED subject
  /\ \/ subject = "sampling" /\ SamplingNext /\ UNCHANGED wipeVars
     \/ subject = "region" /\ WipeNext /\ UNCHANGED samplingVars

MCSpec == MCInit /\ [][MCNext]_<<samplingVars, wipeVars, subject>>
=============================================================================

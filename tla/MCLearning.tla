----------------------------- MODULE MCLearning -----------------------------
(* An instance of ProofOfLearning for TLC. *)
EXTENDS ProofOfLearning

MCKeys == {"prover", "other"}
\* What an edit may put into the log: a longer first segment than was trained.
MCPayloads == {Segment(0, InitialModel, run_segment(InitialModel, 2, 3, LR), 2, 3, LR)}
=============================================================================

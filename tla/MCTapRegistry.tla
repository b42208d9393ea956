--------------------------- MODULE MCTapRegistry ---------------------------
(* An instance of TapRegistry for TLC. *)
EXTENDS TapRegistry, TLC

CONSTANTS t1, t2
MCTaps == {t1, t2}
MCSymmetry == Permutations(MCTaps)

MCSerials == {"A", "B"}
MCKeys == {"registry", "other"}
\* What an edit may put into the log: another serial, or an inspection that found nothing.
MCPayloads == {install(t, "B") : t \in Taps} \cup {inspection(t, "A", TRUE) : t \in Taps}
=============================================================================

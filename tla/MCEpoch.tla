-------------------------------- MODULE MCEpoch --------------------------------
(* An instance of EpochCommitment for TLC. *)
EXTENDS EpochCommitment

CONSTANTS a, b
MCHashes == {a, b}
=============================================================================

-------------------------------- MODULE MCRing --------------------------------
(* An instance of EvidenceRing for TLC. *)
EXTENDS EvidenceRing

CONSTANTS p1, p2, p3
MCProducers == {p1, p2, p3}
=============================================================================

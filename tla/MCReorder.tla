------------------------------ MODULE MCReorder ------------------------------
(* An instance of ReorderBuffer for TLC. *)
EXTENDS ReorderBuffer

Seg(o, l) == [off |-> o, len |-> l]

\* The sender cuts the bytes it retransmits differently from the originals.
MCRecut == {Seg(0, 1), Seg(1, 2), Seg(0, 2), Seg(2, 1), Seg(1, 1), Seg(2, 2)}
=============================================================================

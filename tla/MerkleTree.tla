------------------------------ MODULE MerkleTree ------------------------------
(***************************************************************************)
(* The Merkle tree of tap_reader/src/commitment.rs (EpochTree) and, written *)
(* a second time, of weight_transport.py (ManifestTree).                   *)
(*                                                                         *)
(* The hash of two nodes is the pair of them: no two pairs share one, and  *)
(* no leaf is a pair.  Leaves are counted from 0, as in the code.          *)
(***************************************************************************)
EXTENDS Integers, Sequences

h(a, b) == <<a, b>>

\* One level from the one below it, the last node of an odd level left as it is.
UpPromotes(level) ==
  [i \in 1..((Len(level) + 1) \div 2) |->
     IF 2*i <= Len(level) THEN h(level[2*i - 1], level[2*i]) ELSE level[2*i - 1]]

\* One level from the one below it, the last node of an odd level paired with itself.
Up(level) ==
  [i \in 1..((Len(level) + 1) \div 2) |->
     h(level[2*i - 1], IF 2*i <= Len(level) THEN level[2*i] ELSE level[2*i - 1])]

\* The levels, leaves first, root last.
Levels(leaves) ==
  LET level[k \in 0..Len(leaves)] == IF k = 0 THEN leaves ELSE Up(level[k-1])
      height == CHOOSE k \in 0..Len(leaves) :
                  Len(level[k]) = 1 /\ \A j \in 0..(k-1) : Len(level[j]) > 1
  IN  [k \in 1..(height + 1) |-> level[k-1]]

Root(leaves) == LET levels == Levels(leaves) IN levels[Len(levels)][1]

\* The sibling of node idx: itself when it is the last of an odd level.
Sibling(level, idx) ==
  IF idx % 2 = 1 THEN level[idx]
  ELSE IF idx + 1 < Len(level) THEN level[idx + 2] ELSE level[idx + 1]

\* The place of the node above leaf leaf_index, level by level.
Places(leaf_index, n) ==
  LET idx[k \in 0..n] == IF k = 0 THEN leaf_index ELSE idx[k-1] \div 2 IN idx

proof(leaves, leaf_index) ==
  LET levels == Levels(leaves)
      idx    == Places(leaf_index, Len(levels))
  IN  [k \in 1..(Len(levels) - 1) |-> Sibling(levels[k], idx[k-1])]

\* The node of each level as the proof's siblings make it out of the leaf.
Climb(leaf, leaf_index, siblings) ==
  LET idx == Places(leaf_index, Len(siblings))
      cur[k \in 0..Len(siblings)] ==
        IF k = 0 THEN leaf
        ELSE IF idx[k-1] % 2 = 0 THEN h(cur[k-1], siblings[k]) ELSE h(siblings[k], cur[k-1])
  IN  cur

verify_inclusion(leaf, leaf_index, siblings, root) ==
  Climb(leaf, leaf_index, siblings)[Len(siblings)] = root
=============================================================================

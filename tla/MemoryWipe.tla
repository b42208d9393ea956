------------------------------ MODULE MemoryWipe ------------------------------
(***************************************************************************)
(* verifier.py and wipe_daemon.c: a region of memory is labelled block by   *)
(* block, each label computed from two earlier ones, spot-checked, and      *)
(* overwritten.                                                            *)
(*                                                                         *)
(* Of a block, the first word of its label is what other labels are         *)
(* computed from; the rest of the label is compared only.  No two payloads *)
(* of dual_aes_prf share a result, or a first word.                         *)
(***************************************************************************)
EXTENDS Integers, Sequences, FiniteSets

CONSTANT n_blocks

ASSUME WipeAssumption == n_blocks \in Nat \ {0}

Blocks == 0..(n_blocks - 1)

VARIABLES second_parent,  \* a fixed mixing of the index, reduced to an earlier one; here any
          region,
          labels_done,    \* blocks passed by the first pass
          wiped           \* blocks passed by the second

wipeVars == <<second_parent, region, labels_done, wiped>>

\* The result on a payload, as the first word and the rest.
dual_aes_prf(payload) == [word |-> payload, rest |-> payload]

Zero == <<>>
COUNTERS_PER_BLOCK == 256

\* Memory as it was before; and where the keystream of a block starts: the counter
\* fills the place of the index, zeros that of the words.
Untouched == dual_aes_prf(<<"A5">>)
Keystream(i) == dual_aes_prf(<<i * COUNTERS_PER_BLOCK, Zero, Zero>>)

\* The word of the block itself in place of its predecessor's.
LabelOfOwnBlock(i, memory) ==
  dual_aes_prf(IF i = 0 THEN <<i, Zero, Zero>>
               ELSE <<i, memory[i].word, memory[second_parent[i]].word>>)

label_node(i, memory) ==
  dual_aes_prf(IF i = 0 THEN <<i, Zero, Zero>>
               ELSE <<i, memory[i-1].word, memory[second_parent[i]].word>>)

spot_check(i) == label_node(i, region) = region[i]

-----------------------------------------------------------------------------

WipeInit ==
  /\ second_parent \in {p \in [Blocks -> Blocks] : \A i \in Blocks : p[i] < i \/ (i = 0 /\ p[i] = 0)}
  /\ region = [i \in Blocks |-> Untouched]
  /\ labels_done = 0 /\ wiped = 0

\* One block of the first pass; a daemon that saves the work leaves the block, or
\* labels it with what it can make up.
Label ==
  /\ labels_done < n_blocks
  /\ labels_done' = labels_done + 1
  /\ \E content \in {label_node(labels_done, region), region[labels_done], dual_aes_prf(<<"made_up">>)} :
       region' = [region EXCEPT ![labels_done] = content]
  /\ UNCHANGED <<second_parent, wiped>>

\* A byte of a label changed between the passes: of its first word, or of the rest.
Flip(victim, part) ==
  /\ labels_done = n_blocks /\ wiped = 0
  /\ region' = [region EXCEPT ![victim][part] = <<"flipped">>]
  /\ UNCHANGED <<second_parent, labels_done, wiped>>

\* One block of the second pass.
Overwrite ==
  /\ labels_done = n_blocks /\ wiped < n_blocks
  /\ region' = [region EXCEPT ![wiped] = Keystream(wiped)]
  /\ wiped' = wiped + 1
  /\ UNCHANGED <<second_parent, labels_done>>

WipeNext == Label \/ Overwrite \/ \E victim \in Blocks, part \in {"word", "rest"} : Flip(victim, part)

WipeSpec == WipeInit /\ [][WipeNext]_wipeVars

-----------------------------------------------------------------------------
(* Properties *)

\* The region as an honest first pass leaves it.
Labelled ==
  LET pass[k \in 0..n_blocks] ==
        IF k = 0 THEN [i \in Blocks |-> Untouched]
        ELSE [pass[k-1] EXCEPT ![k-1] = label_node(k-1, pass[k-1])]
  IN  pass[n_blocks]

\* A spot check looks at one block and the words of its two parents, yet if every block
\* would pass, the region is the one an honest first pass leaves, block for block: none
\* was left out, made up or changed.  And that region passes every check ("verifier
\* disagrees with itself").  It does not say that the second pass has not begun: the
\* keystream of the first block starts with its label.
SpotChecksPinTheRegion ==
  (\A i \in Blocks : spot_check(i)) <=> region = Labelled
=============================================================================

--------------------------- MODULE EpochCommitment ---------------------------
(***************************************************************************)
(* tap_reader/src/commitment.rs: the digest of all traffic.  The payload   *)
(* hashes of an epoch become a Merkle tree, its root is folded into a      *)
(* chain, and later an auditor checks the stored chain and the payload of  *)
(* one packet against it.                                                  *)
(***************************************************************************)
EXTENDS Integers, Sequences, MerkleTree

CONSTANTS Hashes,       \* payload hashes, a candidate nobody sent among them
          EpochSize,    \* bound: packets per epoch
          MaxEpochs,    \* bound: epochs
          MaxTouches    \* bound: how often a stored entry is changed

ASSUME EpochAssumption == EpochSize \in Nat /\ MaxEpochs \in Nat /\ MaxTouches \in Nat

VARIABLES leaves,     \* payload hashes of the epoch that is open
          head,       \* EpochChain
          entries,
          epochs,     \* history: the leaves of every closed epoch
          touched     \* history: how often a stored entry was changed

epochVars == <<leaves, head, entries, epochs, touched>>

Zero == <<>>   \* sixteen zero bytes: no hash

EpochInit == leaves = <<>> /\ head = Zero /\ entries = <<>> /\ epochs = <<>> /\ touched = 0

HashPacket(x) ==
  /\ Len(leaves) < EpochSize /\ Len(epochs) < MaxEpochs
  /\ leaves' = Append(leaves, x)
  /\ UNCHANGED <<head, entries, epochs, touched>>

commit(epoch_number, epoch_root) ==
  /\ head' = h(head, epoch_root)
  /\ entries' = Append(entries, [number |-> epoch_number, root |-> epoch_root, after |-> head'])

\* EpochTree::build and EpochChain::commit; an empty epoch is the caller's job to skip.
CloseEpoch ==
  /\ leaves # <<>>
  /\ commit(Len(epochs), Root(leaves))
  /\ epochs' = Append(epochs, leaves)
  /\ leaves' = <<>>
  /\ UNCHANGED touched

\* A stored entry is changed, or the last one is gone, `head` being elsewhere.
Touch ==
  /\ touched < MaxTouches
  /\ \E i \in 1..Len(entries) :
       \/ \E r \in {entries[j].root : j \in 1..Len(entries)} : entries' = [entries EXCEPT ![i].root = r]
       \/ \E n \in 0..MaxEpochs : entries' = [entries EXCEPT ![i].number = n]
       \/ \E j \in 1..Len(entries) : entries' = [entries EXCEPT ![i].after = entries[j].after]
       \/ entries' = SubSeq(entries, 1, Len(entries) - 1)
  /\ touched' = touched + 1
  /\ UNCHANGED <<leaves, head, epochs>>

EpochNext == (\E x \in Hashes : HashPacket(x)) \/ CloseEpoch \/ Touch

EpochSpec == EpochInit /\ [][EpochNext]_epochVars

\* verify: the stored heads compared, the final head not.
VerifyLinksOnly ==
  LET running[i \in 0..Len(entries)] == IF i = 0 THEN Zero ELSE h(running[i-1], entries[i].root)
  IN  \A i \in 1..Len(entries) : running[i] = entries[i].after

verify ==
  LET running[i \in 0..Len(entries)] == IF i = 0 THEN Zero ELSE h(running[i-1], entries[i].root)
  IN  /\ \A i \in 1..Len(entries) : running[i] = entries[i].after
      /\ running[Len(entries)] = head

-----------------------------------------------------------------------------
(* Properties *)

\* The proof for a packet convinces the auditor of the payload hash that was
\* committed at that place and of no other, for every leaf of every epoch, odd
\* counts included.
InclusionIsExact ==
  \A e \in 1..Len(epochs) :
    LET root == Root(epochs[e])
    IN  \A i \in 0..(Len(epochs[e]) - 1) :
          LET siblings == proof(epochs[e], i)
          IN  \A x \in Hashes : verify_inclusion(x, i, siblings, root) <=> x = epochs[e][i+1]

\* A chain that verifies lists the roots of all epochs, in the order in which they
\* were committed: none rewritten, reordered, added or left out.  And a chain
\* nobody touched verifies.
VerifiedChainIsHistory ==
  /\ verify => [i \in 1..Len(entries) |-> entries[i].root] = [i \in 1..Len(epochs) |-> Root(epochs[i])]
  /\ touched = 0 => verify
=============================================================================

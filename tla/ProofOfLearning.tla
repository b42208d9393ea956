-------------------------- MODULE ProofOfLearning --------------------------
(***************************************************************************)
(* proof_of_learning.py: a prover logs segments of training; a verifier    *)
(* replays single segments from the checkpoints the prover hands over.     *)
(*                                                                         *)
(* A model is the sequence of updates that made it out of the initial one  *)
(* (no two sequences lead to the same weights); its checkpoint hash is the *)
(* model.  A batch is its seed with its number in the segment.             *)
(***************************************************************************)
EXTENDS TamperLog

CONSTANTS SegmentSeeds, LR, Rates,  \* seeds; the verifier's learning rate; those a prover may use
          STEPS_PER_SEGMENT, CHEAP_STEPS,
          MaxSegments, MaxSamples   \* bounds

ASSUME LearningAssumption ==
  /\ LR \in Rates
  /\ CHEAP_STEPS \in Nat /\ STEPS_PER_SEGMENT \in Nat /\ CHEAP_STEPS < STEPS_PER_SEGMENT
  /\ MaxSegments \in Nat /\ MaxSamples \in Nat

VARIABLES checkpoints, \* checkpoints[i] is what the prover hands over as the start of segment i
          spent,       \* history: the gradient steps the prover has computed
          honest,      \* history: nothing but honest segments at rate LR, none tampered with
          samples      \* history: what the verifier has replayed: [seg, start, entry, ok]

learningVars == <<vars, checkpoints, spent, honest, samples>>

InitialModel == <<>>

make_segment_batches(segment_seed, n_steps) == [i \in 1..n_steps |-> <<segment_seed, i>>]

run_segment(model, segment_seed, n_steps, lr) ==
  LET batches == make_segment_batches(segment_seed, n_steps)
  IN  model \o [i \in 1..n_steps |-> [batch |-> batches[i], lr |-> lr]]

checkpoint_hash(model) == model

Segment(seg_idx, start_hash, end_hash, segment_seed, n_steps, lr) ==
  [event |-> "segment", seg_idx |-> seg_idx, start_hash |-> start_hash, end_hash |-> end_hash,
   seed |-> segment_seed, n_steps |-> n_steps, lr |-> lr]

\* The two hashes in the wrong order.
LogSwapped(start_hash, end_hash, segment_seed, n_steps, lr) ==
  append(Segment(Len(checkpoints) - 1, end_hash, start_hash, segment_seed, n_steps, lr))

\* seg_idx is counted from 0.
log_segment(start_hash, end_hash, segment_seed, n_steps, lr) ==
  append(Segment(Len(checkpoints) - 1, start_hash, end_hash, segment_seed, n_steps, lr))

-----------------------------------------------------------------------------
(* The prover *)

Last == checkpoints[Len(checkpoints)]

\* What it runs, and the claim about it that it logs.
Train(ran_seed, ran_steps, lr, segment_seed, n_steps) ==
  LET end == run_segment(Last, ran_seed, ran_steps, lr)
  IN  /\ Len(checkpoints) <= MaxSegments
      /\ log_segment(checkpoint_hash(Last), checkpoint_hash(end), segment_seed, n_steps, lr)
      /\ checkpoints' = Append(checkpoints, end)
      /\ spent' = spent + ran_steps
      /\ UNCHANGED samples

TrainSegment(segment_seed, lr) ==
  /\ Train(segment_seed, STEPS_PER_SEGMENT, lr, segment_seed, STEPS_PER_SEGMENT)
  /\ honest' = (honest /\ lr = LR)

\* "claims a full segment's compute, actually does a fraction of it"
ClaimMore(segment_seed) ==
  Train(segment_seed, CHEAP_STEPS, LR, segment_seed, STEPS_PER_SEGMENT) /\ honest' = FALSE

\* "a genuinely different but equally real training path"
OtherPath(segment_seed, alt_seed) ==
  Train(alt_seed, STEPS_PER_SEGMENT, LR, segment_seed, STEPS_PER_SEGMENT) /\ honest' = FALSE

\* It hands over another checkpoint of its own: verify_segment does not look at
\* the hash of the start.
Splice(i, model) ==
  /\ checkpoints' = [checkpoints EXCEPT ![i] = model]
  /\ honest' = FALSE
  /\ UNCHANGED <<vars, spent, samples>>

TamperLogEntry ==
  Touch /\ honest' = FALSE /\ UNCHANGED <<checkpoints, spent, samples>>

-----------------------------------------------------------------------------
(* The verifier *)

\* Content as soon as the replay passes through the claimed model.
VerifyAnyStep(start, entry) ==
  \E n \in 0..entry.n_steps : checkpoint_hash(run_segment(start, entry.seed, n, LR)) = entry.end_hash

\* At the rate the prover logged.
VerifyLoggedRate(start, entry) ==
  checkpoint_hash(run_segment(start, entry.seed, entry.n_steps, entry.lr)) = entry.end_hash

\* The logged start is not compared with the model, nor the logged rate with LR.
verify_segment(start, entry) ==
  checkpoint_hash(run_segment(start, entry.seed, entry.n_steps, LR)) = entry.end_hash

\* The entry of segment i stands after the genesis; the log is verified first.
Sample(i) ==
  /\ Len(samples) < MaxSamples
  /\ verify_integrity
  /\ i + 1 <= Len(entries)
  /\ LET entry == entries[i + 1].payload
     IN  samples' = Append(samples, [seg |-> i, start |-> checkpoints[i], entry |-> entry,
                                     ok  |-> verify_segment(checkpoints[i], entry)])
  /\ UNCHANGED <<vars, checkpoints, spent, honest>>

-----------------------------------------------------------------------------

LearningInit ==
  /\ Init /\ checkpoints = <<InitialModel>> /\ spent = 0 /\ honest = TRUE /\ samples = <<>>

LearningNext ==
  \/ \E s \in SegmentSeeds :
       \/ \E lr \in Rates : TrainSegment(s, lr)
       \/ ClaimMore(s)
       \/ \E alt \in SegmentSeeds \ {s} : OtherPath(s, alt)
  \/ \E i, j \in 1..Len(checkpoints) : i # j /\ Splice(i, checkpoints[j])
  \/ TamperLogEntry
  \/ \E i \in 1..(Len(checkpoints) - 1) : Sample(i)

LearningSpec == LearningInit /\ [][LearningNext]_learningVars

-----------------------------------------------------------------------------
(* Properties *)

\* Samples k_1..k_n accept a run: each was accepted, the first starts at the initial
\* model and each other at the end the one before was verified to reach.
Accepts(run) ==
  /\ \A n \in 1..Len(run) : run[n].ok
  /\ \A n \in 1..Len(run) : run[n].start = IF n = 1 THEN InitialModel ELSE run[n-1].entry.end_hash

\* What the claims of a run say was trained.
Claimed(run) ==
  LET model[n \in 0..Len(run)] ==
        IF n = 0 THEN InitialModel
        ELSE run_segment(model[n-1], run[n].entry.seed, run[n].entry.n_steps, LR)
  IN  model[Len(run)]

\* A run verified segment by segment, each from the verified end of the one before
\* (the "assumed" of verify_segment), ends in the model its logged seeds and steps
\* train out of the initial one, at the verifier's rate whatever rates were logged.
VerifiedRunIsTheLoggedRun ==
  Accepts(samples) /\ samples # <<>> =>
    samples[Len(samples)].entry.end_hash = checkpoint_hash(Claimed(samples))

\* "claiming more compute than was actually spent is caught": the claims of a
\* verified run add up to no more steps than the prover has computed.
ClaimedComputeWasSpent ==
  Accepts(samples) => Len(Claimed(samples)) <= spent

\* "an honest segment must replay to a bit-exact match"
HonestSegmentsReplay ==
  honest => \A n \in 1..Len(samples) : samples[n].ok
=============================================================================

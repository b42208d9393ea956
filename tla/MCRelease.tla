------------------------------ MODULE MCRelease ------------------------------
(* Instances of WorkloadApproval and of ReleaseChain for TLC. *)
EXTENDS WorkloadApproval

CONSTANTS s1, s2, u, v, w, h1, h2, h3, h4, h5, h6, h7, h8, h9, h10, h11

MCSeeds == {s1, s2}

\* Three shards, or a later version of one of them.
MCManifests == {<<u, v, w>>, <<u, v, u>>}

\* What was released; a shard replaced, missing, out of place, delivered twice.
MCDeliveries == MCManifests \cup {<<u, u, w>>, <<u, v>>, <<v, u, w>>, <<u, v, w, w>>}

\* The last shard delivered twice.
MCTwice == {<<u, v, w>>, <<u, v, w, w>>}

MCBlacklist == {"custom_allreduce_variant"}
MCGoldlist == {"gradient_clip"}

Line(k, value) == [key |-> k, value |-> value, plain |-> TRUE]
Skipped(k, value) == [key |-> k, value |-> value, plain |-> FALSE]
Batch(n) == Line("max_batch_size", <<n>>)
Ops(ops) == Line("allowed_ops", ops)

Compliant == <<"matmul", "gradient_clip">>
Blacklisted == <<"matmul", "gradient_clip", "custom_allreduce_variant">>

MCTextSeq ==
  <<<<Batch("256"), Ops(Compliant)>>,
   \* no bound, said twice
   <<Ops(Compliant)>>,
   <<Batch("0"), Ops(Compliant)>>,
   \* the same workload otherwise written: order, repetition, blanks, a line replaced
   <<Ops(<<"gradient_clip", "", "matmul", "matmul">>), Batch("256")>>,
   <<Batch("256"), Ops(Blacklisted), Ops(Compliant)>>,
   \* a banned operation, which the policy does not look at
   <<Batch("256"), Ops(Compliant), Line("banned_ops", <<"matmul">>)>>,
   \* and those that fail the policy
   <<Batch("256"), Ops(Blacklisted)>>,
   <<Batch("256"), Ops(Compliant), Ops(Blacklisted)>>,
   <<Batch("256"), Ops(<<"matmul">>)>>,
   <<Batch("256"), Ops(<<"matmul">>), Skipped("allowed_ops", Compliant)>>,
   <<Batch("256"), Skipped("allowed_ops", Blacklisted)>>,
   \* what C does not read as written: an int of 32 bits makes 256 of 2^32 + 256, a
   \* literal makes m of \155; and a bound left out, which does not compile
   <<Batch("4294967552"), Ops(Compliant)>>,
   <<Batch("256"), Ops(<<"gradient_clip", "mat\\155ul">>)>>,
   <<Batch(""), Ops(Compliant)>>>>

MCTexts == ToSet(MCTextSeq)

InC(item) == CASE item = "4294967552" -> "256" [] item = "mat\\155ul" -> "matmul" [] OTHER -> item

\* A binary: what its main prints.
MCgcc(c) ==
  IF "max_batch" \in DOMAIN c /\ c.max_batch = <<Blank>> THEN CompileError
  ELSE [k \in DOMAIN c |->
          IF k \in {"allowed", "banned", "required"} THEN {InC(op) : op \in c[k]}
          ELSE [i \in DOMAIN c[k] |-> InC(c[k][i])]]

MCAsWritten ==
  {t \in MCTexts : \A line \in ToSet(t) : \A item \in ToSet(line.value) :
     InC(item) = item /\ (line.key = "max_batch_size" => item # Blank)}

Compiled == {compile_and_certify_v2(t) : t \in MCTexts} \ {CompileError}
MCBinaries == Compiled \cup {Tampered(b) : b \in Compiled} \cup {RawBypass}

\* A hash for each compiled binary; the others are their own hash, which is no other's.
Hashes == <<h1, h2, h3, h4, h5, h6, h7, h8, h9, h10, h11>>
Compilations == {<<compile_and_certify_v2(MCTextSeq[i]), i>> : i \in 1..Len(MCTextSeq)}
MCHash ==
  [b \in MCBinaries |->
     LET texts == {p[2] : p \in {p \in Compilations : p[1] = b}}
     IN  IF texts = {} THEN b ELSE Hashes[CHOOSE i \in texts : \A j \in texts : i <= j]]

\* The two workloads whose certificates are revoked, released and delivered.
MCCerts ==
  {MCHash[compile_and_certify_v2(t)] : t \in {<<Batch("256"), Ops(Compliant)>>,
                                              <<Ops(Compliant)>>}}
=============================================================================

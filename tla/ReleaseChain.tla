----------------------------- MODULE ReleaseChain -----------------------------
(***************************************************************************)
(* workload_approval.py: ApprovalRegistry, and weight_transport.py:        *)
(* ReleaseChain and receive_and_check.  An auditor approves a training     *)
(* workload and may revoke it; a release auditor binds a manifest of weight *)
(* shards to an approval; an inference cluster fetches the release record  *)
(* and compares what arrived with it before it deploys.                    *)
(*                                                                         *)
(* Each log (TamperLog) is the sequence of its payloads after genesis.     *)
(***************************************************************************)
EXTENDS Integers, Sequences, SequencesExt, MerkleTree

CONSTANTS Certs,      \* certificate hashes of training workloads
          Seeds,      \* what secrets.randbits may draw
          Manifests,  \* what may be released: sequences of shards, by content
          Deliveries, \* what may arrive
          MaxEvents,  \* bound: entries in the approval log
          MaxReleases \* bound: entries in the release log

ASSUME ReleaseAssumption ==
  /\ MaxEvents \in Nat /\ MaxReleases \in Nat
  /\ \A m \in Manifests \cup Deliveries :
       m \in Seq(ToSet(m)) /\ m # <<>>   \* an empty one is the caller's job to reject

VARIABLES approvals,   \* the registry's log
          releases,    \* the release log
          record,      \* what the cluster fetched: per certificate
          licence,     \* history: per release, the seed claimed and len of approvals then
          manifests,   \* history: per release, the shards it was made for
          deployed     \* history: what receive_and_check accepted last

vars == <<approvals, releases, record, licence, manifests, deployed>>

NoRecord == [cert |-> "none", root |-> "none"]
Nothing == [cert |-> "none", shards |-> <<>>]

Init ==
  /\ approvals = <<>> /\ releases = <<>>
  /\ record = [c \in Certs |-> NoRecord]
  /\ licence = <<>> /\ manifests = <<>> /\ deployed = Nothing

-----------------------------------------------------------------------------
(* ApprovalRegistry *)

\* A draw repeats an earlier one with negligible probability: never here.
approve(c) ==
  /\ Len(approvals) < MaxEvents
  /\ \E seed \in Seeds :
       /\ \A i \in 1..Len(approvals) : approvals[i].seed # seed
       /\ approvals' = Append(approvals, [event |-> "approve", cert |-> c, seed |-> seed])
  /\ UNCHANGED <<releases, record, licence, manifests, deployed>>

revoke(c) ==
  /\ Len(approvals) < MaxEvents
  /\ approvals' = Append(approvals, [event |-> "revoke", cert |-> c, seed |-> "none"])
  /\ UNCHANGED <<releases, record, licence, manifests, deployed>>

\* Whether an approval exists anywhere in the log.
CheckExists(c, claimed_seed) ==
  \E i \in 1..Len(approvals) :
    approvals[i] = [event |-> "approve", cert |-> c, seed |-> claimed_seed]

\* One turn of the scan: a revocation changes the status and keeps the seed.
scan(c, latest, p) ==
  IF p.cert # c THEN latest
  ELSE IF p.event = "approve" THEN [status |-> "approved", seed |-> p.seed]
  ELSE [latest EXCEPT !.status = "revoked"]

NeverApproved == [status |-> "never_approved", seed |-> "none"]

check(c, claimed_seed) ==
  LET latest[k \in 0..Len(approvals)] ==
        IF k = 0 THEN NeverApproved ELSE scan(c, latest[k-1], approvals[k])
      last == latest[Len(approvals)]
  IN  last.status = "approved" /\ claimed_seed = last.seed

-----------------------------------------------------------------------------
(* ReleaseChain *)

\* A claim that does not check is refused and changes nothing.
release(c, seed, shards) ==
  /\ Len(releases) < MaxReleases
  /\ check(c, seed)
  /\ releases' = Append(releases, [cert |-> c, root |-> Root(shards)])
  /\ licence' = Append(licence, [seed |-> seed, at |-> Len(approvals)])
  /\ manifests' = Append(manifests, shards)
  /\ UNCHANGED <<approvals, record, deployed>>

\* The last release whatever its certificate.
LatestOfAny(c) ==
  IF releases = <<>> THEN NoRecord ELSE releases[Len(releases)]

latest_release_for(c) ==
  LET latest[k \in 0..Len(releases)] ==
        IF k = 0 THEN NoRecord ELSE IF releases[k].cert = c THEN releases[k] ELSE latest[k-1]
  IN  latest[Len(releases)]

-----------------------------------------------------------------------------
(* The inference-only cluster: the record is looked up, then checked against *)
(* what arrives, at any later time.                                          *)

Fetch(c) ==
  /\ record' = [record EXCEPT ![c] = latest_release_for(c)]
  /\ UNCHANGED <<approvals, releases, licence, manifests, deployed>>

receive_and_check(c, arrived) ==
  /\ record[c] # NoRecord
  /\ Root(arrived) = record[c].root
  /\ deployed' = [cert |-> c, shards |-> arrived]
  /\ UNCHANGED <<approvals, releases, record, licence, manifests>>

Next ==
  \E c \in Certs :
    \/ approve(c)
    \/ revoke(c)
    \/ \E seed \in Seeds, shards \in Manifests : release(c, seed, shards)
    \/ Fetch(c)
    \/ \E arrived \in Deliveries : receive_and_check(c, arrived)

Spec == Init /\ [][Next]_vars

-----------------------------------------------------------------------------
(* Properties *)

\* Every release was made while its workload was approved, with the seed of that
\* approval: nothing about the certificate came between it and the release.
\* A revoked, superseded or merely once approved workload is never released.
ReleaseIsLicensed ==
  \A r \in 1..Len(releases) :
    \E i \in 1..licence[r].at :
      /\ approvals[i] = [event |-> "approve", cert |-> releases[r].cert, seed |-> licence[r].seed]
      /\ \A j \in (i+1)..licence[r].at : approvals[j].cert # releases[r].cert

\* The shards of a release and those deployed for a certificate.
Released(c) == {manifests[r] : r \in {r \in 1..Len(releases) : releases[r].cert = c}}

\* What the cluster deploys for a certificate was released for that certificate,
\* however many releases came before, between and after lookup and arrival: if as
\* many shards arrived as were released, they are the same, in order.
DeployedWasReleased ==
  deployed # Nothing =>
    LET released == Released(deployed.cert)
    IN  /\ released # {}
        /\ (\A m \in released : Len(m) = Len(deployed.shards)) => deployed.shards \in released

\* What receive_and_check accepts "matches the approved release exactly".
ManifestMatchesExactly == deployed # Nothing => deployed.shards \in Released(deployed.cert)
=============================================================================

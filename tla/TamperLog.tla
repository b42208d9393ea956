------------------------------ MODULE TamperLog ------------------------------
(***************************************************************************)
(* tamper_log.py: TamperEvidentLog, the append-only, hash-chained, signed  *)
(* log every registry of the repository is built on, between appends by    *)
(* its owner and the edits of stored entries its scripts try.              *)
(*                                                                         *)
(* A hash is the value it is taken of (no two values share one); a         *)
(* signature is the key with the hash it signs.                            *)
(***************************************************************************)
EXTENDS Naturals, Sequences

CONSTANTS Payloads,     \* what may be logged
          Keys, OwnKey, \* signing keys; the log's own
          MaxEntries,   \* bound: length of the log
          MaxTouches    \* bound: how often a stored entry is edited or lost

ASSUME LogAssumption == OwnKey \in Keys /\ MaxEntries \in Nat /\ MaxTouches \in Nat

VARIABLES entries,      \* entries[1] is entries[0] of the code
          appended,     \* history: the entries the owner appended, as they were then
          touched       \* history: how often a stored entry was edited or lost

vars == <<entries, appended, touched>>

Genesis == [event |-> "genesis"]

\* entry_hash covers index, prev_hash and payload, never the signature.
entry_hash(e) == [index |-> e.index, prev_hash |-> e.prev_hash, payload |-> e.payload]

sign(e, key) == [index |-> e.index, prev_hash |-> e.prev_hash, payload |-> e.payload,
                 signature |-> [key |-> key, over |-> entry_hash(e)]]

verify(e) == e.signature = [key |-> OwnKey, over |-> entry_hash(e)]

LogEntry(index, prev_hash, payload) ==
  sign([index |-> index, prev_hash |-> prev_hash, payload |-> payload], OwnKey)

-----------------------------------------------------------------------------

Init ==
  /\ entries = <<LogEntry(0, "0", Genesis)>>
  /\ appended = {}
  /\ touched = 0

\* entries[-1] of an empty list raises IndexError.
AppendEntry(entry) ==
  /\ Len(entries) \in 1..(MaxEntries - 1)
  /\ entries' = Append(entries, entry)
  /\ appended' = appended \cup {entry}
  /\ UNCHANGED touched

\* Every entry chained to the genesis entry.
AppendToGenesis(payload) ==
  AppendEntry(LogEntry(Len(entries), entry_hash(entries[1]), payload))

append(payload) ==
  AppendEntry(LogEntry(Len(entries), entry_hash(entries[Len(entries)]), payload))

\* What the scripts do to a stored log: assign to a payload, sign an entry again
\* with a key that is not the log's, add one made with the key of another authority;
\* and an entry that is gone, at any place, the genesis entry's included.
EditPayload(i, payload) == entries' = [entries EXCEPT ![i].payload = payload]

Resign(i, key) == key # OwnKey /\ entries' = [entries EXCEPT ![i] = sign(@, key)]

Lose(i) == entries' = SubSeq(entries, 1, i - 1) \o SubSeq(entries, i + 1, Len(entries))

Forge(key, payload) ==
  /\ key # OwnKey /\ Len(entries) > 0
  /\ entries' = Append(entries, sign([index     |-> Len(entries),
                                     prev_hash |-> entry_hash(entries[Len(entries)]),
                                     payload   |-> payload], key))

Touch ==
  /\ touched < MaxTouches
  /\ \/ \E i \in 1..Len(entries) :
          \/ \E p \in Payloads : EditPayload(i, p)
          \/ \E k \in Keys : Resign(i, k)
          \/ Lose(i)
     \/ \E k \in Keys, p \in Payloads : Forge(k, p)
  /\ touched' = touched + 1
  /\ UNCHANGED appended

Next == (\E p \in Payloads : append(p)) \/ Touch

Spec == Init /\ [][Next]_vars

-----------------------------------------------------------------------------
(* verify_integrity: the loop returns at the first entry that fails either  *)
(* check.  It starts behind the first entry, of which nothing is checked    *)
(* but that the second one names its hash.                                  *)

ChainHolds(i) == entries[i].prev_hash = entry_hash(entries[i-1])

\* Without the signature check: the chain alone, which says nothing of the last entry.
ChainOnly == \A i \in 2..Len(entries) : ChainHolds(i)

\* Without the chain check.
SignaturesOnly == \A i \in 2..Len(entries) : verify(entries[i])

verify_integrity == \A i \in 2..Len(entries) : ChainHolds(i) /\ verify(entries[i])

-----------------------------------------------------------------------------
(* Properties *)

\* A log that verifies holds, after its first entry, only entries its owner
\* appended, payload and signature as they were then: "tampering MUST be caught",
\* whatever was edited, signed again or appended in between.
TamperingIsCaught ==
  verify_integrity => \A i \in 2..Len(entries) : entries[i] \in appended

\* A log that verifies has no hole inside: from entry to entry the index grows by
\* one at most.  If it starts at index 0 each entry stands where it was appended, so
\* what was lost was lost at the end.  (Nothing says that it does: verify_integrity
\* accepts a log that lost its first entries.)
NoHoleVerifies ==
  verify_integrity =>
    /\ \A i \in 2..Len(entries) : entries[i].index <= entries[i-1].index + 1
    /\ (Len(entries) > 0 /\ entries[1].index = 0) =>
         \A i \in 2..Len(entries) : entries[i].index = i - 1

\* A log that was only appended to verifies: an honest report of a mismatch or a
\* revocation never looks like tampering.
HonestLogVerifies == touched = 0 => verify_integrity

=============================================================================

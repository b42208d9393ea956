--------------------------- MODULE TamperLogProofs ---------------------------
(***************************************************************************)
(* What a log that verifies guarantees, for any payloads, keys, length and *)
(* number of edits and losses; and what follows for the tap registry and   *)
(* for proof of learning, which are each kept in one.                      *)
(***************************************************************************)
EXTENDS TapRegistry, ProofOfLearning, SetInduction, TLAPS

IsEntry(e) ==
  e = [index |-> e.index, prev_hash |-> e.prev_hash, payload |-> e.payload,
       signature |-> [key |-> e.signature.key, over |-> e.signature.over]]

\* The entry a signature was made for.
Signed(over) == LogEntry(over.index, over.prev_hash, over.payload)

\* Entries only ever move towards the genesis entry: an index is at least the place,
\* and the entry before was at most one behind when this one was appended.
PlaceOK(e, i) ==
  /\ IsEntry(e)
  /\ e.index \in Nat /\ i - 1 <= e.index
  /\ i > 1 => e.prev_hash.index \in Nat /\ e.index <= e.prev_hash.index + 1

\* Only the owner makes signatures with its key, and only in append.
SignatureOK(e, log) == e.signature.key = OwnKey => Signed(e.signature.over) \in log

LogInv ==
  /\ \E S : entries \in Seq(S)
  /\ \A i \in 1..Len(entries) : PlaceOK(entries[i], i)
  /\ \A i \in 2..Len(entries) : SignatureOK(entries[i], appended)
  /\ touched \in Nat
  /\ touched = 0 => verify_integrity

-----------------------------------------------------------------------------

LEMMA ConcatLen ==
  ASSUME NEW S, NEW a \in Seq(S), NEW b \in Seq(S)
  PROVE  Len(a \o b) = Len(a) + Len(b)
OBVIOUS

\* What is left of a sequence without its element i.
LEMMA Without ==
  ASSUME NEW S, NEW s \in Seq(S), NEW i \in 1..Len(s)
  PROVE  LET r == SubSeq(s, 1, i - 1) \o SubSeq(s, i + 1, Len(s))
         IN  /\ r \in Seq(S) /\ Len(r) = Len(s) - 1
             /\ \A k \in 1..Len(r) : r[k] = IF k < i THEN s[k] ELSE s[k + 1]
<1> DEFINE n == Len(s)
           a == SubSeq(s, 1, i - 1)
           b == SubSeq(s, i + 1, n)
<1>1. n \in Nat /\ i \in Nat /\ 1 <= i /\ i <= n
  OBVIOUS
<1>2. a \in Seq(S) /\ Len(a) = i - 1 /\ \A k \in 1..(i - 1) : a[k] = s[k]
  BY <1>1
<1>3. b \in Seq(S) /\ Len(b) = n - i /\ \A k \in 1..(n - i) : b[k] = s[i + k]
  BY <1>1
<1> HIDE DEF n, a, b
<1>4. a \o b \in Seq(S) /\ Len(a \o b) = n - 1
  <2>1. a \o b \in Seq(S)
    BY <1>2, <1>3
  <2>2. Len(a \o b) = Len(a) + Len(b)
    BY <1>2, <1>3, ConcatLen
  <2>3. (i - 1) + (n - i) = n - 1
    BY <1>1
  <2> QED
    BY <1>2, <1>3, <2>1, <2>2, <2>3
<1>5. ASSUME NEW k \in 1..(n - 1) PROVE (a \o b)[k] = IF k < i THEN s[k] ELSE s[k + 1]
  <2>1. CASE k < i
    BY <1>1, <1>2, <1>3, <2>1
  <2>2. CASE ~ k < i
    <3>1. (a \o b)[k] = b[k - (i - 1)]
      BY <1>1, <1>2, <1>3, <2>2
    <3>2. k - (i - 1) \in 1..(n - i) /\ i + (k - (i - 1)) = k + 1
      BY <1>1, <2>2
    <3> QED
      BY <1>3, <2>2, <3>1, <3>2
  <2> QED
    BY <2>1, <2>2
<1> QED
  BY <1>4, <1>5 DEF a, b, n

\* A new entry is in place and properly signed.
LEMMA NewEntry ==
  ASSUME NEW index, NEW prev_hash, NEW payload
  PROVE  LET e == LogEntry(index, prev_hash, payload)
         IN  /\ e.index = index /\ e.prev_hash = prev_hash /\ e.payload = payload
             /\ IsEntry(e) /\ verify(e) /\ Signed(e.signature.over) = e
BY DEF LogEntry, sign, verify, entry_hash, IsEntry, Signed

\* An entry whose signature is the owner's and covers it is the entry signed.
LEMMA VerifiedIsSigned ==
  ASSUME NEW e, IsEntry(e), verify(e)
  PROVE  e.signature.key = OwnKey /\ Signed(e.signature.over) = e
<1>1. e.signature = [key |-> OwnKey, over |-> entry_hash(e)]
  BY DEF verify
<1>2. e.signature.key = OwnKey /\ e.signature.over = entry_hash(e)
  BY <1>1
<1>3. Signed(entry_hash(e)) = [index |-> e.index, prev_hash |-> e.prev_hash,
          payload |-> e.payload, signature |-> [key |-> OwnKey, over |-> entry_hash(e)]]
  BY DEF Signed, entry_hash, LogEntry, sign
<1> QED
  BY <1>1, <1>2, <1>3 DEF IsEntry

-----------------------------------------------------------------------------
(* The invariant *)

LEMMA LogInit == Init => LogInv
<1> SUFFICES ASSUME Init PROVE LogInv
  OBVIOUS
<1>1. PICK g : g = LogEntry(0, "0", Genesis)
  OBVIOUS
<1>2. entries = <<g>> /\ touched = 0
  BY <1>1 DEF Init
<1>3. g.index = 0 /\ IsEntry(g)
  BY <1>1, NewEntry
<1>4. entries \in Seq({g}) /\ Len(entries) = 1 /\ entries[1] = g
  BY <1>2
<1>5. \A i \in 1..Len(entries) : PlaceOK(entries[i], i)
  BY <1>3, <1>4 DEF PlaceOK
<1>6. verify_integrity
  BY <1>4 DEF verify_integrity
<1>7. \A i \in 2..Len(entries) : SignatureOK(entries[i], appended)
  BY <1>4
<1>8. touched \in Nat
  BY <1>2
<1> QED
  BY <1>4, <1>5, <1>6, <1>7, <1>8, Zenon DEF LogInv

LEMMA AppendStep ==
  ASSUME LogInv, NEW payload, append(payload)
  PROVE  LogInv'
<1>1. PICK n : n = Len(entries)
  OBVIOUS
<1>2. PICK last : last = entries[n]
  OBVIOUS
<1>3. PICK e : e = LogEntry(n, entry_hash(last), payload)
  OBVIOUS
<1>4. entries' = Append(entries, e) /\ appended' = appended \cup {e} /\ touched' = touched
  BY <1>1, <1>2, <1>3 DEF append, AppendEntry
<1>5. PICK S : entries \in Seq(S)
  BY DEF LogInv
<1>6. n \in Nat /\ n >= 1
  BY <1>1, <1>5 DEF append, AppendEntry
<1>7. /\ entries' \in Seq(S \cup {e}) /\ Len(entries') = n + 1 /\ entries'[n + 1] = e
      /\ \A i \in 1..n : entries'[i] = entries[i]
  BY <1>1, <1>4, <1>5, <1>6
<1>8. /\ e.index = n /\ e.prev_hash = entry_hash(last)
      /\ IsEntry(e) /\ verify(e) /\ Signed(e.signature.over) = e
  BY <1>3, NewEntry
<1>9. PlaceOK(last, n)
  BY <1>1, <1>2, <1>6 DEF LogInv
<1>10. PlaceOK(e, n + 1)
  <2>1. e.prev_hash.index = last.index
    BY <1>8 DEF entry_hash
  <2> QED
    BY <1>6, <1>8, <1>9, <2>1 DEF PlaceOK
<1>11. ASSUME NEW i \in 1..Len(entries') PROVE PlaceOK(entries'[i], i)
  BY <1>1, <1>6, <1>7, <1>10 DEF LogInv
<1>12. ASSUME NEW i \in 2..Len(entries') PROVE SignatureOK(entries'[i], appended')
  <2>1. CASE i = n + 1
    <3>1. SignatureOK(e, appended')
      BY <1>4, <1>8 DEF SignatureOK
    <3> QED
      BY <1>7, <2>1, <3>1
  <2>2. CASE i # n + 1
    <3>1. i \in 2..n /\ i \in 1..n
      BY <1>6, <1>7, <2>2
    <3>2. SignatureOK(entries[i], appended)
      BY <1>1, <3>1 DEF LogInv
    <3> QED
      BY <1>4, <1>7, <3>1, <3>2 DEF SignatureOK
  <2> QED
    BY <2>1, <2>2
<1>13. ASSUME touched' = 0 PROVE verify_integrity'
  <2>1. \A i \in 2..n : ChainHolds(i) /\ verify(entries[i])
    BY <1>1, <1>4, <1>13 DEF LogInv, verify_integrity
  <2>2. ASSUME NEW i \in 2..(n + 1)
        PROVE  entries'[i].prev_hash = entry_hash(entries'[i - 1]) /\ verify(entries'[i])
    <3>1. CASE i = n + 1
      <4>1. entries'[i - 1] = last /\ entries'[i] = e
        BY <1>2, <1>6, <1>7, <3>1
      <4> QED
        BY <1>8, <4>1
    <3>2. CASE i # n + 1
      <4>1. i \in 2..n /\ i \in 1..n /\ i - 1 \in 1..n
        BY <1>6, <3>2
      <4>2. entries'[i] = entries[i] /\ entries'[i - 1] = entries[i - 1]
        BY <1>7, <4>1
      <4> QED
        BY <2>1, <4>1, <4>2 DEF ChainHolds
    <3> QED
      BY <3>1, <3>2
  <2> QED
    BY <1>7, <2>2 DEF verify_integrity, ChainHolds
<1>14. touched' \in Nat
  BY <1>4 DEF LogInv
<1> QED
  BY <1>7, <1>11, <1>12, <1>13, <1>14 DEF LogInv

\* An edit of a payload, or another key's signature, in place.
LEMMA ReplaceStep ==
  ASSUME LogInv, appended' = appended, touched' = touched + 1,
         NEW i \in 1..Len(entries), NEW e, entries' = [entries EXCEPT ![i] = e],
         IsEntry(e), e.index = entries[i].index, e.prev_hash = entries[i].prev_hash,
         i > 1 => SignatureOK(e, appended)
  PROVE  LogInv'
<1>1. PICK S : entries \in Seq(S)
  BY DEF LogInv
<1>2. /\ entries' \in Seq(S \cup {e}) /\ Len(entries') = Len(entries) /\ entries'[i] = e
      /\ \A k \in 1..Len(entries) \ {i} : entries'[k] = entries[k]
  BY <1>1
<1>3. ASSUME NEW k \in 1..Len(entries') PROVE PlaceOK(entries'[k], k)
  BY <1>2 DEF LogInv, PlaceOK
<1>4. ASSUME NEW k \in 2..Len(entries') PROVE SignatureOK(entries'[k], appended')
  <2>1. CASE k = i
    BY <1>2, <2>1
  <2>2. CASE k # i
    BY <1>2, <2>2 DEF LogInv
  <2> QED
    BY <2>1, <2>2
<1>5. touched' \in Nat /\ touched' # 0
  BY DEF LogInv
<1> QED
  BY <1>2, <1>3, <1>4, <1>5 DEF LogInv

LEMMA LoseStep ==
  ASSUME LogInv, appended' = appended, touched' = touched + 1,
         NEW i \in 1..Len(entries), Lose(i)
  PROVE  LogInv'
<1>1. PICK S : entries \in Seq(S)
  BY DEF LogInv
<1>2. PICK n : n = Len(entries)
  OBVIOUS
<1>3. n \in Nat /\ i \in Nat /\ 1 <= i /\ i <= n
  BY <1>1, <1>2
<1>4. /\ entries' \in Seq(S) /\ Len(entries') = n - 1
      /\ \A k \in 1..(n - 1) : entries'[k] = IF k < i THEN entries[k] ELSE entries[k + 1]
  BY <1>1, <1>2, Without DEF Lose
<1>5. ASSUME NEW k \in 1..(n - 1) PROVE PlaceOK(entries'[k], k)
  <2>1. CASE k < i
    BY <1>2, <1>3, <1>4, <2>1 DEF LogInv
  <2>2. CASE ~ k < i
    <3>1. k + 1 \in 1..n /\ k + 1 > 1
      BY <1>3
    <3>2. PlaceOK(entries[k + 1], k + 1)
      BY <1>2, <3>1 DEF LogInv
    <3>3. PlaceOK(entries[k + 1], k)
      BY <3>1, <3>2 DEF PlaceOK
    <3> QED
      BY <1>4, <2>2, <3>3
  <2> QED
    BY <2>1, <2>2
<1>6. ASSUME NEW k \in 2..(n - 1) PROVE SignatureOK(entries'[k], appended')
  <2>1. k \in 1..(n - 1) /\ k \in 2..n /\ k + 1 \in 2..n
    BY <1>3
  <2> QED
    BY <1>2, <1>4, <2>1 DEF LogInv
<1>7. touched' \in Nat /\ touched' # 0
  <2>1. touched \in Nat
    BY DEF LogInv
  <2> QED
    BY <2>1
<1> QED
  BY <1>4, <1>5, <1>6, <1>7 DEF LogInv

\* An entry made with another authority's key.
LEMMA ForgeStep ==
  ASSUME LogInv, appended' = appended, touched' = touched + 1,
         NEW key, NEW payload, Forge(key, payload)
  PROVE  LogInv'
<1>1. PICK n : n = Len(entries)
  OBVIOUS
<1>2. PICK last : last = entries[n]
  OBVIOUS
<1>3. PICK e : e = sign([index |-> n, prev_hash |-> entry_hash(last), payload |-> payload], key)
  OBVIOUS
<1>4. entries' = Append(entries, e) /\ key # OwnKey
  BY <1>1, <1>2, <1>3 DEF Forge
<1>5. PICK S : entries \in Seq(S)
  BY DEF LogInv
<1>6. n \in Nat /\ n >= 1
  BY <1>1, <1>5 DEF Forge
<1>7. /\ entries' \in Seq(S \cup {e}) /\ Len(entries') = n + 1 /\ entries'[n + 1] = e
      /\ \A i \in 1..n : entries'[i] = entries[i]
  BY <1>1, <1>4, <1>5, <1>6
<1>8. e.index = n /\ e.prev_hash = entry_hash(last) /\ e.signature.key = key /\ IsEntry(e)
  BY <1>3 DEF sign, IsEntry
<1>9. PlaceOK(last, n)
  BY <1>1, <1>2, <1>6 DEF LogInv
<1>10. PlaceOK(e, n + 1)
  <2>1. e.prev_hash.index = last.index
    BY <1>8 DEF entry_hash
  <2> QED
    BY <1>6, <1>8, <1>9, <2>1 DEF PlaceOK
<1>11. ASSUME NEW i \in 1..Len(entries') PROVE PlaceOK(entries'[i], i)
  BY <1>1, <1>6, <1>7, <1>10 DEF LogInv
<1>12. ASSUME NEW i \in 2..Len(entries') PROVE SignatureOK(entries'[i], appended')
  <2>1. CASE i = n + 1
    BY <1>4, <1>7, <1>8, <2>1 DEF SignatureOK
  <2>2. CASE i # n + 1
    <3>1. i \in 2..n
      BY <1>6, <1>7, <2>2
    <3> QED
      BY <1>1, <1>7, <3>1 DEF LogInv
  <2> QED
    BY <2>1, <2>2
<1>13. touched' \in Nat /\ touched' # 0
  BY DEF LogInv
<1> QED
  BY <1>7, <1>11, <1>12, <1>13 DEF LogInv

LEMMA TouchStep ==
  ASSUME LogInv, Touch
  PROVE  LogInv'
<1>1. appended' = appended /\ touched' = touched + 1
  BY DEF Touch
<1>2. PICK S : entries \in Seq(S)
  BY DEF LogInv
<1>3. ASSUME NEW i \in 1..Len(entries), NEW p, EditPayload(i, p) PROVE LogInv'
  <2>1. PICK o : o = entries[i]
    OBVIOUS
  <2>2. PICK e : e = [index |-> o.index, prev_hash |-> o.prev_hash, payload |-> p,
                      signature |-> [key |-> o.signature.key, over |-> o.signature.over]]
    OBVIOUS
  <2>3. IsEntry(o)
    BY <2>1 DEF LogInv, PlaceOK
  <2>4. [o EXCEPT !.payload = p] = e
    BY <2>2, <2>3 DEF IsEntry
  <2>5. entries' = [entries EXCEPT ![i] = e]
    BY <1>3, <2>1, <2>4 DEF EditPayload
  <2>6. /\ e.index = o.index /\ e.prev_hash = o.prev_hash
        /\ e.signature.key = o.signature.key /\ e.signature.over = o.signature.over
        /\ IsEntry(e)
    BY <2>2 DEF IsEntry
  <2>7. i > 1 => SignatureOK(e, appended)
    <3>1. i > 1 => SignatureOK(o, appended)
      BY <1>2, <2>1 DEF LogInv
    <3> QED
      BY <2>6, <3>1 DEF SignatureOK
  <2> QED
    BY <1>1, <2>1, <2>5, <2>6, <2>7, ReplaceStep
<1>4. ASSUME NEW i \in 1..Len(entries), NEW key, Resign(i, key) PROVE LogInv'
  <2>1. PICK o : o = entries[i]
    OBVIOUS
  <2>2. PICK e : e = sign(o, key)
    OBVIOUS
  <2>3. entries' = [entries EXCEPT ![i] = e] /\ key # OwnKey
    BY <1>4, <2>1, <2>2 DEF Resign
  <2>4. e.index = o.index /\ e.prev_hash = o.prev_hash /\ e.signature.key = key /\ IsEntry(e)
    BY <2>2 DEF sign, IsEntry
  <2>5. SignatureOK(e, appended)
    BY <2>3, <2>4 DEF SignatureOK
  <2> QED
    BY <1>1, <2>1, <2>3, <2>4, <2>5, ReplaceStep
<1>5. ASSUME NEW i \in 1..Len(entries), Lose(i) PROVE LogInv'
  BY <1>1, <1>5, LoseStep
<1>6. ASSUME NEW key, NEW p, Forge(key, p) PROVE LogInv'
  BY <1>1, <1>6, ForgeStep
<1> QED
  BY <1>3, <1>4, <1>5, <1>6 DEF Touch

\* The invariant of every log, however it was edited.
THEOREM LogInvariant == Spec => []LogInv
<1>1. LogInv /\ [Next]_vars => LogInv'
  <2> SUFFICES ASSUME LogInv, [Next]_vars PROVE LogInv'
    OBVIOUS
  <2>1. CASE UNCHANGED vars
    BY <2>1 DEF vars, LogInv, verify_integrity, ChainHolds
  <2>2. CASE Touch
    BY <2>2, TouchStep
  <2>3. ASSUME NEW p \in Payloads, append(p) PROVE LogInv'
    BY <2>3, AppendStep
  <2> QED
    BY <2>1, <2>2, <2>3 DEF Next
<1> QED
  BY <1>1, LogInit, PTL DEF Spec

LEMMA InvCatchesTampering == LogInv => TamperingIsCaught
<1>1. LogInv => TamperingIsCaught
  <2> SUFFICES ASSUME LogInv, verify_integrity, NEW i \in 2..Len(entries)
               PROVE  entries[i] \in appended
    BY DEF TamperingIsCaught
  <2>1. PICK e : e = entries[i]
    OBVIOUS
  <2>2. i \in 1..Len(entries)
    BY DEF LogInv
  <2>3. IsEntry(e) /\ SignatureOK(e, appended)
    BY <2>1, <2>2 DEF LogInv, PlaceOK
  <2>4. verify(e)
    BY <2>1 DEF verify_integrity
  <2>5. e.signature.key = OwnKey /\ Signed(e.signature.over) = e
    BY <2>3, <2>4, VerifiedIsSigned
  <2> QED
    BY <2>1, <2>3, <2>5 DEF SignatureOK
<1> QED
  BY <1>1

\* A verified entry names the hash, and with it the index, of the entry before it.
LEMMA InvLeavesNoHole == LogInv => NoHoleVerifies
<1> SUFFICES ASSUME LogInv, verify_integrity
             PROVE  /\ \A i \in 2..Len(entries) : entries[i].index <= entries[i-1].index + 1
                    /\ (Len(entries) > 0 /\ entries[1].index = 0) =>
                         \A i \in 2..Len(entries) : entries[i].index = i - 1
  BY DEF NoHoleVerifies
<1>1. PICK n : n = Len(entries)
  OBVIOUS
<1>2. n \in Nat
  <2>1. PICK S : entries \in Seq(S)
    BY DEF LogInv
  <2> QED
    BY <1>1, <2>1
<1>3. ASSUME NEW i \in 2..n
      PROVE  /\ entries[i].index \in Nat /\ i - 1 <= entries[i].index
             /\ entries[i].index <= entries[i-1].index + 1
  <2>1. i \in 1..n /\ i > 1
    BY <1>2
  <2>2. PICK e : e = entries[i]
    OBVIOUS
  <2>3. e.prev_hash = entry_hash(entries[i-1])
    BY <1>1, <2>2 DEF verify_integrity, ChainHolds
  <2>4. e.prev_hash.index = entries[i-1].index
    BY <2>3 DEF entry_hash
  <2>5. PlaceOK(e, i)
    BY <1>1, <2>1, <2>2 DEF LogInv
  <2> QED
    BY <2>1, <2>2, <2>4, <2>5 DEF PlaceOK
<1>4. ASSUME n > 0, entries[1].index = 0, NEW i \in 2..n
      PROVE  entries[i].index = i - 1
  <2> DEFINE P == {k \in 0..(n - 1) : entries[k + 1].index = k}
  <2>1. 0 \in P
    BY <1>2, <1>4
  <2>2. ASSUME NEW k \in 0..((n - 1) - 1), k \in P PROVE k + 1 \in P
    <3>1. k + 2 \in 2..n /\ (k + 2) - 1 = k + 1 /\ k + 1 \in 0..(n - 1) /\ (k + 1) + 1 = k + 2
      BY <1>2
    <3>2. PICK x : x = entries[k + 2].index
      OBVIOUS
    <3>3. x \in Nat /\ k + 1 <= x /\ x <= k + 1
      BY <1>3, <2>2, <3>1, <3>2
    <3>4. x = k + 1
      BY <3>3
    <3> QED
      BY <3>1, <3>2, <3>4
  <2>3. \A k \in 0..(n - 1) : k \in P
    <3> HIDE DEF P
    <3>1. n - 1 \in Nat
      BY <1>2, <1>4
    <3> QED
      BY <2>1, <2>2, <3>1, IntervalInduction
  <2>4. i - 1 \in 0..(n - 1) /\ (i - 1) + 1 = i
    BY <1>2
  <2> QED
    BY <2>3, <2>4
<1> QED
  BY <1>1, <1>3, <1>4

\* verify_integrity accepts only entries that append made, as it made them:
\* tamper_log.py's "tampering MUST be caught".
THEOREM VerifiedIsAppended == Spec => []TamperingIsCaught
BY InvCatchesTampering, LogInvariant, PTL

\* What verify_integrity accepts has no hole between its first and its last entry,
\* and if it starts at index 0 every index is its place; entries lost at the front
\* or at the end it does not miss.
THEOREM VerifiedIsGapless == Spec => []NoHoleVerifies
BY InvLeavesNoHole, LogInvariant, PTL

\* An honest report never looks like tampering.
THEOREM HonestVerifies == Spec => []HonestLogVerifies
<1>1. LogInv => HonestLogVerifies
  BY DEF LogInv, HonestLogVerifies
<1> QED
  BY <1>1, LogInvariant, PTL

-----------------------------------------------------------------------------
(* What is kept in a log *)

\* What append adds to the log's history.
LEMMA AppendAdds ==
  ASSUME NEW payload, append(payload)
  PROVE  \E e : appended' = appended \cup {e} /\ e.payload = payload
<1>1. PICK e : e = LogEntry(Len(entries), entry_hash(entries[Len(entries)]), payload)
  OBVIOUS
<1>2. appended' = appended \cup {e}
  BY <1>1 DEF append, AppendEntry
<1>3. e.payload = payload
  BY <1>1, NewEntry
<1> QED
  BY <1>2, <1>3

LEMMA LogSame ==
  ASSUME LogInv, UNCHANGED vars
  PROVE  LogInv'
BY DEF vars, LogInv, verify_integrity, ChainHolds

-----------------------------------------------------------------------------
(* The tap registry *)

\* What was appended includes, for each installed tap, the serial it was installed
\* with, and for each finding the serial that was seen instead.
FindingInv ==
  /\ IsFiniteSet(appended)
  /\ DOMAIN on_tap = DOMAIN recorded
  /\ \A t \in DOMAIN recorded :
       /\ on_tap[t] \in Serials /\ recorded[t] \in Serials
       /\ \E e \in appended : e.payload = install(t, recorded[t])
  /\ \A t \in found :
       /\ t \in DOMAIN recorded
       /\ \E e \in appended, o \in Serials, m \in BOOLEAN :
            o # recorded[t] /\ e.payload = inspection(t, o, m)

\* Nothing is missing from a whole log that verifies.
LEMMA WholeLogHasAll ==
  ASSUME LogInv, IsFiniteSet(appended), verify_integrity, Whole
  PROVE  \A e \in appended : \E i \in 2..Len(entries) : entries[i] = e
<1>1. PICK n : n = Len(entries)
  OBVIOUS
<1>2. n \in Nat /\ n >= 1
  <2>1. PICK S : entries \in Seq(S)
    BY DEF LogInv
  <2>2. Cardinality(appended) \in Nat
    BY FS_CardinalityType
  <2> QED
    BY <1>1, <2>1, <2>2 DEF Whole
<1>3. IsFiniteSet(2..n) /\ Cardinality(2..n) = n - 1
  BY <1>2, FS_Interval
<1>4. Cardinality(appended) \in Nat
  BY FS_CardinalityType
<1>5. Cardinality(appended) = Cardinality(2..n)
  BY <1>1, <1>2, <1>3, <1>4 DEF Whole
<1> DEFINE f == [i \in 2..n |-> entries[i]]
<1>6. \A i \in 2..n : entries[i] \in appended /\ entries[i].index = i - 1
  BY <1>1, <1>2, InvCatchesTampering, InvLeavesNoHole DEF TamperingIsCaught, NoHoleVerifies, Whole
<1>7. f \in Injection(2..n, appended)
  <2>1. f \in [2..n -> appended]
    BY <1>6
  <2>2. ASSUME NEW i \in 2..n, NEW j \in 2..n, f[i] = f[j] PROVE i = j
    <3>1. i - 1 = j - 1
      BY <1>6, <2>2
    <3> QED
      BY <1>2, <3>1
  <2> QED
    BY <2>1, <2>2 DEF Injection, IsInjective
<1>8. f \in Surjection(2..n, appended)
  <2> HIDE DEF f
  <2> QED
    BY <1>5, <1>7, FS_Injection
<1>9. \A e \in appended : \E i \in 2..n : f[i] = e
  <2> HIDE DEF f
  <2> QED
    BY <1>8 DEF Surjection
<1> QED
  BY <1>1, <1>9

LEMMA FindingInit == RegistryInit => LogInv /\ FindingInv
<1> SUFFICES ASSUME RegistryInit PROVE LogInv /\ FindingInv
  OBVIOUS
<1>1. LogInv
  BY LogInit DEF RegistryInit
<1>2. appended = {} /\ on_tap = <<>> /\ recorded = <<>> /\ found = {}
  BY DEF RegistryInit, Init
<1>3. DOMAIN recorded = {}
  BY <1>2
<1> QED
  BY <1>1, <1>2, <1>3, FS_EmptySet DEF FindingInv

LEMMA FindingStep ==
  ASSUME LogInv, FindingInv, [RegistryNext]_registryVars
  PROVE  LogInv' /\ FindingInv'
<1>1. CASE UNCHANGED registryVars
  BY <1>1 DEF registryVars, vars, LogInv, verify_integrity, ChainHolds, FindingInv
<1>2. CASE Tamper
  <2>1. LogInv'
    BY <1>2, TouchStep DEF Tamper
  <2>2. appended' = appended /\ on_tap' = on_tap /\ recorded' = recorded /\ found' = found
    BY <1>2 DEF Tamper, Touch
  <2> QED
    BY <2>1, <2>2 DEF FindingInv
<1>3. ASSUME NEW t \in Taps, Bypass(t) PROVE LogInv' /\ FindingInv'
  <2>1. /\ UNCHANGED <<entries, appended, touched>> /\ recorded' = recorded /\ found' = found
        /\ t \in DOMAIN on_tap
    BY <1>3 DEF Bypass, vars
  <2>2. PICK s \in Serials : on_tap' = [on_tap EXCEPT ![t] = s]
    BY <1>3 DEF Bypass
  <2>3. LogInv'
    BY <2>1 DEF LogInv, verify_integrity, ChainHolds
  <2>4. DOMAIN on_tap' = DOMAIN on_tap /\ \A u \in DOMAIN on_tap : on_tap[u] \in Serials => on_tap'[u] \in Serials
    BY <2>2
  <2> QED
    BY <2>1, <2>3, <2>4 DEF FindingInv
<1>4. ASSUME NEW t \in Taps, Inspect(t) PROVE LogInv' /\ FindingInv'
  <2>1. PICK m : m = OnFile(t)
    OBVIOUS
  <2>2. m \in BOOLEAN
    BY <2>1 DEF OnFile
  <2>3. /\ t \in DOMAIN on_tap /\ append(inspection(t, on_tap[t], m))
        /\ found' = IF on_tap[t] = recorded[t] THEN found ELSE found \cup {t}
        /\ on_tap' = on_tap /\ recorded' = recorded
    BY <1>4, <2>1 DEF Inspect
  <2>4. LogInv'
    BY <2>3, AppendStep
  <2>5. /\ IsFiniteSet(appended') /\ appended \subseteq appended'
        /\ \E e \in appended' : e.payload = inspection(t, on_tap[t], m)
    <3>1. PICK e : appended' = appended \cup {e} /\ e.payload = inspection(t, on_tap[t], m)
      BY <2>3, AppendAdds
    <3> QED
      BY <3>1, FS_AddElement DEF FindingInv
  <2>6. ASSUME NEW u \in found'
        PROVE  /\ u \in DOMAIN recorded
               /\ \E e \in appended', o \in Serials, k \in BOOLEAN :
                    o # recorded[u] /\ e.payload = inspection(u, o, k)
    <3>1. CASE u \in found
      BY <2>5, <3>1 DEF FindingInv
    <3>2. CASE u \notin found
      <4>1. u = t /\ on_tap[t] # recorded[t]
        BY <2>3, <3>2
      <4>2. t \in DOMAIN recorded /\ on_tap[t] \in Serials
        BY <2>3 DEF FindingInv
      <4> QED
        BY <2>2, <2>5, <4>1, <4>2
    <3> QED
      BY <3>1, <3>2
  <2>7. \A u \in DOMAIN recorded : \E e \in appended' : e.payload = install(u, recorded[u])
    BY <2>5 DEF FindingInv
  <2> QED
    BY <2>3, <2>4, <2>5, <2>6, <2>7 DEF FindingInv
<1>5. ASSUME NEW t \in Taps, NEW s \in Serials, Install(t, s) PROVE LogInv' /\ FindingInv'
  <2>1. /\ t \notin DOMAIN on_tap /\ append(install(t, s)) /\ found' = found
        /\ on_tap' = [u \in DOMAIN on_tap \cup {t} |-> IF u = t THEN s ELSE on_tap[u]]
        /\ recorded' = [u \in DOMAIN recorded \cup {t} |-> IF u = t THEN s ELSE recorded[u]]
    BY <1>5 DEF Install
  <2>2. LogInv'
    BY <2>1, AppendStep
  <2>3. /\ IsFiniteSet(appended') /\ appended \subseteq appended'
        /\ \E e \in appended' : e.payload = install(t, s)
    <3>1. PICK e : appended' = appended \cup {e} /\ e.payload = install(t, s)
      BY <2>1, AppendAdds
    <3> QED
      BY <3>1, FS_AddElement DEF FindingInv
  <2>4. /\ DOMAIN on_tap = DOMAIN recorded
        /\ DOMAIN on_tap' = DOMAIN recorded \cup {t} /\ DOMAIN recorded' = DOMAIN recorded \cup {t}
        /\ on_tap'[t] = s /\ recorded'[t] = s
        /\ \A u \in DOMAIN recorded : on_tap'[u] = on_tap[u] /\ recorded'[u] = recorded[u]
    BY <2>1 DEF FindingInv
  <2>5. ASSUME NEW u \in DOMAIN recorded'
        PROVE  /\ on_tap'[u] \in Serials /\ recorded'[u] \in Serials
               /\ \E e \in appended' : e.payload = install(u, recorded'[u])
    <3>1. CASE u = t
      BY <2>3, <2>4, <3>1
    <3>2. CASE u # t
      <4>1. u \in DOMAIN recorded
        BY <2>4, <3>2
      <4> QED
        BY <2>3, <2>4, <4>1 DEF FindingInv
    <3> QED
      BY <3>1, <3>2
  <2>6. ASSUME NEW u \in found
        PROVE  /\ u \in DOMAIN recorded'
               /\ \E e \in appended', o \in Serials, m \in BOOLEAN :
                    o # recorded'[u] /\ e.payload = inspection(u, o, m)
    <3>1. u \in DOMAIN recorded
      BY DEF FindingInv
    <3> QED
      BY <2>3, <2>4, <3>1 DEF FindingInv
  <2> QED
    BY <2>1, <2>2, <2>3, <2>4, <2>5, <2>6 DEF FindingInv
<1> QED
  BY <1>1, <1>2, <1>3, <1>4, <1>5 DEF RegistryNext

\* The registry's log is sound however its taps and inspections go.
THEOREM RegistryLogIsSound == RegistrySpec => [](TamperingIsCaught /\ NoHoleVerifies /\ HonestLogVerifies)
<1>1. LogInv => TamperingIsCaught /\ NoHoleVerifies /\ HonestLogVerifies
  BY InvCatchesTampering, InvLeavesNoHole DEF LogInv, HonestLogVerifies
<1> QED
  BY <1>1, FindingInit, FindingStep, PTL DEF RegistrySpec

\* tap_registry_demo.py's last section: once an inspector has logged another serial
\* than the one a tap was installed with, every log that verifies and has lost
\* nothing names both, for any taps, serials, edits and length.
THEOREM FindingsStand == RegistrySpec => []FindingsSurvive
<1>1. LogInv /\ FindingInv => FindingsSurvive
  <2> SUFFICES ASSUME LogInv, FindingInv, verify_integrity, Whole, NEW t \in found
               PROVE  \E i, j \in 2..Len(entries), s, o \in Serials :
                        /\ s # o
                        /\ entries[i].payload = install(t, s)
                        /\ \E m \in BOOLEAN : entries[j].payload = inspection(t, o, m)
    BY DEF FindingsSurvive
  <2>1. \A e \in appended : \E i \in 2..Len(entries) : entries[i] = e
    BY WholeLogHasAll DEF FindingInv
  <2>2. PICK d \in appended : d.payload = install(t, recorded[t])
    BY DEF FindingInv
  <2>3. PICK e \in appended, o \in Serials, m \in BOOLEAN :
          o # recorded[t] /\ e.payload = inspection(t, o, m)
    BY DEF FindingInv
  <2>4. PICK i \in 2..Len(entries) : entries[i] = d
    BY <2>1
  <2>5. PICK j \in 2..Len(entries) : entries[j] = e
    BY <2>1
  <2>6. recorded[t] \in Serials
    BY DEF FindingInv
  <2> QED
    BY <2>2, <2>3, <2>4, <2>5, <2>6
<1> QED
  BY <1>1, FindingInit, FindingStep, PTL DEF RegistrySpec

-----------------------------------------------------------------------------
(* Proof of learning *)

Update == [batch : SegmentSeeds \X Nat, lr : Rates]

\* What a segment's entry claims is verified from its start.
Replays(start, entry) == verify_segment(start, entry)

\* A model that was trained, in no more than so many steps.
Trained(model, steps) == model \in Seq(Update) /\ Len(model) <= steps

LearningInv ==
  /\ spent \in Nat
  /\ checkpoints \in Seq(Seq(Update)) /\ Len(checkpoints) >= 1
  /\ \A i \in 1..Len(checkpoints) : Trained(checkpoints[i], spent)
  /\ \A e \in appended : Trained(e.payload.end_hash, spent)
  /\ \E S : samples \in Seq(S)
  /\ \A n \in 1..Len(samples) :
       /\ samples[n].ok => Replays(samples[n].start, samples[n].entry)
       /\ Trained(samples[n].entry.end_hash, spent)

\* While nothing was tampered with, entry i + 1 is that of the segment from
\* checkpoint i to the next.
HonestInv ==
  honest =>
    /\ Len(entries) = Len(checkpoints)
    /\ \A i \in 1..(Len(checkpoints) - 1) : Replays(checkpoints[i], entries[i + 1].payload)
    /\ \A n \in 1..Len(samples) : samples[n].ok

\* What Claimed's recursion computes.
LEMMA ClaimedDef ==
  ASSUME NEW S, NEW run \in Seq(S)
  PROVE  \E model :
           /\ model[0] = InitialModel
           /\ \A n \in 1..Len(run) :
                model[n] = run_segment(model[n-1], run[n].entry.seed, run[n].entry.n_steps, LR)
           /\ Claimed(run) = model[Len(run)]
<1>1. PICK n : n = Len(run)
  OBVIOUS
<1>2. n \in Nat
  BY <1>1
<1> DEFINE Turn(m, k) == run_segment(m, run[k].entry.seed, run[k].entry.n_steps, LR)
           Unrolls(f, m) == f = [k \in 0..m |-> IF k = 0 THEN InitialModel ELSE Turn(f[k-1], k)]
           P == {m \in 0..n : \E f : Unrolls(f, m)}
<1>3. 0 \in P
  <2> DEFINE g == [k \in 0..0 |-> InitialModel]
  <2>1. Unrolls(g, 0)
    <3> HIDE DEF Turn
    <3> QED
      OBVIOUS
  <2> HIDE DEF g, Unrolls
  <2> QED
    BY <1>2, <2>1, 0 \in 0..n
<1>4. ASSUME NEW m \in 0..(n-1), m \in P PROVE m+1 \in P
  <2>1. PICK f : Unrolls(f, m)
    BY <1>4
  <2> HIDE DEF Turn
  <2> DEFINE g == [k \in 0..(m+1) |-> IF k <= m THEN f[k] ELSE Turn(f[m], m+1)]
  <2>2. ASSUME NEW k \in 0..(m+1)
        PROVE  g[k] = IF k = 0 THEN InitialModel ELSE Turn(g[k-1], k)
    <3>1. CASE k = m+1
      BY <3>1
    <3>2. CASE k <= m
      <4>1. f[k] = IF k = 0 THEN InitialModel ELSE Turn(f[k-1], k)
        BY <2>1, <3>2
      <4> QED
        BY <4>1, <3>2
    <3> QED
      BY <3>1, <3>2
  <2>3. Unrolls(g, m+1)
    BY <2>2
  <2>4. m+1 \in 0..n
    BY <1>2, <1>4
  <2> HIDE DEF g, Unrolls
  <2> QED
    BY <2>3, <2>4
<1>5. n \in P
  <2> HIDE DEF P
  <2> QED
    BY <1>2, <1>3, <1>4, IntervalInduction, n \in 0..n
<1>6. PICK f : Unrolls(f, n)
  BY <1>5
<1> DEFINE model == CHOOSE u : Unrolls(u, n)
<1>7. Unrolls(model, n)
  <2> HIDE DEF Unrolls
  <2> QED
    BY <1>6
<1>8. Claimed(run) = model[Len(run)]
  BY <1>1 DEF Claimed
<1> HIDE DEF model, Turn
<1>9. model[0] = InitialModel /\ \A k \in 1..n : model[k] = Turn(model[k-1], k)
  BY <1>2, <1>7
<1> QED
  BY <1>1, <1>8, <1>9 DEF Turn

\* A run that is accepted ends in what its claims say.
LEMMA AcceptedIsClaimed ==
  ASSUME NEW S, NEW run \in Seq(S), Accepts(run), run # <<>>,
         \A n \in 1..Len(run) : run[n].ok => Replays(run[n].start, run[n].entry)
  PROVE  run[Len(run)].entry.end_hash = Claimed(run)
<1>1. PICK n : n = Len(run)
  OBVIOUS
<1>2. n \in Nat /\ n >= 1
  BY <1>1
<1>3. PICK model :
        /\ model[0] = InitialModel
        /\ \A k \in 1..n : model[k] = run_segment(model[k-1], run[k].entry.seed, run[k].entry.n_steps, LR)
        /\ Claimed(run) = model[n]
  BY <1>1, ClaimedDef
<1>4. ASSUME NEW k \in 1..n
      PROVE  /\ run_segment(run[k].start, run[k].entry.seed, run[k].entry.n_steps, LR) = run[k].entry.end_hash
             /\ run[k].start = IF k = 1 THEN InitialModel ELSE run[k-1].entry.end_hash
  BY <1>1, <1>4 DEF Accepts, Replays, verify_segment, checkpoint_hash
<1> DEFINE P == {k \in 0..(n-1) : run[k+1].entry.end_hash = model[k+1]}
<1>5. 0 \in P
  <2>1. 1 \in 1..n /\ 0 \in 0..(n-1) /\ 1 - 1 = 0 /\ 0 + 1 = 1
    BY <1>2
  <2>2. run[1].start = InitialModel
    BY <1>4, <2>1
  <2>3. model[1] = run_segment(model[0], run[1].entry.seed, run[1].entry.n_steps, LR)
    BY <1>3, <2>1
  <2> QED
    BY <1>3, <1>4, <2>1, <2>2, <2>3
<1>6. ASSUME NEW k \in 0..((n-1)-1), k \in P PROVE k+1 \in P
  <2>1. k+2 \in 1..n /\ k+1 \in 0..(n-1) /\ (k+2) - 1 = k+1 /\ (k+1)+1 = k+2 /\ k+2 # 1
    BY <1>2
  <2>2. run[k+2].start = run[k+1].entry.end_hash
    BY <1>4, <2>1
  <2>3. run[k+1].entry.end_hash = model[k+1]
    BY <1>6
  <2>4. model[k+2] = run_segment(model[k+1], run[k+2].entry.seed, run[k+2].entry.n_steps, LR)
    BY <1>3, <2>1
  <2> QED
    BY <1>4, <2>1, <2>2, <2>3, <2>4
<1>7. n-1 \in P
  <2> HIDE DEF P
  <2>1. n-1 \in Nat /\ n-1 \in 0..(n-1)
    BY <1>2
  <2> QED
    BY <1>5, <1>6, <2>1, IntervalInduction
<1>8. (n-1) + 1 = n
  BY <1>2
<1> QED
  BY <1>1, <1>3, <1>7, <1>8

\* Where append puts what it appends.
LEMMA AppendPlaces ==
  ASSUME LogInv, NEW payload, append(payload)
  PROVE  /\ Len(entries) \in Nat /\ Len(entries') = Len(entries) + 1
         /\ entries'[Len(entries) + 1].payload = payload
         /\ \A i \in 1..Len(entries) : entries'[i] = entries[i]
<1>1. PICK e : e = LogEntry(Len(entries), entry_hash(entries[Len(entries)]), payload)
  OBVIOUS
<1>2. entries' = Append(entries, e)
  BY <1>1 DEF append, AppendEntry
<1>3. PICK S : entries \in Seq(S)
  BY DEF LogInv
<1>4. e.payload = payload
  BY <1>1, NewEntry
<1> QED
  BY <1>2, <1>3, <1>4

\* A segment's end is trained from its start, by as many updates as it ran.
LEMMA RunSegmentTrains ==
  ASSUME NEW m \in Seq(Update), NEW s \in SegmentSeeds, NEW n \in Nat, NEW lr \in Rates
  PROVE  run_segment(m, s, n, lr) \in Seq(Update) /\ Len(run_segment(m, s, n, lr)) = Len(m) + n
<1>1. PICK b : b = make_segment_batches(s, n)
  OBVIOUS
<1>2. PICK u : u = [i \in 1..n |-> [batch |-> b[i], lr |-> lr]]
  OBVIOUS
<1>3. \A i \in 1..n : b[i] = <<s, i>>
  BY <1>1 DEF make_segment_batches
<1>4. \A i \in 1..n : u[i] \in Update
  <2> TAKE i \in 1..n
  <2>1. PICK p : p = <<s, i>>
    OBVIOUS
  <2>2. i \in Nat
    OBVIOUS
  <2>3. p \in SegmentSeeds \X Nat
    BY <2>1, <2>2, Zenon
  <2>4. b[i] = p
    BY <1>3, <2>1
  <2>5. u[i] = [batch |-> p, lr |-> lr]
    BY <1>2, <2>4
  <2> QED
    BY <2>3, <2>5 DEF Update
<1>5. u \in Seq(Update) /\ Len(u) = n
  <2>1. u \in [1..n -> Update]
    BY <1>2, <1>4
  <2> QED
    BY <2>1
<1>6. run_segment(m, s, n, lr) = m \o u
  BY <1>1, <1>2 DEF run_segment
<1>7. m \o u \in Seq(Update) /\ Len(m \o u) = Len(m) + Len(u)
  BY <1>5, ConcatLen
<1> QED
  BY <1>5, <1>6, <1>7

LEMMA LearningStart == LearningInit => LogInv /\ LearningInv /\ HonestInv
<1> SUFFICES ASSUME LearningInit PROVE LogInv /\ LearningInv /\ HonestInv
  OBVIOUS
<1>1. LogInv
  BY LogInit DEF LearningInit
<1>2. appended = {} /\ checkpoints = <<(<<>>)>> /\ spent = 0 /\ samples = <<>>
  BY DEF LearningInit, Init, InitialModel
<1>3. Len(entries) = 1
  BY DEF LearningInit, Init
<1>4. <<>> \in Seq(Update) /\ Len(<<>>) = 0
  OBVIOUS
<1>5. checkpoints \in Seq(Seq(Update)) /\ Len(checkpoints) = 1 /\ \A i \in 1..Len(checkpoints) : Trained(checkpoints[i], spent)
  <2>1. PICK m : m = InitialModel
    OBVIOUS
  <2>2. m \in Seq(Update) /\ Len(m) = 0
    BY <2>1, <1>4 DEF InitialModel
  <2>3. checkpoints = <<m>>
    BY <2>1 DEF LearningInit
  <2>4. Trained(m, spent)
    BY <1>2, <2>2 DEF Trained
  <2> QED
    BY <2>2, <2>3, <2>4
<1>6. samples \in Seq({}) /\ Len(samples) = 0
  BY <1>2
<1>7. LearningInv
  BY <1>2, <1>5, <1>6 DEF LearningInv
<1>8. HonestInv
  BY <1>3, <1>5, <1>6 DEF HonestInv
<1> QED
  BY <1>1, <1>7, <1>8

\* What was trained stays trained when more is spent.
LEMMA TrainedStays ==
  ASSUME NEW m, NEW few \in Nat, NEW many \in Nat, few <= many, Trained(m, few)
  PROVE  Trained(m, many)
BY DEF Trained

\* A segment was run and a claim about it logged.
LEMMA TrainStep ==
  ASSUME LogInv, LearningInv, NEW r \in SegmentSeeds, NEW n \in Nat, NEW lr \in Rates,
         NEW s, NEW c, Train(r, n, lr, s, c)
  PROVE  LogInv' /\ LearningInv'
<1>1. PICK k : k = Len(checkpoints)
  OBVIOUS
<1>2. PICK last : last = checkpoints[k]
  OBVIOUS
<1>3. PICK end : end = run_segment(last, r, n, lr)
  OBVIOUS
<1>5. PICK payload : payload = Segment(k - 1, last, end, s, c, lr)
  OBVIOUS
<1>6. append(payload) /\ checkpoints' = Append(checkpoints, end) /\ spent' = spent + n /\ samples' = samples
  BY <1>1, <1>2, <1>3, <1>5 DEF Train, Last, log_segment, checkpoint_hash
<1>7. LogInv'
  BY <1>6, AppendStep
<1>8. spent \in Nat /\ spent' \in Nat /\ spent <= spent'
  BY <1>6 DEF LearningInv
<1>9. k \in Nat /\ k >= 1 /\ Trained(last, spent)
  BY <1>1, <1>2 DEF LearningInv
<1>10. Trained(end, spent')
  <2>1. end \in Seq(Update) /\ Len(end) = Len(last) + n
    BY <1>3, <1>9, RunSegmentTrains DEF Trained
  <2>2. Len(last) + n <= spent'
    <3>1. Len(last) \in Nat /\ Len(last) <= spent
      BY <1>9 DEF Trained
    <3> QED
      BY <1>6, <1>8, <3>1
  <2> QED
    BY <2>1, <2>2 DEF Trained
<1>11. /\ checkpoints' \in Seq(Seq(Update)) /\ Len(checkpoints') = k + 1
       /\ checkpoints'[k + 1] = end /\ \A i \in 1..k : checkpoints'[i] = checkpoints[i]
  <2>1. end \in Seq(Update)
    BY <1>10 DEF Trained
  <2> QED
    BY <1>1, <1>6, <1>9, <2>1 DEF LearningInv
<1>12. ASSUME NEW i \in 1..Len(checkpoints') PROVE Trained(checkpoints'[i], spent')
  <2>1. CASE i = k + 1
    BY <1>10, <1>11, <2>1, Zenon
  <2>2. CASE i # k + 1
    <3>1. i \in 1..k
      BY <1>9, <1>11, <2>2
    <3>2. Trained(checkpoints[i], spent)
      BY <1>1, <3>1 DEF LearningInv
    <3> QED
      BY <1>8, <1>11, <3>1, <3>2, TrainedStays
  <2> QED
    BY <2>1, <2>2
<1>13. ASSUME NEW e \in appended' PROVE Trained(e.payload.end_hash, spent')
  <2>1. PICK d : appended' = appended \cup {d} /\ d.payload = payload
    BY <1>6, AppendAdds
  <2>2. CASE e = d
    <3>1. e.payload.end_hash = end
      BY <1>5, <2>1, <2>2 DEF Segment
    <3> QED
      BY <1>10, <3>1 DEF Trained
  <2>3. CASE e # d
    <3>1. Trained(e.payload.end_hash, spent)
      BY <2>1, <2>3 DEF LearningInv
    <3> QED
      BY <1>8, <3>1, TrainedStays
  <2> QED
    BY <2>2, <2>3
<1>14. ASSUME NEW i \in 1..Len(samples')
       PROVE  /\ samples'[i].ok => Replays(samples'[i].start, samples'[i].entry)
              /\ Trained(samples'[i].entry.end_hash, spent')
  <2>1. /\ samples[i].ok => Replays(samples[i].start, samples[i].entry)
        /\ Trained(samples[i].entry.end_hash, spent)
    BY <1>6 DEF LearningInv
  <2> QED
    BY <1>6, <1>8, <2>1, TrainedStays
<1>15. \E S : samples' \in Seq(S)
  BY <1>6 DEF LearningInv
<1>16. Len(checkpoints') >= 1
  BY <1>9, <1>11
<1>17. LearningInv'
  BY <1>8, <1>11, <1>12, <1>13, <1>14, <1>15, <1>16 DEF LearningInv
<1> QED
  BY <1>7, <1>17

\* An honest segment replays.
LEMMA HonestTrainStep ==
  ASSUME LogInv, LearningInv, HonestInv, NEW s \in SegmentSeeds, NEW lr \in Rates, TrainSegment(s, lr)
  PROVE  HonestInv'
<1>1. PICK k : k = Len(checkpoints)
  OBVIOUS
<1>2. PICK n : n = STEPS_PER_SEGMENT
  OBVIOUS
<1>3. PICK last : last = checkpoints[k]
  OBVIOUS
<1>4. PICK end : end = run_segment(last, s, n, lr)
  OBVIOUS
<1>5. PICK payload : payload = Segment(k - 1, last, end, s, n, lr)
  OBVIOUS
<1>6. /\ append(payload) /\ checkpoints' = Append(checkpoints, end) /\ samples' = samples
      /\ honest' = (honest /\ lr = LR)
  BY <1>1, <1>2, <1>3, <1>4, <1>5 DEF TrainSegment, Train, Last, log_segment, checkpoint_hash
<1>7. k \in Nat /\ k >= 1
  BY <1>1 DEF LearningInv
<1>8. /\ Len(entries') = Len(entries) + 1 /\ entries'[Len(entries) + 1].payload = payload
      /\ \A i \in 1..Len(entries) : entries'[i] = entries[i]
  BY <1>6, AppendPlaces
<1>9. /\ Len(checkpoints') = k + 1 /\ \A i \in 1..k : checkpoints'[i] = checkpoints[i]
  BY <1>1, <1>6, <1>7 DEF LearningInv
<1>10. SUFFICES ASSUME honest, lr = LR
                PROVE  /\ Len(entries') = Len(checkpoints')
                       /\ \A i \in 1..(Len(checkpoints') - 1) :
                            Replays(checkpoints'[i], entries'[i + 1].payload)
                       /\ \A i \in 1..Len(samples') : samples'[i].ok
  BY <1>6 DEF HonestInv
<1>11. Len(entries) = k
  BY <1>1, <1>10 DEF HonestInv
<1>12. Replays(last, payload)
  <2>1. payload.seed = s /\ payload.n_steps = n /\ payload.end_hash = end
    BY <1>5 DEF Segment
  <2> QED
    BY <1>4, <1>10, <2>1 DEF Replays, verify_segment, checkpoint_hash
<1>13. ASSUME NEW i \in 1..k PROVE Replays(checkpoints'[i], entries'[i + 1].payload)
  <2>1. CASE i = k
    <3>1. checkpoints'[i] = last /\ entries'[i + 1].payload = payload
      BY <1>3, <1>8, <1>9, <1>11, <2>1
    <3> QED
      BY <1>12, <3>1
  <2>2. CASE i # k
    <3>1. i \in 1..(k - 1) /\ i + 1 \in 1..k
      BY <1>7, <2>2
    <3>2. checkpoints'[i] = checkpoints[i] /\ entries'[i + 1] = entries[i + 1]
      BY <1>8, <1>9, <1>11, <3>1
    <3>3. Replays(checkpoints[i], entries[i + 1].payload)
      BY <1>1, <1>10, <3>1 DEF HonestInv
    <3> QED
      BY <3>2, <3>3
  <2> QED
    BY <2>1, <2>2
<1>14. (k + 1) - 1 = k
  BY <1>7
<1>15. \A i \in 1..Len(samples') : samples'[i].ok
  BY <1>6, <1>10 DEF HonestInv
<1> QED
  BY <1>8, <1>9, <1>11, <1>13, <1>14, <1>15

LEMMA SpliceStep ==
  ASSUME LogInv, LearningInv, NEW i \in 1..Len(checkpoints), NEW j \in 1..Len(checkpoints),
         Splice(i, checkpoints[j])
  PROVE  LogInv' /\ LearningInv'
<1>1. PICK m : m = checkpoints[j]
  OBVIOUS
<1>2. /\ checkpoints' = [checkpoints EXCEPT ![i] = m]
      /\ UNCHANGED vars /\ spent' = spent /\ samples' = samples /\ appended' = appended
  BY <1>1 DEF Splice, vars
<1>3. Trained(m, spent) /\ m \in Seq(Update)
  BY <1>1 DEF LearningInv, Trained
<1>4. /\ checkpoints' \in Seq(Seq(Update)) /\ Len(checkpoints') = Len(checkpoints) /\ checkpoints'[i] = m
      /\ \A k \in 1..Len(checkpoints) \ {i} : checkpoints'[k] = checkpoints[k]
  BY <1>2, <1>3 DEF LearningInv
<1>5. \A k \in 1..Len(checkpoints') : Trained(checkpoints'[k], spent')
  BY <1>2, <1>3, <1>4 DEF LearningInv
<1>6. LearningInv'
  BY <1>2, <1>4, <1>5 DEF LearningInv
<1> QED
  BY <1>2, <1>6, LogSame

\* What the verifier replays was logged: the log verifies.
LEMMA SampleStep ==
  ASSUME LogInv, LearningInv, HonestInv, NEW i \in 1..(Len(checkpoints) - 1), Sample(i)
  PROVE  LogInv' /\ LearningInv' /\ HonestInv'
<1>1. PICK entry : entry = entries[i + 1].payload
  OBVIOUS
<1>2. PICK start : start = checkpoints[i]
  OBVIOUS
<1>3. PICK x : x = [seg |-> i, start |-> start, entry |-> entry, ok |-> verify_segment(start, entry)]
  OBVIOUS
<1>4. /\ verify_integrity /\ i + 1 <= Len(entries) /\ samples' = Append(samples, x)
      /\ UNCHANGED vars /\ checkpoints' = checkpoints /\ spent' = spent /\ honest' = honest
      /\ appended' = appended /\ entries' = entries
  BY <1>1, <1>2, <1>3 DEF Sample, vars
<1>5. x.start = start /\ x.entry = entry /\ x.ok = verify_segment(start, entry)
  BY <1>3
<1>6. Trained(entry.end_hash, spent)
  <2>1. i \in Nat /\ 1 <= i /\ Len(entries) \in Nat
    <3>1. PICK S : entries \in Seq(S)
      BY DEF LogInv
    <3> QED
      BY <3>1
  <2>2. i + 1 \in 2..Len(entries)
    BY <1>4, <2>1
  <2>3. entries[i + 1] \in appended
    BY <1>4, <2>2, InvCatchesTampering DEF TamperingIsCaught
  <2> QED
    BY <1>1, <2>3 DEF LearningInv
<1>7. PICK S : samples \in Seq(S)
  BY DEF LearningInv
<1>8. /\ samples' \in Seq(S \cup {x}) /\ Len(samples) \in Nat /\ Len(samples') = Len(samples) + 1
      /\ samples'[Len(samples) + 1] = x /\ \A n \in 1..Len(samples) : samples'[n] = samples[n]
  BY <1>4, <1>7
<1>9. ASSUME NEW n \in 1..Len(samples')
      PROVE  /\ samples'[n].ok => Replays(samples'[n].start, samples'[n].entry)
             /\ Trained(samples'[n].entry.end_hash, spent)
  <2>1. CASE n = Len(samples) + 1
    BY <1>5, <1>6, <1>8, <2>1 DEF Replays
  <2>2. CASE n # Len(samples) + 1
    <3>1. n \in 1..Len(samples) /\ samples'[n] = samples[n]
      BY <1>8, <2>2
    <3> QED
      BY <3>1 DEF LearningInv
  <2> QED
    BY <2>1, <2>2
<1>10. LearningInv'
  BY <1>4, <1>8, <1>9 DEF LearningInv
<1>11. HonestInv'
  <2>1. honest => x.ok
    BY <1>1, <1>2, <1>5 DEF HonestInv, Replays
  <2>2. honest => \A n \in 1..Len(samples') : samples'[n].ok
    <3> SUFFICES ASSUME honest, NEW n \in 1..Len(samples') PROVE samples'[n].ok
      OBVIOUS
    <3>1. CASE n = Len(samples) + 1
      BY <1>8, <2>1, <3>1
    <3>2. CASE n # Len(samples) + 1
      <4>1. n \in 1..Len(samples) /\ samples'[n] = samples[n]
        BY <1>8, <3>2
      <4> QED
        BY <4>1 DEF HonestInv
    <3> QED
      BY <3>1, <3>2
  <2> QED
    BY <1>4, <2>2 DEF HonestInv
<1> QED
  BY <1>4, <1>10, <1>11, LogSame

LEMMA LearningStep ==
  ASSUME LogInv, LearningInv, HonestInv, [LearningNext]_learningVars
  PROVE  LogInv' /\ LearningInv' /\ HonestInv'
<1>1. CASE UNCHANGED learningVars
  <2>1. /\ UNCHANGED vars /\ checkpoints' = checkpoints /\ spent' = spent /\ honest' = honest
        /\ samples' = samples /\ appended' = appended /\ entries' = entries
    BY <1>1 DEF learningVars, vars
  <2> QED
    BY <2>1, LogSame DEF LearningInv, HonestInv
<1>2. ASSUME NEW s \in SegmentSeeds, NEW lr \in Rates, TrainSegment(s, lr)
      PROVE  LogInv' /\ LearningInv' /\ HonestInv'
  <2>1. Train(s, STEPS_PER_SEGMENT, lr, s, STEPS_PER_SEGMENT)
    BY <1>2 DEF TrainSegment
  <2> QED
    BY <1>2, <2>1, TrainStep, HonestTrainStep, LearningAssumption
<1>3. ASSUME NEW s \in SegmentSeeds, ClaimMore(s) PROVE LogInv' /\ LearningInv' /\ HonestInv'
  <2>1. Train(s, CHEAP_STEPS, LR, s, STEPS_PER_SEGMENT) /\ ~ honest'
    BY <1>3 DEF ClaimMore
  <2> QED
    BY <2>1, TrainStep, LearningAssumption DEF HonestInv
<1>4. ASSUME NEW s \in SegmentSeeds, NEW alt \in SegmentSeeds, OtherPath(s, alt)
      PROVE  LogInv' /\ LearningInv' /\ HonestInv'
  <2>1. Train(alt, STEPS_PER_SEGMENT, LR, s, STEPS_PER_SEGMENT) /\ ~ honest'
    BY <1>4 DEF OtherPath
  <2> QED
    BY <2>1, TrainStep, LearningAssumption DEF HonestInv
<1>5. ASSUME NEW i \in 1..Len(checkpoints), NEW j \in 1..Len(checkpoints), Splice(i, checkpoints[j])
      PROVE  LogInv' /\ LearningInv' /\ HonestInv'
  BY <1>5, SpliceStep DEF Splice, HonestInv
<1>6. CASE TamperLogEntry
  <2>1. Touch /\ ~ honest' /\ checkpoints' = checkpoints /\ spent' = spent /\ samples' = samples
    BY <1>6 DEF TamperLogEntry
  <2>2. appended' = appended
    BY <2>1 DEF Touch
  <2> QED
    BY <2>1, <2>2, TouchStep DEF LearningInv, HonestInv
<1>7. ASSUME NEW i \in 1..(Len(checkpoints) - 1), Sample(i)
      PROVE  LogInv' /\ LearningInv' /\ HonestInv'
  BY <1>7, SampleStep
<1> QED
  BY <1>1, <1>2, <1>3, <1>4, <1>5, <1>6, <1>7 DEF LearningNext

\* "assumed" in verify_segment made good: a run accepted segment by segment ends in
\* the model that its logged seeds and steps train, for any seeds, rates, segment
\* lengths and number of segments, whatever was spliced or edited.
THEOREM VerifiedRunIsLogged == LearningSpec => []VerifiedRunIsTheLoggedRun
<1>1. LearningInv => VerifiedRunIsTheLoggedRun
  BY AcceptedIsClaimed DEF LearningInv, VerifiedRunIsTheLoggedRun, checkpoint_hash
<1> QED
  BY <1>1, LearningStart, LearningStep, PTL DEF LearningSpec

\* proof_of_learning.py's claim of more compute than was spent, for any schedule.
THEOREM ClaimsAreSpent == LearningSpec => []ClaimedComputeWasSpent
<1>1. LearningInv => ClaimedComputeWasSpent
  <2> SUFFICES ASSUME LearningInv, Accepts(samples) PROVE Len(Claimed(samples)) <= spent
    BY DEF ClaimedComputeWasSpent
  <2>1. PICK S : samples \in Seq(S)
    BY DEF LearningInv
  <2>2. CASE samples = <<>>
    <3>1. Claimed(samples) = InitialModel
      <4>1. PICK model : model[0] = InitialModel /\ Claimed(samples) = model[Len(samples)]
        BY <2>1, ClaimedDef
      <4>2. Len(samples) = 0
        BY <2>2
      <4> QED
        BY <4>1, <4>2
    <3>2. Len(InitialModel) = 0
      BY DEF InitialModel
    <3> QED
      BY <3>1, <3>2 DEF LearningInv
  <2>3. CASE samples # <<>>
    <3>1. Len(samples) \in 1..Len(samples)
      BY <2>1, <2>3
    <3>2. samples[Len(samples)].entry.end_hash = Claimed(samples)
      BY <2>1, <2>3, AcceptedIsClaimed DEF LearningInv
    <3>3. Trained(samples[Len(samples)].entry.end_hash, spent)
      BY <3>1 DEF LearningInv
    <3> QED
      BY <3>2, <3>3 DEF Trained
  <2> QED
    BY <2>2, <2>3
<1> QED
  BY <1>1, LearningStart, LearningStep, PTL DEF LearningSpec

\* An honest prover is never accused.
THEOREM HonestReplays == LearningSpec => []HonestSegmentsReplay
<1>1. HonestInv => HonestSegmentsReplay
  BY DEF HonestInv, HonestSegmentsReplay
<1> QED
  BY <1>1, LearningStart, LearningStep, PTL DEF LearningSpec
=============================================================================

------------------------------ MODULE TapStream ------------------------------
(***************************************************************************)
(* What the tap's reordering layer promises, without saying how: the bytes *)
(* it has handed downstream are a function of the SET of segments that     *)
(* crossed the fiber so far.  Arrival order and the number of copies do    *)
(* not matter, nothing is held back once it is contiguous, and nothing is  *)
(* handed on that is not.                                                  *)
(*                                                                         *)
(* A byte of the stream is named by its offset, 0 .. N-1.  A segment is    *)
(* [off |-> first offset, len |-> number of bytes]; len = 0 is a packet    *)
(* without payload (a pure ACK or a keep-alive).                           *)
(***************************************************************************)
EXTENDS Naturals

CONSTANTS N,         \* length of the stream, in bytes
          Segments   \* the segments the sender may emit, all within the stream

VARIABLES seen,      \* segments captured at least once
          delivered  \* bytes handed downstream, in order

tapVars == <<seen, delivered>>

Covers(s, x) == s.off <= x /\ x < s.off + s.len

\* The first n bytes of the stream, as the sequence of their offsets.
Prefix(n) == [i \in 1..n |-> i - 1]

\* n is where the first byte not in any segment of S lies (N if there is none).
IsFrontier(S, n) ==
  /\ \A x \in 0..(n-1) : \E s \in S : Covers(s, x)
  /\ n < N => \A s \in S : ~ Covers(s, n)

Init == seen = {} /\ delivered = Prefix(0)

Observe(s) ==
  /\ seen' = seen \cup {s}
  /\ \E n \in 0..N : IsFrontier(seen', n) /\ delivered' = Prefix(n)

Next == \E s \in Segments : Observe(s)

Spec == Init /\ [][Next]_tapVars
=============================================================================

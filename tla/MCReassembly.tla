----------------------------- MODULE MCReassembly -----------------------------
(* Instances of Reassembly for TLC. *)
EXTENDS Reassembly

\* Two events and an empty one, the first of which is long enough for a size of
\* two digits; a single event.
MCEvents == {<<<<"a", "b">>, <<>>, <<"b">>>>, <<<<"1", "a">>>>}

BodyOf(events) == Body([events |-> events])

\* The body as one chunk per event, as encode_chunked_sse writes it.
PerEvent(events) == [k \in 1..(Len(events) + 1) |->
                       IF k <= Len(events) THEN Len(BodyOf(SubSeq(events, 1, k))) - 4
                       ELSE Len(BodyOf(events))]

\* Chunks that cut events, blank lines included, anywhere.
Cuts(events) == {<<k, Len(BodyOf(events))>> : k \in 1..(Len(BodyOf(events)) - 1)}

\* A connection that stays open: another response's header follows.
KeptAlive == [events |-> <<<<"a">>>>, ends |-> PerEvent(<<<<"a">>>>), ext |-> TRUE,
              rest |-> <<"h", "CR", "LF", "CR", "LF">>]

MCResponses ==
  {[events |-> e, ends |-> PerEvent(e), ext |-> x, rest |-> <<>>] :
     e \in MCEvents, x \in BOOLEAN}
  \cup UNION {{[events |-> e, ends |-> c, ext |-> FALSE, rest |-> <<>>] : c \in Cuts(e)} :
                e \in MCEvents}
  \cup {KeptAlive}
=============================================================================

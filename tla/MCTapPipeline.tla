---------------------------- MODULE MCTapPipeline ----------------------------
(* An instance of TapPipeline for TLC: two events, chunks that follow them. *)
EXTENDS TapPipeline

MCResponse == [events |-> <<<<"a">>, <<"b">>>>, ends |-> <<4, 8, 12>>, ext |-> FALSE,
               rest |-> <<>>]
MCResponses == {MCResponse}

\* segment: the stream cut every seven bytes; and an acknowledgement, without payload,
\* that crosses in the middle of it.
MCSegments == {[off |-> o, len |-> 7] : o \in {0, 7, 14, 21, 28}} \cup {[off |-> 14, len |-> 0]}

\* The hypothesis of the theorems about the pipeline, on this instance.
ASSUME MCAssumption == OneResponse
=============================================================================

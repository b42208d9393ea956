----------------------------- MODULE TapPipeline -----------------------------
(***************************************************************************)
(* tap_reader/src/bin/test_reorder_pipeline.rs: run_pipeline, the tap from *)
(* captured segments to events.  The reorder buffer restores the order of  *)
(* the segments, the chunked decoder is given what each call of it         *)
(* released, and the SSE layer reads the decoded body at the end.          *)
(***************************************************************************)
EXTENDS ReorderBuffer, Reassembly

CONSTANT Response                  \* the one the connection carries

ASSUME PipelineAssumption == Response \in Responses

VARIABLE finished                  \* the loop over the captured segments is over

Wire == encode_chunked_sse(Response)

pipelineVars == <<vars, layers, finished>>

\* The stream is the response; it is cut once, and stays below the wraparound.
OneResponse == N = Len(Wire) /\ OneCut /\ NoWrap

PipelineInit == Init /\ ReassemblyInit /\ wire.response = Response /\ finished = FALSE

\* The bytes that feed added to `delivered`.
Released == [i \in 1..(Len(delivered') - Len(delivered)) |->
               Wire[delivered'[Len(delivered) + i] + 1].tok]

\* Only the payload that filled the gap given to the decoder, not what it released.
FeedOwnPayload(s) ==
  /\ ~ finished /\ chunked.state # "Panicked"
  /\ Capture(s)
  /\ chunked' = IF Len(delivered') > Len(delivered)
                THEN ChunkedFeed(chunked, SubSeq(Released, 1, s.len)) ELSE chunked
  /\ fed' = Len(delivered')
  /\ UNCHANGED <<wire, sse, collected, finished>>

\* The segment's own payload given to the decoder, in arrival order.
FeedArrival(s) ==
  /\ ~ finished /\ chunked.state # "Panicked"
  /\ Capture(s)
  /\ chunked' = ChunkedFeed(chunked, [i \in 1..s.len |-> Wire[s.off + i].tok])
  /\ fed' = Len(delivered')
  /\ UNCHANGED <<wire, sse, collected, finished>>

Feed(s) ==
  /\ ~ finished /\ chunked.state # "Panicked"
  /\ Capture(s)
  /\ chunked' = IF Len(delivered') > Len(delivered)
                THEN ChunkedFeed(chunked, Released) ELSE chunked
  /\ fed' = Len(delivered')
  /\ UNCHANGED <<wire, sse, collected, finished>>

Pass(s) == ~ finished /\ Miss(s) /\ UNCHANGED <<layers, finished>>

\* After the loop: collected.extend(sse.feed(&chunked.decoded)).
Finish ==
  /\ ~ finished /\ chunked.state # "Panicked"
  /\ sse' = SseFeed(sse, chunked.decoded)
  /\ collected' = collected \o sse'.events
  /\ finished' = TRUE
  /\ UNCHANGED <<vars, wire, fed, chunked>>

PipelineNext == (\E s \in Segments : Feed(s) \/ Pass(s)) \/ Finish

PipelineSpec == PipelineInit /\ [][PipelineNext]_pipelineVars

-----------------------------------------------------------------------------
(* Properties *)

\* The decoder never meets a malformed size line (its expect never panics),
\* whatever order, duplication and loss the segments went through.
NeverPanics == chunked.state # "Panicked"

\* Reconstruction is correct regardless of arrival order: once every segment
\* was captured, all events come out, in order, and the end is seen.
ReconstructionIsCorrect ==
  finished /\ seen = Segments =>
    sse.done /\ collected = NonEmpty(Response.events)

\* A capture with holes yields exactly the events that were complete before the
\* first hole: nothing invented, reordered or repeated after it.
PartialCaptureIsExact ==
  finished =>
    LET covered(x) == \E s \in seen : s.off <= x /\ x < s.off + s.len
        whole == {n \in 0..N : \A x \in 0..(n-1) : covered(x)}
        most == CHOOSE n \in whole : \A m \in whole : m <= n
    IN  collected = EventsWithin(Response, BodyIn(SubSeq(Wire, 1, most)))
=============================================================================

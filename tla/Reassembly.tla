------------------------------ MODULE Reassembly ------------------------------
(***************************************************************************)
(* tap_reader/src/reassembly.rs: the two layers that turn the bytes of a   *)
(* streaming HTTP response into events, ChunkedDecoder (HTTP chunked       *)
(* transfer-encoding) and SseReassembler (events inside the decoded body), *)
(* composed the way its tests compose them.                                *)
(*                                                                         *)
(* A byte is a token.  "data: " and "[DONE]" are one token each: they are  *)
(* only compared inside a complete event, so where they are cut does not   *)
(* matter.  Sizes are written in base Base, 16 in the code; in a smaller   *)
(* one a size of two digits is short enough to explore.  The read cursor   *)
(* is abstracted: the buffers hold what lies behind it.                    *)
(***************************************************************************)
EXTENDS Integers, Sequences, FiniteSetsExt, SequencesExt

CONSTANTS Base,          \* the radix of chunk sizes
          Bytes,         \* the byte tokens
          Responses      \* the responses a server may send

DigitToken == <<"0", "1", "2", "3", "4", "5", "6", "7",
                "8", "9", "a", "b", "c", "d", "e", "f">>

ASSUME RadixAssumption == Base \in {3, 4, 16}

ASSUME BytesAssumption ==
  /\ {"CR", "LF", "SEMI", "x", "DATA", "DONE"} \subseteq Bytes
  /\ \A v \in 1..16 : DigitToken[v] \in Bytes

VARIABLES wire,       \* the response on the wire, each byte marked body or framing
          fed,        \* how many bytes of it the decoder has been given
          chunked,    \* the ChunkedDecoder
          sse,        \* the SseReassembler
          collected   \* the events handed to the caller

layers == <<wire, fed, chunked, sse, collected>>

CRLF == <<"CR", "LF">>
BlankLine == <<"LF", "LF">>

\* Where needle starts in haystack; 0 when it does not occur.
find_subslice(haystack, needle) ==
  LET at == {i \in 1..(Len(haystack) - Len(needle) + 1) :
               SubSeq(haystack, i, i + Len(needle) - 1) = needle}
  IN  IF at = {} THEN 0 ELSE Min(at)

Drop(s, n) == SubSeq(s, n + 1, Len(s))

-----------------------------------------------------------------------------
(* ChunkedDecoder *)

Decoder(state, remaining, pending, decoded) ==
  [state |-> state, remaining |-> remaining, pending |-> pending, decoded |-> decoded]

NewDecoder == Decoder("ReadingSize", 0, <<>>, <<>>)

\* from_str_radix on the size line, its ";..." extension stripped; -1 where
\* the code panics (expect("malformed chunk size")).
ParseSize(line) ==
  LET semi   == find_subslice(line, <<"SEMI">>)
      digits == IF semi = 0 THEN line ELSE SubSeq(line, 1, semi - 1)
      value(t) == CHOOSE v \in 0..(Base-1) : DigitToken[v+1] = t
      known == {DigitToken[v] : v \in 1..Base}
      number[n \in 0..Len(digits)] ==
        IF n = 0 THEN 0 ELSE number[n-1] * Base + value(digits[n])
  IN  IF digits = <<>> \/ ~ Range(digits) \subseteq known THEN -1 ELSE number[Len(digits)]

ReadSize(d) ==
  LET pos  == find_subslice(d.pending, CRLF)
      size == ParseSize(SubSeq(d.pending, 1, pos - 1))
  IN  IF pos = 0 THEN d
      ELSE Decoder(CASE size = 0 -> "Done" [] size > 0 -> "ReadingData" [] size < 0 -> "Panicked",
                   Max({size, 0}), Drop(d.pending, pos + 1), d.decoded)

\* The whole chunk awaited before any of it is handed on.
ReadDataWhole(d) ==
  IF Len(d.pending) < d.remaining THEN d
  ELSE Decoder("ReadingDataTrailer", 0, Drop(d.pending, d.remaining),
               d.decoded \o SubSeq(d.pending, 1, d.remaining))

ReadData(d) ==
  LET n == Min({Len(d.pending), d.remaining})
  IN  Decoder(IF n = d.remaining THEN "ReadingDataTrailer" ELSE "ReadingData",
              d.remaining - n, Drop(d.pending, n), d.decoded \o SubSeq(d.pending, 1, n))

ReadTrailer(d) ==
  IF Len(d.pending) < 2 THEN d
  ELSE Decoder("ReadingSize", d.remaining, Drop(d.pending, 2), d.decoded)

Turn(d) == CASE d.state = "ReadingSize" -> ReadSize(d)
             [] d.state = "ReadingData" -> ReadData(d)
             [] d.state = "ReadingDataTrailer" -> ReadTrailer(d)
             [] OTHER -> d

\* The loop: a turn that takes a byte off the buffer goes on, one that takes
\* none is the break.
RunTurns(d) ==
  LET after[k \in 0..Len(d.pending)] == IF k = 0 THEN d ELSE Turn(after[k-1])
  IN  after[Len(d.pending)]

\* The size line searched in the newly arrived bytes only (the first version
\* of the code, as its comment tells): what an earlier call left is lost.
FeedNewSliceOnly(d, input) ==
  RunTurns(Decoder(d.state, d.remaining,
                   IF d.state = "ReadingSize" THEN input ELSE d.pending \o input, d.decoded))

ChunkedFeed(d, input) ==
  RunTurns(Decoder(d.state, d.remaining, d.pending \o input, d.decoded))

-----------------------------------------------------------------------------
(* SseReassembler *)

strip_data_prefix(raw) == IF raw # <<>> /\ raw[1] = "DATA" THEN Tail(raw) ELSE raw

\* The sentinel handed on as if it were an event.
SseTurnKeepsSentinel(r) ==
  LET boundary == find_subslice(r.buf, BlankLine)
      payload  == strip_data_prefix(SubSeq(r.buf, 1, boundary - 1))
  IN  IF boundary = 0 THEN r
      ELSE [buf    |-> Drop(r.buf, boundary + 1),
            done   |-> r.done \/ payload = <<"DONE">>,
            events |-> IF payload = <<>> THEN r.events ELSE Append(r.events, payload)]

\* One turn of the loop on r = [buf, done, events]; the empty payload is skipped.
SseTurn(r) ==
  LET boundary == find_subslice(r.buf, BlankLine)
      payload  == strip_data_prefix(SubSeq(r.buf, 1, boundary - 1))
  IN  IF boundary = 0 THEN r
      ELSE [buf    |-> Drop(r.buf, boundary + 1),
            done   |-> r.done \/ payload = <<"DONE">>,
            events |-> IF payload \in {<<>>, <<"DONE">>} THEN r.events
                       ELSE Append(r.events, payload)]

RunSseTurns(r) ==
  LET after[k \in 0..Len(r.buf)] == IF k = 0 THEN r ELSE SseTurn(after[k-1])
  IN  after[Len(r.buf)]

SseFeed(r, bytes) == RunSseTurns([buf |-> r.buf \o bytes, done |-> r.done, events |-> <<>>])

-----------------------------------------------------------------------------
(* What a server sends: encode_chunked_sse, with the chunk boundaries free.  *)
(* A response is [events, ends, ext, rest]: the event payloads, the places   *)
(* of its body where a chunk ends, whether size lines carry an extension,    *)
(* and the bytes that follow it on the same connection.                      *)

SizeLine(n) ==
  LET digits[k \in 0..n] == IF k < Base THEN <<DigitToken[k+1]>>
                            ELSE Append(digits[k \div Base], DigitToken[(k % Base) + 1])
  IN  digits[n]

EventBytes(payload) == <<"DATA">> \o payload \o BlankLine

\* The events and the sentinel behind them.
Payloads(r) == Append(r.events, <<"DONE">>)

Body(r) == FlattenSeq([k \in 1..Len(Payloads(r)) |-> EventBytes(Payloads(r)[k])])

Framing(tokens) == [i \in 1..Len(tokens) |-> [tok |-> tokens[i], body |-> FALSE]]
Content(tokens) == [i \in 1..Len(tokens) |-> [tok |-> tokens[i], body |-> TRUE]]

Chunk(bytes, ext) ==
  Framing(SizeLine(Len(bytes)) \o (IF ext THEN <<"SEMI", "x">> ELSE <<>>) \o CRLF)
  \o Content(bytes) \o Framing(CRLF)

ChunkStart(r, k) == IF k = 1 THEN 0 ELSE r.ends[k-1]

encode_chunked_sse(r) ==
  FlattenSeq([k \in 1..Len(r.ends) |-> Chunk(SubSeq(Body(r), ChunkStart(r, k) + 1, r.ends[k]), r.ext)])
  \o Framing(<<"0">> \o CRLF) \o Framing(CRLF \o r.rest)

\* A payload is one line and not the sentinel; no chunk is empty; the chunks are
\* the body.
ASSUME ResponsesAssumption ==
  \A r \in Responses :
    /\ r.events \in Seq(Seq(Bytes)) /\ r.rest \in Seq(Bytes) /\ r.ext \in BOOLEAN
    /\ \A k \in 1..Len(r.events) : /\ r.events[k] # <<"DONE">>
                                   /\ \A i \in 1..Len(r.events[k]) : r.events[k][i] # "LF"
    /\ r.ends \in Seq(Nat)
    /\ \A k \in 1..Len(r.ends) : ChunkStart(r, k) < r.ends[k]
    /\ Len(r.ends) > 0 /\ r.ends[Len(r.ends)] = Len(Body(r))

Tokens(marked) == [i \in 1..Len(marked) |-> marked[i].tok]

BodyIn(marked) == FlattenSeq([i \in 1..Len(marked) |-> IF marked[i].body THEN <<marked[i].tok>> ELSE <<>>])

\* The events whose blank line lies within the first bytes of the body; empty
\* ones are not handed on.
Closed(bytes) == Cardinality({i \in 2..Len(bytes) : bytes[i-1] = "LF" /\ bytes[i] = "LF"})

NonEmpty(events) == FlattenSeq([k \in 1..Len(events) |-> IF events[k] = <<>> THEN <<>> ELSE <<events[k]>>])
EventsWithin(r, bytes) == NonEmpty(SubSeq(r.events, 1, Min({Closed(bytes), Len(r.events)})))

-----------------------------------------------------------------------------
(* One response read in fragments of any size: the loop of the tests, which *)
(* gives the SSE layer what each call of the decoder added to `decoded`.    *)

NewSse == [buf |-> <<>>, done |-> FALSE, events |-> <<>>]

ReassemblyInit ==
  /\ \E r \in Responses : wire = [response |-> r, bytes |-> encode_chunked_sse(r)]
  /\ fed = 0
  /\ chunked = NewDecoder
  /\ sse = NewSse
  /\ collected = <<>>

Deliver(bytes) ==
  /\ chunked.state # "Panicked"
  /\ chunked' = ChunkedFeed(chunked, bytes)
  /\ IF Len(chunked'.decoded) > Len(chunked.decoded)
     THEN /\ sse' = SseFeed(sse, Drop(chunked'.decoded, Len(chunked.decoded)))
          /\ collected' = collected \o sse'.events
     ELSE UNCHANGED <<sse, collected>>

Read(n) ==
  /\ fed + n <= Len(wire.bytes)
  /\ Deliver(Tokens(SubSeq(wire.bytes, fed + 1, fed + n)))
  /\ fed' = fed + n
  /\ UNCHANGED wire

ReassemblyNext == \E n \in 1..Len(wire.bytes) : Read(n)

ReassemblySpec == ReassemblyInit /\ [][ReassemblyNext]_layers

-----------------------------------------------------------------------------
(* Properties *)

Arrived == SubSeq(wire.bytes, 1, fed)

\* Wherever TCP cut the stream, `decoded` holds exactly the body bytes that
\* have arrived: nothing framing leaked in, nothing held back.
DecodedIsBody == chunked.decoded = BodyIn(Arrived)

\* Each event is handed on once, in order, by the call that brings its blank
\* line, and the sentinel is not among them.
EventsAreExact == collected = EventsWithin(wire.response, BodyIn(Arrived))

\* The two layers end together: once the whole response has arrived the decoder
\* is Done and the sentinel was seen, and neither says so early.
DoneIsExact ==
  /\ sse.done <=> Closed(BodyIn(Arrived)) > Len(wire.response.events)
  /\ fed >= Len(wire.bytes) - Len(wire.response.rest) => chunked.state = "Done"
  /\ chunked.state = "Done" => BodyIn(Arrived) = Body(wire.response)
=============================================================================

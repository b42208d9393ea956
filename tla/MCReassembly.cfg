\* Every fragmentation, down to single bytes and up to the whole, of responses whose chunks
\* follow the events or cut them.
CONSTANTS
  Base = 3
  Bytes = {"0", "1", "2", "3", "4", "5", "6", "7", "8", "9", "a", "b", "c", "d", "e", "f",
           "CR", "LF", "SEMI", "x", "DATA", "DONE", "h"}
  Responses <- MCResponses
SPECIFICATION ReassemblySpec
INVARIANTS DecodedIsBody EventsAreExact DoneIsExact
CHECK_DEADLOCK FALSE

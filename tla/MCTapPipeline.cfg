\* 35 bytes in five segments and an acknowledgement, each crossing up to twice.
CONSTANTS
  Base = 4
  Bytes = {"0", "1", "2", "3", "4", "5", "6", "7", "8", "9", "a", "b", "c", "d", "e", "f",
           "CR", "LF", "SEMI", "x", "DATA", "DONE"}
  Response <- MCResponse
  Responses <- MCResponses
  N = 35
  Segments <- MCSegments
  W = 64
  ISN = 9
  MaxCopies = 2
SPECIFICATION PipelineSpec
INVARIANTS TypeOK GapOpenIsAHole NeverPanics ReconstructionIsCorrect PartialCaptureIsExact
PROPERTIES ImplementsTapStream
CHECK_DEADLOCK FALSE

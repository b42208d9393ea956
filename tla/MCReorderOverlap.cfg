\* Retransmissions cut differently from the originals, no wraparound.
CONSTANTS
  W = 16
  ISN = 3
  N = 4
  MaxCopies = 1
  Segments <- MCRecut
SPECIFICATION Spec
INVARIANTS DroppedWasDelivered
CHECK_DEADLOCK FALSE

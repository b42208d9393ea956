\* Two epochs of up to five packets, some of which carry the same payload.
CONSTANTS
  a = a  b = b
  Hashes <- MCHashes
  EpochSize = 5
  MaxEpochs = 2
  MaxTouches = 1
SPECIFICATION EpochSpec
INVARIANTS InclusionIsExact VerifiedChainIsHistory
CHECK_DEADLOCK FALSE

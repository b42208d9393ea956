\* Two segments of two steps, two samples, one act of tampering.
CONSTANTS
  Payloads <- MCPayloads
  Keys <- MCKeys
  OwnKey = "prover"
  MaxEntries = 3
  MaxTouches = 1
  SegmentSeeds = {1, 2}
  LR = 5
  Rates = {5, 6}
  STEPS_PER_SEGMENT = 2
  CHEAP_STEPS = 1
  MaxSegments = 2
  MaxSamples = 2
SPECIFICATION LearningSpec
INVARIANTS VerifiedRunIsTheLoggedRun ClaimedComputeWasSpent HonestSegmentsReplay
CHECK_DEADLOCK FALSE

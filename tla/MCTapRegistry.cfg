\* Two taps, four entries after the genesis, two acts of tampering.
CONSTANTS
  t1 = t1  t2 = t2
  Taps <- MCTaps
  Serials <- MCSerials
  Payloads <- MCPayloads
  Keys <- MCKeys
  OwnKey = "registry"
  MaxEntries = 5
  MaxTouches = 2
SYMMETRY MCSymmetry
SPECIFICATION RegistrySpec
INVARIANTS TamperingIsCaught NoHoleVerifies HonestLogVerifies FindingsSurvive
CHECK_DEADLOCK FALSE

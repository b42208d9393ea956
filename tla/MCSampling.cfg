\* Three trials of three tokens, two attempts each.
CONSTANTS
  Vocab <- MCVocab
  Seeds = {0, 1, 2}
  Temperatures = {1, 2}
  ContextLen = 2
  TOP_K = 2
  DELTA_MAX = 8
  LOW_CONFIDENCE_TOKEN_THRESHOLD = 2
  MaxText = 3
  Scores <- MCScores
  Logits <- MCLogits
  Noise <- MCNoise
  Delta <- MCDelta
  VariantScores <- MCVariantScores
  Provers <- MCProvers
  Prompts <- MCPrompts
  Trigger <- MCTrigger
  TOP_K_COMMIT = 2
  PER_TOKEN_BUDGET = 5
  NOISE = 2
  MAX_K = 3
  PASS_TAU = 3
  N_REQUESTS = 3
  K_ATTEMPTS = 2
  SHORT_TOKENS = 1
  MAX_TOKENS = 3
  n_blocks = 4
SPECIFICATION MCSpec
INVARIANTS HonestLeavesNoTrace ShoppingLeavesTraces SelfScoreIsTheVerifiers BudgetBoundsTheAverage DetectorMissesOnlySlightBits WardenIsExactWithinItsTopK AucCountsPairs WaterFillIsAffordable SpotChecksPinTheRegion
CHECK_DEADLOCK FALSE

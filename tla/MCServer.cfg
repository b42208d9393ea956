\* Two threads, two sessions, claims of three tokens and of none, one restart.
CONSTANTS
  w1 = w1  w2 = w2
  Workers <- MCWorkers
  Vocab <- MCVocab
  Seeds = {0, 1}
  Temperatures = {1}
  ContextLen = 2
  TOP_K = 2
  DELTA_MAX = 2
  LOW_CONFIDENCE_TOKEN_THRESHOLD = 2
  MaxText = 3
  Scores <- MCScores
  Chars = {"a", "b", "c", "?"}
  STOI <- MCSTOI
  ITOS <- MCITOS
  Requests <- MCRequests
  Claims <- MCClaims
  Lengths = {3}
  Taus = {0, 1}
  Digits = 2
  MaxSessions = 2
  MaxVerifications = 2
  MaxRestarts = 1
SYMMETRY MCSymmetry
SPECIFICATION Spec
INVARIANTS ZeroIsHonest HonestIsPassed AnswersAreLogged RowsSupportVerdicts
PROPERTIES ImplementsAuditLog
CHECK_DEADLOCK FALSE

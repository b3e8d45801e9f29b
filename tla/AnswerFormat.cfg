CONSTANTS
  Clients = {k1, k2}
  Tickers = {s1, s2}
  ExtraLengths = {0}
  MaxChallenges = 2
  MaxAttempts = 1
  Base = 2
  MAX_CHALLENGE_ID_DIGITS = 2
  MaxPending = 1
SPECIFICATION Spec
SYMMETRY GameSymmetry
CHECK_DEADLOCK FALSE
INVARIANT AnswersHaveTheFormat

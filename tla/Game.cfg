CONSTANTS
  Clients = {k1, k2}
  Tickers = {s1, s2}
  ExtraLengths = {0, 8}
  MaxChallenges = 3
  MaxAttempts = 1
  Base = 3
  MAX_CHALLENGE_ID_DIGITS = 2
  MaxPending = 2
SPECIFICATION FairSpec
CHECK_DEADLOCK FALSE
INVARIANTS
  NoAnswerIsEarly
  AnswersAreConsistent
  OnlyReadableChallengesAreWon
PROPERTIES
  FollowsRounds
  PendingAnswerDecides

SPECIFICATION FairSpec
CONSTANTS
  Rounds = 3
  Latencies = {28, 73}
  Threshold = 40
INVARIANTS
  FreshComparison
  OneReadPerRound
  ReadsInsideRounds
PROPERTIES
  FinishesUnlessStopMissed
CHECK_DEADLOCK FALSE

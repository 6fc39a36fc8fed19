SPECIFICATION FairSpec
CONSTANTS
  NChannels = 2
  NumSamples = 3
  MAX_PAIR_GAP = 2
  Timestamps <- MCTimestamps
  Latencies <- MCLatencies
INVARIANTS
  ResultsAreHedgedReads
  SamplesUsedOnce
  PairsAsManyAsPossible
PROPERTIES
  SkippedAreHopeless
  Terminates
CHECK_DEADLOCK FALSE

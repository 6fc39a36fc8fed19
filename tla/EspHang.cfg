SPECIFICATION FairSpec
CONSTANTS
  Rounds = 3
  Latencies = {28, 73}
  Threshold = 40
PROPERTIES
  HedgedTestFinishes
CHECK_DEADLOCK FALSE

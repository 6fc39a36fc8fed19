SPECIFICATION Spec
CONSTANTS
  Latencies <- MCLatencies
  Gaps <- MCGaps
  Requested <- MCRequested
  Manual <- MCManual
  DEFAULT_PROBES = 3
  Mult = 2
  CALIB_PROBES = 3
  MAX_SPIKES = 2
  MinSpikes = 2
INVARIANTS
  RecordsAreFirstSlowReads
  DeltasAddUp
  ThresholdAboveBaseline
  SummaryInOrder
CHECK_DEADLOCK FALSE

SPECIFICATION Spec
CONSTANTS
  T = 40
  Late <- MCLate
  Short <- MCShort
  NoiseAt <- MCNoiseAt
  Refreshes = 6
  MaxMissed = 2
  MaxNoise = 2
  MinSpikes = 3
INVARIANTS
  NoiseIsOutvoted
  PeakIsPeriod
CHECK_DEADLOCK FALSE

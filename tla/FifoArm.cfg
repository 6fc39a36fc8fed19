SPECIFICATION FairFifoSpec
CONSTANTS
  NChannels = 2
  NStress = 2
  NSamples = 2
  CORE_MAIN = 14
  Machines <- MCMachines
  STRESS_CORES <- MCStressCores
  CoreAs = {11}
  CoreBs = {12, 8}
INVARIANTS
  TypeOK
  StartsOnItsOwnSignal
  ProcessedIsComplete
  ContextsStay
  ThreadsEndWithTheirArm
  NoiseIsTheArms
  ResultsNeedStressApart
  StressPinnedBeforeMeasuring
  SetupFollowsSignal
PROPERTIES
  EndsWherePlaced
CHECK_DEADLOCK FALSE

SPECIFICATION FairFifoSpec
CONSTANTS
  ChannelOffset = 4
  ChannelBit = 2
  NumChannels = 2
  N = 2
  SizeofT = 2
  SuperpageSize = 20
  v1 = v1
  v2 = v2
  Values = {v1, v2}
  Fill = fill
  CORE_MAIN = 14
  CORE_MEAS_A = 11
  CORE_MEAS_B = 12
  Machines <- MCMachines
  ExampleInserts <- MCExampleInserts
  ExampleIndex = 1
INVARIANTS
  TypeOK
  ReplicasAgree
  PageOutlivesWorkers
  FaultOnlyWithoutPage
  WithinPage
  ExampleReadsSecond
PROPERTIES
  ReadOnce
  DestructorReturns
  StartedWorkersFinish
  ImplementsVector
CHECK_DEADLOCK FALSE

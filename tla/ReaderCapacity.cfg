SPECIFICATION Spec
CONSTANTS
  ChannelOffset = 4
  ChannelBit = 2
  NumChannels = 2
  N = 2
  SizeofT = 2
  SuperpageSize = 20
  Values = {v1, v2}
  Fill = fill
INVARIANTS
  AbortsOnlyOutOfBounds
CHECK_DEADLOCK FALSE

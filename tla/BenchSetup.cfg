SPECIFICATION Spec
CONSTANTS
  ChannelCounts = {1,2,3,4}
  ChannelOffsets = {4,8}
  ChannelBits = {2,3}
  SuperpageSize = 32
  SmallPage = 8
  Frames = {2,3,4,5,6,7}
  HwChannels = 4
INVARIANTS
  NothingLeaks
  ArmsOnDistinctChannels
CHECK_DEADLOCK FALSE

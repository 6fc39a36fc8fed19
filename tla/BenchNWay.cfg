SPECIFICATION Spec
CONSTANTS
  ChannelCounts = {3}
  ChannelOffsets = {4}
  ChannelBits = {2}
  SuperpageSize = 32
  SmallPage = 8
  Frames = {4,5,6,7}
  HwChannels = 4
PROPERTIES
  DistinctChannelsAccepted
CHECK_DEADLOCK FALSE

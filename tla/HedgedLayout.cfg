SPECIFICATION Spec
CONSTANTS
  Offsets = {1,2,3,4,6,8}
  Bits = {1,2,3}
  Channels = {1,2,3,4}
  ReplicaCounts = {1,2,3,4}
  Sizes = {1,2,3,4}
  PageSize = 50
  ChunksArePowersOfTwo = TRUE
INVARIANTS
  ElementsInPage
  ElementsDisjoint
  ReplicasOnOwnChannels
CHECK_DEADLOCK FALSE

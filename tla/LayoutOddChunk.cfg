SPECIFICATION Spec
CONSTANTS
  Offsets = {4,6,8}
  Bits = {2}
  Channels = {2}
  ReplicaCounts = {2}
  Sizes = {1,2}
  PageSize = 50
  ChunksArePowersOfTwo = FALSE
INVARIANTS
  ElementsInPage
CHECK_DEADLOCK FALSE

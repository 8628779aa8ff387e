SPECIFICATION Spec
CONSTANTS
  Sizes = {1, 2, 5}
  Header = 0
  StateHeader = 1
  LIVEKIT_MAX_SIZE = 4
  MaxTicks = 2
  MaxMessages = 3
INVARIANT ChunksFitTheRoom
CHECK_DEADLOCK FALSE

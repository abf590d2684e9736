SPECIFICATION Spec
CONSTANTS
  Calls <- PerTreeCalls
  Devices <- SmallDevices
  ChunkSizes = {2}
  ItemBytes = 1
  IndexMod = 64
  WARP_SIZE = 2
  MAX_THREADS_PER_BLOCK = 4
  MIN_BLOCKS_PER_SM = 3
  MAX_BLOCKS = 1
  MAX_CHUNK = 2
INVARIANT ResultsCorrect

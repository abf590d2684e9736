SPECIFICATION Spec
CONSTANTS
  Calls <- BlockCalls
  Devices <- BlockDevices
  ChunkSizes = {0, 1, 2}
  ItemBytes = 1
  IndexMod = 64
  WARP_SIZE = 2
  MAX_THREADS_PER_BLOCK = 2
  MIN_BLOCKS_PER_SM = 3
  MAX_BLOCKS = 2
  MAX_CHUNK = 2
INVARIANTS
  InBounds
  ResultsCorrect

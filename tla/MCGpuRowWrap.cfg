SPECIFICATION Spec
CONSTANTS
  Calls <- MostRowsCalls
  Devices <- LargeDevices
  ChunkSizes = {2}
  ItemBytes = 1
  IndexMod = 16
  WARP_SIZE = 2
  MAX_THREADS_PER_BLOCK = 2
  MIN_BLOCKS_PER_SM = 3
  MAX_BLOCKS = 3
  MAX_CHUNK = 2
PROPERTY Forward

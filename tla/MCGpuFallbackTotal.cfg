SPECIFICATION LaunchSpec
CONSTANTS
  Calls <- ManyOutputsCalls
  Devices <- MCDevices
  ChunkSizes = {0}
  ItemBytes = 1
  IndexMod = 65536
  WARP_SIZE = 4
  MAX_THREADS_PER_BLOCK = 32
  MIN_BLOCKS_PER_SM = 8
  MAX_BLOCKS = 16
  MAX_CHUNK = 4
INVARIANT FallbackForAllBlocks

SPECIFICATION LaunchSpec
CONSTANTS
  Calls <- MCCalls
  Devices <- MCDevices
  ChunkSizes = {0, 1, 2, 4}
  ItemBytes = 1
  IndexMod = 4096
  WARP_SIZE = 4
  MAX_THREADS_PER_BLOCK = 32
  MIN_BLOCKS_PER_SM = 8
  MAX_BLOCKS = 16
  MAX_CHUNK = 4
INVARIANTS
  SharedWorkspaceFits
  ChunkLargest
  OffsetsRepresentable

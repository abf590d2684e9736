SPECIFICATION FairSpec
CONSTANTS
  s1 = s1
  s2 = s2
  Predictions <- MCPredictions
  Streams <- MCStreams
  IndexMod = 64
  MaxRows = 4
  MIN_CHUNKS_PER_PARTITION = 1
  MAX_CHUNK_SIZE = 1
INVARIANTS
  ResultsInPlace
  HostReady
  RefusedUntouched
  NoUseAfterFree
PROPERTIES
  WrittenOnce
  StreamsDrain

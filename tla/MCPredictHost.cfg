SPECIFICATION Spec
CONSTANTS
  s1 = s1
  s2 = s2
  Predictions <- HostPredictions
  Streams <- MCStreams
  IndexMod = 64
  MaxRows = 4
  MIN_CHUNKS_PER_PARTITION = 1
  MAX_CHUNK_SIZE = 1
INVARIANT PlacementServed

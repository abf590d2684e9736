SPECIFICATION Spec
CONSTANTS
  Devices = {0, 1}
  MaxBlocks = 4
  MaxQueued = 2
  Slots = {"u", "v"}
  Chunks = {1, 32}
  Arrays <- MCArrays
  Shapes <- MCShapes
  CallersSetDevice = TRUE
INVARIANTS
  OwnershipInv
  InferenceInv
  KeptInv

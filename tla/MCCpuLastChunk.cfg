SPECIFICATION Spec
CONSTANTS
  MaxThreads = 1
  IndexMod = 16
  Calls <- LastChunkCalls
INVARIANTS
  ResultsCorrect

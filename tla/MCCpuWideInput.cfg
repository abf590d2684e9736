SPECIFICATION Spec
CONSTANTS
  MaxThreads = 2
  IndexMod = 16
  Calls <- WideInputCalls
INVARIANTS
  ResultsCorrect

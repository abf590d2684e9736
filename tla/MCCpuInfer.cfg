SPECIFICATION FairSpec
CONSTANTS
  MaxThreads = 2
  IndexMod = 32
  Calls <- MCCalls
INVARIANTS
  TypeOK
  KernelInv
  NoRace
  InBounds
  ScheduleIndependent
  RefusedOnlyIfLarge
PROPERTIES
  Termination
  Implements

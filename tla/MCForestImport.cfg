SPECIFICATION FairSpec
CONSTANTS
  NaN = NaN
  BinWidth = 2
  IndexLimit = 7
  Layouts = {"depth_first", "breadth_first", "layered_children_together"}
  Alignments = {0, 2, 3}
  Values <- MCValues
  Models <- AllForests
INVARIANTS
  ChildrenFaithful
  StoredOnce
  FailsForCause
  LeafIdNamesOutput
PROPERTIES
  ImportEnds
  Implements

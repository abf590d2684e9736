SPECIFICATION Spec
CONSTANTS
  FloatSize = 7
  DoubleSize = 17
  Float <- MCFloat
  Double <- MCDouble
  SmallIndexBits = 4
  LargeIndexBits = 8
  SmallOffsetBits = 2
  LargeOffsetBits = 4
  SmallMetadataBits = 5
  LargeMetadataBits = 7
  ReservedMetadataBits = 3
  Imports <- BlockTargetImports
  Rows <- MCRows
INVARIANTS
  AnswersAsTreelite

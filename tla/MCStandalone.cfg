CONSTANTS
  CountRange = 8
  MaxZeros = 7
  CloseAt = 2
  PM = 6
  DM = 5
  Capacity = 35
  FILHSZ = 20
  SCNHSZ = 40
  LINESZ = 6
  SYMESZ = 18
  Firsts <- MCFirsts
  Images <- MCImages
  Inputs <- MCInputs
SPECIFICATION Spec
INVARIANTS
  Restored
  PointersTrue
  InitsPatched
PROPERTY ImplementsToolRun
CHECK_DEADLOCK FALSE

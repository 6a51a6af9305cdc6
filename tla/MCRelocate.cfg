CONSTANTS
  MaxWords = 4
  BufferSizes = {8, 9, 11, 24}
SPECIFICATION FairSpec
INVARIANTS
  IInv
  SectionRelocated
PROPERTIES
  Terminates
CHECK_DEADLOCK FALSE

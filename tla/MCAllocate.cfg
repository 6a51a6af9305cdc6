CONSTANTS
  NMem = 4
  MemName <- MCName
  MemStart <- MCStart
  MemLength <- MCLength
  NSect = 4
  SectName <- MCSectName
  SectWord <- MCSectWord
  Words = {0, 1, 2, 3, 4}
  MaxErrors = 3
SPECIFICATION FairSpec
INVARIANTS
  IInv
  SectionsPlaced
  RefusedOnlyWhenFull
PROPERTIES
  ImplementsSpace
  Terminates
CHECK_DEADLOCK FALSE

CONSTANTS
  NMem = 4
  MemName <- MCMemName
  MemStart <- MCMemStart
  MemLength <- MCMemLength
  MemUninit <- MCMemUninit
  NSect = 4
  SectName <- MCSectName
  SectWord <- MCSectWord
  NIn = 3
  Words = {0, 1, 2}
  Lines = {0, 3}
  LnnoRange = 8
  FILHSZ = 20
  SCNHSZ = 40
  LINESZ = 6
  sflag = FALSE
  MaxErrors = 3
SPECIFICATION Spec
INVARIANTS
  FirstOfName
  LinesTile
  InputsPlaced
  NumbersInAddressOrder
  FileRegionsApart
  UninitAsDeclared
CHECK_DEADLOCK FALSE

CONSTANTS
  Name <- MCName
  Key <- MCKey
  Range <- MCRange
  MaxAddr = 7
  LongRange = 8
  MaxDirectives = 3
  MaxWarnings = 3
SPECIFICATION FairSpec
INVARIANTS
  OrderedBelowTop
  OverlapWarned
PROPERTY Terminates
CHECK_DEADLOCK FALSE

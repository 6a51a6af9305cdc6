CONSTANTS
  Name <- MCName
  Key <- MCKey
  Range <- MCRange
  MaxAddr = 7
  LongRange = 8
  MaxDirectives = 3
  MaxWarnings = 3
SPECIFICATION Spec
INVARIANT OrderedByAddress
CHECK_DEADLOCK FALSE

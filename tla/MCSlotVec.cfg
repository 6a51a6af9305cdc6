CONSTANTS
  MaxSyms = 5
  MaxFiles = 2
  SlotRange = 4
  UIntRange = 16
SPECIFICATION FairSpec
INVARIANTS
  LookupExact
PROPERTIES
  SearchEnds
CHECK_DEADLOCK FALSE

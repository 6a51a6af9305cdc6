CONSTANTS
  Links <- MCLinks
  MaxSyms = 15
  MaxFiles = 3
  SlotRange = 6
  UIntRange = 64
SPECIFICATION OutputSpec
INVARIANTS
  SlotsName
  TagsFollow
  FileChain
  CountsAgree
  LookupNames
CHECK_DEADLOCK FALSE

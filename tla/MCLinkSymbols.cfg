CONSTANTS
  NName = 3
  Hash <- MCHash
  NFile = 4
  Contents <- MCContents
  Rejectable = {3}
  Args <- MCArgs
  TableSize = 1
  ExtraSize = 1
  MaxExtra = 1
  MaxErrors = 2
SPECIFICATION FairSpec
INVARIANTS
  ChainsSound
  UnresolvedCounts
  ArchiveExhausted
  LoadedOnce
  DuplicatesStopLink
  DefinedHasSection
  EntriesAllocated
PROPERTIES
  FirstDefinitionStays
  Terminates
CHECK_DEADLOCK FALSE

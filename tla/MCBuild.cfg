CONSTANTS
  NFiles = 2
  MaxErrors = 3
  LinkerErrorBound = 2
SPECIFICATION Spec
INVARIANTS
  OutputHonest
  TempsRemoved
  BuildHonest
CHECK_DEADLOCK FALSE

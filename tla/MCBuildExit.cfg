CONSTANTS
  NFiles = 2
  MaxErrors = 3
  LinkerErrorBound = 2
SPECIFICATION Spec
INVARIANT PassedMeansExecutable
CHECK_DEADLOCK FALSE

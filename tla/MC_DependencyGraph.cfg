CONSTANTS
  Files <- MCFiles
  Callers <- MCCallers
  MaxOps = 2
SPECIFICATION Spec
INVARIANT DependentsBacked
CHECK_DEADLOCK FALSE

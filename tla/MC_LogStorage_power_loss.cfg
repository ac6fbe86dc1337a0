CONSTANTS
  Terms <- MCTerms
  Votes <- MCVotes
  MaxIndex = 3
  MaxRestarts = 2
  MaxPending = 2
  CommitBeyondLog = FALSE
SPECIFICATION Spec
INVARIANT AckedEntriesDurable
CHECK_DEADLOCK FALSE

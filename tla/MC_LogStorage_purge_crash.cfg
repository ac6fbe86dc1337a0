CONSTANTS
  Terms <- MCTerms
  Votes <- MCVotes
  MaxIndex = 3
  MaxRestarts = 2
  MaxPending = 2
  CommitBeyondLog = TRUE
SPECIFICATION Spec
INVARIANT LastLogNotBelowPurged
CHECK_DEADLOCK FALSE

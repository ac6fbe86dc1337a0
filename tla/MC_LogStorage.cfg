CONSTANTS
  Terms <- MCTerms
  Votes <- MCVotes
  MaxIndex = 3
  MaxRestarts = 2
  MaxPending = 2
  CommitBeyondLog = FALSE
SPECIFICATION Spec
INVARIANT TypeOK
INVARIANT LogStateMatchesLog
PROPERTY AbstractSpec
CHECK_DEADLOCK FALSE

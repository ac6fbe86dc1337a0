CONSTANTS
  Uris <- MCUris
  ShardOf <- MCShardOf
  MaxConcurrency = 4
  MaxMsgs = 5
  PipeCap = 1
SPECIFICATION Spec
INVARIANT NoTaskBlocked
CHECK_DEADLOCK FALSE

CONSTANTS
  Uris <- MCUris
  ShardOf <- MCShardOf
  MaxConcurrency = 4
  MaxMsgs = 6
  PipeCap = 1
SPECIFICATION Spec
INVARIANT AnalyzerInSync
CHECK_DEADLOCK FALSE

CONSTANTS
  Paths <- MCPaths
  Contents = {c1, c2}
  NoId = NoId
  NoVersion = NoVersion
  FileIds <- MCFileIds
  MaxCommands = 4
SPECIFICATION Spec
INVARIANT TypeOK
INVARIANT IndexConsistent
INVARIANT EventsReplayToState
PROPERTY ImplementsContract
CHECK_DEADLOCK FALSE

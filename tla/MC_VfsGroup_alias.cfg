CONSTANTS
  Paths <- MCAliasPaths
  Contents = {c1, c2}
  NoId = NoId
  NoVersion = NoVersion
  FileIds <- MCFileIds
  MaxCommands = 2
SPECIFICATION Spec
INVARIANT NoAliasedFiles
CHECK_DEADLOCK FALSE

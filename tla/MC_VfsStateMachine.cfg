CONSTANTS
  Paths <- MCPaths
  Contents = {"c1", "c2"}
  NoId = NoId
  NoVersion = NoVersion
  Replicas = {r1, r2}
  Commands <- MCCommands
  Configs = {m1}
  NoConfig = NoConfig
  MaxLog = 3
  MaxApplyBatch = 2
  NoSnapshot = NoSnapshot
SPECIFICATION Spec
INVARIANT TypeOK
INVARIANT MembershipMatchesLog
INVARIANT VersionIdentifiesContent

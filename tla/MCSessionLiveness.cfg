SPECIFICATION FairSpec
CONSTANTS
  State <- MCState
  None = None
  PlainZeros <- MCPlainZeros
  Hash <- MCHash
  Diff <- MCDiff
  Patch <- MCPatch
  Size <- MCSize
  WindowCapacity = 4
  HasRoute <- MCHasRoute
  Migrate <- MCMigrate
  HeaderLen = 1
  MaxPackets = 2
  MaxBytes = 12
  Publishers <- TwoPublishers
  Clients <- OneClient
  Schema = "AgentState"
  Limit = 4
  Faults <- DataFaults
  MaxSequence = 3
  MaxSessions = 1
PROPERTIES IntactRequestsAnswered PublishCompletes
CHECK_DEADLOCK FALSE

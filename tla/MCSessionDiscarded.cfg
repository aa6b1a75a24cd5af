SPECIFICATION FairSpec
CONSTANTS
  State <- MCStatesApart
  None = None
  PlainZeros <- MCPlainZeros
  Hash <- MCHash
  Diff <- MCDiff
  Patch <- MCPatch
  Size <- MCSize
  WindowCapacity = 4
  HasRoute <- MCHasRoute
  Migrate <- MCMigrate
  HeaderLen = 1
  MaxPackets = 2
  MaxBytes = 12
  Publishers <- OnePublisher
  Clients <- OneClient
  Schema = "AgentState"
  Limit = 4
  Faults <- NoFaults
  MaxSequence = 3
  MaxSessions = 1
PROPERTIES DiscardedAreRecovered
CHECK_DEADLOCK FALSE

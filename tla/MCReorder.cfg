SPECIFICATION ReorderSpec
CONSTANTS
  State <- MCState
  None = None
  PlainZeros <- MCPlainZeros
  Hash <- MCHash
  Diff <- MCDiff
  Patch <- MCPatch
  Size <- MCSize
  WindowCapacity = 4
  HasRoute <- MCHasRoute
  Migrate <- MCMigrate
  Clients <- MCClients
  Config <- MCConfig
  PublisherSchema = "AgentState"
  MaxSequence = 4
  MaxFailures = 4
  MaxGap = 2
  MaxPending = 2
INVARIANTS ReorderTypeOK NothingReadyWaits
PROPERTIES ImplementsStream

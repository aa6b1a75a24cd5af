SPECIFICATION Spec
CONSTANTS
  State <- MCState
  None = None
  PlainZeros <- MCPlainZeros
  Hash <- MCHash
  Diff <- MCDiff
  Patch <- MCPatch
  Size <- MCSize
  WindowCapacity = 4
  HasRoute <- MCHasRoute
  Migrate <- MCMigrate
  HeaderLen = 1
  MaxPackets = 2
  MaxBytes = 12
  Publishers <- TwoPublishers
  Clients <- OneClient
  Schema = "AgentState"
  Limit = 4
  Faults <- AllFaults
  MaxSequence = 3
  MaxSessions = 2
INVARIANTS TypeOK DataInOrder RecoveryMovesForward
PROPERTIES OnlyRecoverySnapshotsMislead
CHECK_DEADLOCK FALSE

SPECIFICATION Spec
CONSTANTS
  State <- MCState
  None = None
  PlainZeros <- MCPlainZeros
  Hash <- MCHash
  Diff <- MCDiff
  Patch <- MCPatch
  Size <- MCSize
  WindowCapacity = 3
  HasRoute <- MCHasRoute
  Migrate <- MCMigrate
  HashOf <- MCHash
  Xor <- MCXor
  Invalid = Invalid
  HeaderLen = 1
  MaxPackets = 3
  MaxBytes = 9
  Schema = "AgentState"
  Limit = 4
  MaxSequence = 4
INVARIANTS TypeOK PlanRestores PlanIsCheapest
CHECK_DEADLOCK FALSE

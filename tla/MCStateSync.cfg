SPECIFICATION Spec
CONSTANTS
  State <- MCState
  None = None
  PlainZeros <- MCPlainZeros
  Hash <- MCHash
  Diff <- MCDiff
  Patch <- MCPatch
  Size <- MCSize
  WindowCapacity = 1
  HasRoute <- MCHasRoute
  Migrate <- MCMigrate
  Clients <- MCClients
  Config <- MCConfig
  PublisherSchema = "v1"
  MaxSequence = 3
  MaxFailures = 1
  zero = zero
  minus_zero = minus_zero
SYMMETRY Zeros
INVARIANTS TypeOK Consistency DuplicateIsStale NextPacketFits
PROPERTIES ImplementsStream

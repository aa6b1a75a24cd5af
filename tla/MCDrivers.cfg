SPECIFICATION DriversSpec
CONSTANTS
  State <- MCState
  None = None
  PlainZeros <- MCPlainZeros
  Hash <- MCHash
  Diff <- MCDiff
  Patch <- MCPatch
  Size <- MCSize
  WindowCapacity = 1
  HasRoute <- MCHasRoute
  Migrate <- MCMigrate
  Deltas <- MCDeltas
  Invalid = Invalid
  c1 = c1
  c2 = c2
  Clients = {c1}
  SimClients = {c1, c2}
  TestSchema = "bytes"
  TestLimit = 1
  Schema = "bytes"
  Limit = 1
  LateDelivery = TRUE
  MaxTop = 5
  MaxLives = 2
  MaxGap = 1
  MaxPending = 2
  MaxRounds = 4
  MaxSequence = 4
  Topic <- MCTopic
  Subscribers = {c1}
  Topics <- MCTopics
  Capacity = 2
  SocketCapacity = 1
  ChannelCapacity = 1
  MaxMessages = 5
  Absent = Absent
INVARIANTS ByteTypeOK EntryShown ServedIsCurrent AllConverge GapsAreAnnounced OnlyLagLoses
PROPERTIES ForwardUnlessLate ReorderedWithoutResync DashboardIsHonest
CHECK_DEADLOCK FALSE

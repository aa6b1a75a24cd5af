SPECIFICATION Spec
CONSTANTS
  Field = {"a", "b", "c"}
  Value = {"0.0", "-0.0", "1.0"}
  PlainZero <- MCPlainZero
  TextField = {"status", "task"}
  CounterField = {"tokens"}
  Text <- MCText
  Float = {"zero", "negative zero", "one", "nan"}
  FieldOrder <- MCFieldOrder
  BadPayload = BadPayload
  MaxU8 = 1
  MaxU64 = 2
  FloatEqual <- MCFloatEqual
  ByteValue = {0, 1}
  MaxLength = 5
  RangeGaps = {0, 1, 2}
  ChunkSizes = {0, 1, 2, 3}
  Bystanders <- MCBystanders
  Xor <- MCXor
  HashOf <- MCHashOf
  Invalid = Invalid
  Overflow = Overflow
  Malformed = Malformed
  Widths = {4, 5}
  GroupBits = 3
  Numbers <- MCNumbers
  HeaderLen = 2
  Magic = 7
  MinWireVersion = 2
  WireVersion = 3
  MaxWirePayload = 2
  KnownFlag <- MCKnownFlag
  Checksum <- MCChecksum
  Refused = Refused
  WirePackets <- MCPackets
  Symbols = {0, 1, 2, 3, 4, 5, 6, 7}
  MinZstdPayload = 2
  ExploreEvery = 3
  WinnerWindow = 3
  SparsePercent = 30
  RangeRunLimit = 1
  DensePercent = 45
  MinWinners = 2
  FreeAttempts = 2
  TunerBatch = 2
  TunerFloor = 1
  TunerCeiling = 4
  TunerStart = 2
  AdaptivePolicies <- MCAdaptivePolicies
  EncoderPolicies <- MCEncoderPolicies
  Snapshots <- MCSnapshots
  PlainDeltas <- MCPlainDeltas
  Offers <- MCOffers
  Families <- MCFamilies
  Profiles <- MCProfiles
  MaxAttempts = 3
INVARIANTS EveryDeltaRestores NothingSpare SafeRepair PayloadsReadBack PacketsArrive DeltaNeverCosts EncodersChooseWell LearningStaysOpen

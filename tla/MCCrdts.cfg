SPECIFICATION Spec
CONSTANTS
  Replicas <- Two
  MaxU64 = 2
  Amounts <- Two
  MaxUpdates = 2
  Writers <- Three
  Values = {"on", "off"}
  Timestamps <- Two
INVARIANTS CounterTypeOK ExactlyOnce OwnersLead StampsIdentifyValues
PROPERTIES NeverUndone AllConverge

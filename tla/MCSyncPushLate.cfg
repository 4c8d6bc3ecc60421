SPECIFICATION FairSpec
CONSTANTS
  e1 = e1
  e2 = e2
  Entity = {e1}
  Kind <- MCNodes
  MaxEdits = 2
  MaxRetries = 1
  MaxDevices = 1
  MaxLate = 1
  MaxVersion = 1
  ChunkSize = 1
  NoBase = NoBase
  None = None
CHECK_DEADLOCK FALSE
INVARIANTS OneTransport NeverTurnedAway
PROPERTIES Drains

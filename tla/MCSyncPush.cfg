SPECIFICATION Spec
CONSTANTS
  e1 = e1
  e2 = e2
  Entity = {e1, e2}
  Kind <- MCKind
  MaxEdits = 2
  MaxRetries = 1
  MaxDevices = 2
  MaxLate = 0
  MaxVersion = 1
  ChunkSize = 1
  NoBase = NoBase
  None = None
CHECK_DEADLOCK FALSE
INVARIANTS TypeOK FloorSparesPending OneRequestPerIdentity
PROPERTIES EditsDelivered

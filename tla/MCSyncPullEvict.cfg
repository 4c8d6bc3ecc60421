SPECIFICATION Spec
CONSTANTS
  Scope = {k1}
  Entity = {a, b}
  Absent = Absent
  NoState = NoState
  Unsaved = Unsaved
  NoBoot = NoBoot
  NoRevision = NoRevision
  Idle = Idle
  Editable = {}
  BatchSize = 1
  FreshGrants = FALSE
  MaxLog = 0
  MaxGrant = 1
  MaxRequested = 0
INVARIANT HoldsAll

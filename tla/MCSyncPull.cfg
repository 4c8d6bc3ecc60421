SPECIFICATION Spec
CONSTANTS
  Scope = {k1, k2}
  Entity = {a, b}
  Absent = Absent
  NoState = NoState
  Unsaved = Unsaved
  NoBoot = NoBoot
  NoRevision = NoRevision
  Idle = Idle
  Editable = {}
  BatchSize = 1
  FreshGrants = TRUE
  MaxLog = 1
  MaxGrant = 2
  MaxRequested = 0
SYMMETRY PullSymmetry
INVARIANTS TypeOK NothingMissed NothingLeftBehind
PROPERTY RowsAccounted

SPECIFICATION FairSpec
CONSTANTS
  Scope = {k1}
  Entity = {a}
  Absent = Absent
  NoState = NoState
  Unsaved = Unsaved
  NoBoot = NoBoot
  NoRevision = NoRevision
  Idle = Idle
  Editable = {a}
  BatchSize = 1
  FreshGrants = TRUE
  MaxLog = 2
  MaxGrant = 2
  MaxRequested = 2
PROPERTIES Converges RowsAccounted

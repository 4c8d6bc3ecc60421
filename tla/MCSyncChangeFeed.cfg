SPECIFICATION FairSpec
CONSTANTS
  task = task
  entry = entry
  s1 = s1
  s2 = s2
  r1 = r1
  Entity = {task, entry}
  NoEntity = NoEntity
  ParentOf <- MCParentOf
  Scope = {s1, s2}
  NoScope = NoScope
  Absent = Absent
  Unwritten = Unwritten
  Tx = {t1, t2}
  Reader = {r1}
  Visible <- MCVisible
  PageLimit = 2
  MAX_SEQ = 3
INVARIANTS TypeOK CommitOrder NothingMissed EveryChangeLogged VersionIdentifiesRow
PROPERTIES CursorAdvances Drains
CHECK_DEADLOCK FALSE

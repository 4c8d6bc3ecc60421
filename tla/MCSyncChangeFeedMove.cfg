SPECIFICATION Spec
CONSTANTS
  task = task
  entry = entry
  s1 = s1
  s2 = s2
  r1 = r1
  Entity = {task, entry}
  NoEntity = NoEntity
  ParentOf <- MCParentOf
  Scope = {s1, s2}
  NoScope = NoScope
  Absent = Absent
  Unwritten = Unwritten
  Tx = {t1}
  Reader = {r1}
  Visible <- MCVisibleNew
  PageLimit = 2
  MAX_SEQ = 3
INVARIANT ReaderConverges
CHECK_DEADLOCK FALSE

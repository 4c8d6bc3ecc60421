SPECIFICATION Spec
CONSTANTS
  Tx = {t1, t2}
  u1 = u1
  u2 = u2
  User = {u1, u2}
  Message = {m1, m2}
  Session = Session
  open = open
  closed = closed
  Project = {open, closed}
  ReadableBy <- MCReadableBy
  NoUser = NoUser
  Content = {c0, c1}
  Joined = Joined
  Left = Left
  Absent = Absent
  Unwritten = Unwritten
  Nothing = Nothing
  MaxStatements = 2
SYMMETRY ConversationSymmetry
INVARIANTS TypeOK
PROPERTIES EveryViewerTold

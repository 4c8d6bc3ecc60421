SPECIFICATION FairSpec
CONSTANTS
  r1 = r1
  t1 = t1
  Run = {r1}
  Task = {t1}
  None = None
PROPERTIES LossShown

SPECIFICATION FairSpec
CONSTANTS
  o1 = o1
  o2 = o2
  q1 = q1
  q1x = q1x
  q2 = q2
  d1 = d1
  t = t
  a = a
  n = n
  Worker = {w1, w2}
  Device = {d1}
  OpId = {o1, o2}
  Entity = {t, a, n}
  Request = {q1, q1x, q2}
  IdOf <- MCIdOf
  DeviceOf <- MCDeviceOf
  SeqOf <- MCSeqOf
  ActionOf <- MCActionOf
  EntityOf <- MCEntityOf
  AlsoOf <- MCAlsoOf
  BaseOf <- MCBaseOf
  NoBase = NoBase
  NoRequest = NoRequest
  NoReceipt = NoReceipt
  Present = {t, a}
  MaxFloor = 1
  MaxBoth = 1
  MaxOther <- MCMaxOther
INVARIANTS TypeOK ReceiptKept CallbacksAfterCommit EffectOnce
PROPERTIES Served OnceOnlySpec NoLostUpdate

SPECIFICATION MCSpec
CONSTANTS
  s1 = s1  s2 = s2  t1 = t1  t2 = t2  t3 = t3  a = a
  Sessions = {s1, s2}
  Txs = {t1, t2, t3}
  Chunks = {1}
  Contents = {a}
  Active = {"pending"}
  MaxStatements = 2
  Deleted = Deleted
  None = None
  Unset = Unset
INVARIANTS NeverAmbiguous NoLockCycle
PROPERTIES KeepsPromise
SYMMETRY Alike
CHECK_DEADLOCK FALSE

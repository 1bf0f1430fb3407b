SPECIFICATION MCSpec
CONSTANTS
  l1 = l1  l2 = l2  p1 = p1  p2 = p2
  k1 = k1  t1 = t1  t2 = t2  a = a  b = b
  Links = {l1, l2}
  Procs = {p1, p2}
  Secret = {l1}
  FolderLinks = {l2}
  Limit = 1
  LockThreshold = 2
  MaxTurns = 3
  Keys = {k1}
  Targets = {t1, t2}
  MaxResults = 2
  MaxReceipts = 1
  MaxPending = 1
  MaxAsked = 2
INVARIANTS WithinLimit ShownWhole OnePerKey
PROPERTIES ScopeKept
SYMMETRY Alike
CHECK_DEADLOCK FALSE

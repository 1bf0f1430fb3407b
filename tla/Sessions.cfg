SPECIFICATION MCSpec
CONSTANTS
  Procs = {p1, p2}
  MaxTokens = 4
  MaxTurns = 5
  Users = {1, 2}
  Requests = {r1, r2}
  MaxPairs = 3
  MaxLosses = 0
  MaxReloads = 1
INVARIANTS OneLivePerLogin LogoutEnds OwnTokensOnly
PROPERTIES RequestsSettle
CHECK_DEADLOCK FALSE

SPECIFICATION FairSpec
CONSTANTS
  h1 = h1  h2 = h2  a = a  b = b  s1 = s1  s2 = s2  timer = timer
  Sessions = {s1, s2}
  Handlers = {h1, h2}
  Timer = timer
  NChunks = 1
  Contents = {a}
  None = None
  Deleted = Deleted
  Size <- UnitSize
  Want <- AnyBody
  Quota = 2
  MaxTotal = 1
  OtherBytes = {1}
  Slots = 2
  MaxAttempts = 1
  MaxFaults = 2
  Historical = {s2}
INVARIANTS UsedAccounts ReservationsFit
PROPERTIES ExpiredReclaimed
ACTION_CONSTRAINT Few
CHECK_DEADLOCK FALSE

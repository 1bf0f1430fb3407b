SPECIFICATION Spec
CONSTANTS
  h1 = h1  h2 = h2  a = a  b = b  s1 = s1  s2 = s2  timer = timer
  Sessions = {s1}
  Handlers = {h1, h2}
  Timer = timer
  NChunks = 2
  Contents = {a, b}
  None = None
  Deleted = Deleted
  Size <- UnitSize
  Want <- ABody
  Quota = 1
  MaxTotal = 0
  OtherBytes = {}
  Slots = 2
  MaxAttempts = 2
  MaxFaults = 2
  Historical = {}
INVARIANTS PublishedObjectKept
PROPERTIES KeepsPromise PublishesRecordedBytes
SYMMETRY Alike
CHECK_DEADLOCK FALSE

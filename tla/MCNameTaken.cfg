SPECIFICATION NamedSpec
CONSTANTS
  s1 = s1  s2 = s2  h1 = h1  h2 = h2  c1 = c1  c2 = c2
  None = None
  Deleted = Deleted
  Sessions = {s1}
  Handlers = {h1, h2}
  NChunks = 2
  Contents = {c1, c2}
  Size <- One
  Want <- Mixed
  Quota = 1
  MaxTotal = 0
  OtherBytes = {}
  Taken = {}
  Foldered = {}
  SsdDecays = TRUE
  MaxFaults = 4
  Objects <- EightObjects
  MaxWorld = 1
  PinFaults = 2
PROPERTIES PublishedCommits
CHECK_DEADLOCK FALSE

SPECIFICATION MCSpec
CONSTANTS
  a = a  b = b  c = c
  Procs = {p1, p2}
  Files = {f1}
  Users = {u1}
  Owner <- AnyOwner
  Kinds = {"file", "archive"}
  OwnLimit <- OneEach
  AllLimit <- OneEach
  PrepareLimit = 1
  MaxTokens = 2
  None = None
  MaxSafe = 5
  Missing = Missing
  Sizes = {0, 1, 2, 3, 4, 5, 6}
  Numbers = {0, 1, 2, 3, 4, 5, 6, 7}
INVARIANTS SingleUse ArchiveWhole
PROPERTIES SendsAsked SentLive
CHECK_DEADLOCK FALSE

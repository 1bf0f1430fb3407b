SPECIFICATION MCSpec
CONSTANTS
  Folders = {f1, f2, f3}
  Files = {x1, x2}
  Names = {n1, n2}
  Procs = {p1, p2}
  Root = Root
  None = None
  Quota = 2
  MaxFaults = 0
  MaxRevivals = 1
  Requests = {"createFolder", "moveFolder", "removeFolder", "deleteFolder",
              "upload", "placeFile"}
INVARIANTS TreeSound BytesAccounted
PROPERTIES NothingIsStranded
SYMMETRY Alike
CHECK_DEADLOCK FALSE

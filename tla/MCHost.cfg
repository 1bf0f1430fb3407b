SPECIFICATION MCSpec
CONSTANTS
  b1 = b1  b2 = b2  r1 = r1  r2 = r2  r3 = r3
  files = files  marker = marker
  None = None
PROPERTIES RestorePointKept
CHECK_DEADLOCK FALSE

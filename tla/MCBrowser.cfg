SPECIFICATION MCSpec
CONSTANTS
  f1 = f1  f2 = f2  d1 = d1  d2 = d2
  a = a  b = b  aa = aa  dots = dots
  Root = Root  Bad = Bad  Trash = Trash  None = None
  Attempts = 3
  MaxWait = 4
  Window = 6
  Cancelling = 3
  Replaying = 2
  MaxAsked = 5
INVARIANTS AsChosen
PROPERTIES EndsAsAsked
CHECK_DEADLOCK FALSE

SPECIFICATION Spec
CONSTANTS
  Tasks = {t}
  Size = 4
  Delays = {1, 2}
  MaxTime = 9
  MaxLag = 2
  MaxCount = 1
INVARIANT NoneOverdue
CHECK_DEADLOCK FALSE

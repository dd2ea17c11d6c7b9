SPECIFICATION Spec
CONSTANTS
  Tasks = {s, t}
  Size = 4
  Delays = {0, 1, 2, 3, 4, 5}
  MaxTime = 9
  MaxLag = 5
  MaxCount = 2
INVARIANTS TypeOK WheelInStep CountCovers
PROPERTIES NotEarly NoneLeftWithinTurn
CHECK_DEADLOCK FALSE

SPECIFICATION Spec
CONSTANTS
  Routines = {main, a, b, c}
  Loop = loop
  Main = main
  Stacks = {s1, s2, s3, s4, s5}
  MaxKeep = 2
  NoStack = none
SYMMETRY Symmetry
INVARIANTS TypeOK StackHasOneOwner NoDanglingRoutine DeletesTheFinished PoolsBounded StackLargeEnough
CHECK_DEADLOCK FALSE

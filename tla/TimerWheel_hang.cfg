SPECIFICATION FairSpec
CONSTANTS
  Tasks = {t}
  Size = 4
  Delays = {1}
  MaxTime = 6
  MaxLag = 3
  MaxCount = 1
PROPERTY MergeReturns
CHECK_DEADLOCK FALSE

SPECIFICATION FairSpec
CONSTANTS
  MaxChanges = 3
  Conns = {1}
  BufferMax = 1
  BatchMax = 1
  ReplayMax = 1
  MaxFaults = 0
CHECK_DEADLOCK FALSE
PROPERTY PageCatchesUp

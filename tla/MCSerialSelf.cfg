SPECIFICATION SerialSpec
CONSTANTS
  S = 2
  T = {1, 2, 10}
  Zero = 0
  Unset = 99
  Reader = {r1, r2}
  NoTask = NoTask
  Input <- MCInput
  MaxRead = 2
  MaxDepth = 3
INVARIANT RegionReached
CHECK_DEADLOCK FALSE

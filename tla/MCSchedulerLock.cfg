CONSTANTS
  t1 = t1
  t2 = t2
  t3 = t3
  Task <- MCTask
  First = t1
  MaxNest = 2
  MaxIrq = 2
  Line = {0, 8, 12}
  Secondary = 8
  TickMod = 4
  Sleeper = {s1}
  MaxSleep = 2
  Callback = {"c1"}
  MaxCallbacks = 3
  S = 2  T = {1, 2, 10}  Zero = 0  Unset = 99
  Reader = {r1, r2}  NoTask = NoTask  Input <- MCInput  MaxRead = 2  MaxDepth = 3
SPECIFICATION MCSpec
INVARIANTS
  TypeOK
  SectionsMasked
  PreemptibleOutside
  BlockedLeavesCpu
  NoRequestForgotten
  TimerSafe
  CharactersKept
PROPERTIES
  SwitchesBalanced
  StoppedIsFinal
  InterruptProgress

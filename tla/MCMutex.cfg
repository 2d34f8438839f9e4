CONSTANTS
  main = main
  cleaner = cleaner
  t1 = t1
  t2 = t2
  m1 = m1
  m2 = m2
  NULL = NULL
  Task <- MCTask
  Main = main
  Cleaner = cleaner
  Exiting = {}
  Sync = {m1, m2}
  TimeSlice = 2
  MaxSleep = 0
SPECIFICATION MutexFairSpec
INVARIANTS
  MutualExclusion
PROPERTIES
  UnlockWakesAll

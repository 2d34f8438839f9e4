CONSTANTS
  main = main
  cleaner = cleaner
  t1 = t1
  t2 = t2
  t3 = t3
  m1 = m1
  m2 = m2
  NULL = NULL
  Task <- MCSmallTask
  Main = main
  Cleaner = cleaner
  Exiting = {t1, t2}
  Sync = {m1, m2}
  TimeSlice = 2
  MaxSleep = 2
SPECIFICATION Spec
INVARIANTS
  ReadyTasksQueued

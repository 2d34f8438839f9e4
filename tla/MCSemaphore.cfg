CONSTANTS
  main = main
  cleaner = cleaner
  t1 = t1
  t2 = t2
  s1 = s1
  NULL = NULL
  Task <- MCTask
  Main = main
  Cleaner = cleaner
  Exiting = {}
  Sync = {s1}
  TimeSlice = 1
  MaxSleep = 0
  Initial = 0
  MaxPosts = 1
SPECIFICATION SemaphoreFairSpec
INVARIANTS
  UnitsConserved
PROPERTIES
  PostWakesAll

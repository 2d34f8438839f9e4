CONSTANTS
  main = main
  t1 = t1
  t2 = t2
  t3 = t3
  t4 = t4
  NULL = NULL
  Task <- MCTask
  Main = main
  InterruptsMasked = FALSE
SPECIFICATION TaskListsSpec
INVARIANTS
  NoTaskLost

CONSTANTS
  t1 = t1
  t2 = t2
  None = None
  NPOS = NPOS
  WordBits = 4
  Caller = {t1, t2}
  Pages = 8
  Frames = 7
  TableEntries = 4
  PageSize = 4
  Available = {1, 2, 3, 4, 5}
  EarlyPages = 1
  KernelStart = 6
  KernelEnd = 7
  KernelBase = 5
  MaxCount = 3
SPECIFICATION PagingSpec
INVARIANTS
  FramesPrivate

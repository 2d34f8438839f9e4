SPECIFICATION LibrarySpec
CONSTANTS
  main = main  t1 = t1  t2 = t2  t3 = t3  t4 = t4
  NULL = NULL  Task <- MCTask  Main = main  InterruptsMasked = TRUE
  None = None  NPOS = NPOS  WordBits = 4  Caller = {t1, t2}  Pages = 8  Frames = 7
  TableEntries = 4  PageSize = 4  Available = {1, 2, 3, 4, 5}  EarlyPages = 1
  KernelStart = 6  KernelEnd = 7  KernelBase = 5  MaxCount = 5
  S = 3  T = {a, b}  Zero = Zero  Unset = Unset
  Columns = 2  Rows = 2  TabWidth = 1  ByteMod = 3  WordMod = 65536  Slots = 2  MaxStack = 3
  Digit = {0, 2, 9}  MaxVal = 0  AnsiBlack = 1  BrightBlack = 20  Background = 7  Palette = {0}
  Node = {n1, n2, n3, n4}  NullNode = NullNode
  Cells = 5  Char = {1, 2}
  LongMod = 256  ShortMod = 16  PointerDigits = 2  Arg = {0, 7, 128, 255, 300}  MaxDirective = 5
  Entries = 4  SpacePages = 24  EarlyStart = 1  EarlyEnd = 3
  LinkBase = 8  LinkStart = 11  LinkEnd = 17  MaxSections = 2  Nothing = Nothing
  MemoryMaps <- MCMemoryMaps
  PageBytes = 2  TablePages = 3  VirtualPages = 12  FirstPage = 4  EndPage = 9
  PhysicalPages = 7  MaxPages = 3  NoFrame = NoFrame  OldFrame = OldFrame
  Registers = 3  Modulus = 2  MaxUpdates = 4  CurrentYear = 2021
  Year = {2021, 2023, 2024, 2099, 2100, 2120}  Hour = {0, 1, 11, 12, 13, 23}
  Client = {a, b}  Writer = {w1, w2}  MaxWriters = 2  Level = 3  MaxLines = 1  NoOne = NoOne
  Thread = {a, b}  Idle = Idle  MaxNanos = 4
  ScreenWidth = 4  ScreenHeight = 4  Pitch = 4  FontWidth = 2  FontHeight = 2
  Glyph <- MCGlyph  Fore = Fore  Back = Back  NoInk = NoInk  NoGlyph = NoGlyph
  User = {a, b, c}  Object = {o1, o2}  NoUser = NoUser
INVARIANTS
  ConsoleRecovers
  BothWalksAgree
  StringsExact
  DirectivesExact
  BootKeepsMemory
  MapsOnlyFreeRanges
  TimeSurvives
  UndisturbedLines
  GuardsHold
  AccountsBalance
  DrawingContained
  PanicNeedsWideRequest
  BitmapMatchesTables
  LivePagesKept
  RemoveNeverBogus
  NoTaskLost
PROPERTIES
  RingIsQueue
  ImplementsQueues

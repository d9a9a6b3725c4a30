SPECIFICATION PartsSpec
CONSTANTS
  Parts = {"mutex", "map", "imc", "text"}
  NoOne = NoOne
  Threads = {t1, t2, t3}
  Uses <- MixedUses
  MaxDepth = 2
  NumPages = 12
  PagesPerMap = 2
  TextStart = 2
  TextEnd = 3
  DataEnd = 4
  StackStart = 10
  Files = {f}
  NoFile = NoFile
  FileSize = 5
  Hole = Hole
  Places = {0, 2, 6}
  Lengths = {1, 6}
  Offsets = {0, 4}
  MaxCalls = 3
  ByHandle = {h1}
  ByName = {n1}
  Fixed = {f1}
  Shm = {h1}
  Hollow = Hollow
  Receivers = {r1, r2}
  MaxHandles = 2
  UserDescMax = 2
  Rooms = {1, 2}
  MaxSends = 2
  TextSize = 6
  Alignment = 2
  TrampolineEnd = 4
  BlockSize = 2
  KeyThreads = {t1, t2}
  KeysMax = 1
  UintMax = 5
  Iterations = 2
  MaxUses = 4
  Pthreads = {main, t1, t2}
  Main = main
  NoThread = NoThread
  MainTls = MainTls
  NoBlock = NoBlock
  Blocks = {b1, b2}
  MaxThreadId = 2
  MaxCachedMemoryBlocks = 1
  MaxSessions = 2
SYMMETRY ReceiversAlike
CHECK_DEADLOCK FALSE
INVARIANTS
  MutualExclusion
  OwnIdMeansHeld
  RecursionMatches
  WaiterIsWoken
  MapMatchesMemory
  ObjectsOwned
  HolesFound
  HandlesOwned
  DescriptorsMatch
  Contained
PROPERTIES
  ImplementsPageMap

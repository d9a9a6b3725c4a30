SPECIFICATION Spec
CONSTANTS
  Main = main
  NoThread = NoThread
  MainTls = MainTls
  NoBlock = NoBlock
  Threads = {main, t1}
  Programs <- MainCreates
  Blocks = {b1}
  MaxThreadId = 2
  MaxCachedMemoryBlocks = 1
INVARIANT DetachedReclaimed

SPECIFICATION Spec
CONSTANTS
  Main = main
  NoThread = NoThread
  MainTls = MainTls
  NoBlock = NoBlock
  Threads = {main, t1, t2}
  Programs <- Nested
  Blocks = {b1, b2}
  MaxThreadId = 2
  MaxCachedMemoryBlocks = 1
INVARIANT ShutdownWaitsForAll

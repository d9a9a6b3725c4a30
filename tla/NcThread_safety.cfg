SPECIFICATION Spec
CONSTANTS
  Main = main
  NoThread = NoThread
  MainTls = MainTls
  NoBlock = NoBlock
  Threads = {main, t1, t2, t3}
  Programs <- AnyProgram
  Blocks = {b1, b2, b3}
  MaxThreadId = 2
  MaxCachedMemoryBlocks = 0
SYMMETRY Symm
INVARIANTS
  CounterAccounts
  IdsUnique
  StackAndTdbExclusive
  BlocksAccounted
  JoinDelivers
  CreatedByMainAwaited
CHECK_DEADLOCK FALSE

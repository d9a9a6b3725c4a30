SPECIFICATION Spec
CONSTANTS
  NoOne = NoOne
  Threads = {t1, t2}
  Uses <- CheckedWaitUses
  MaxDepth = 2
INVARIANT HolderFindsItself

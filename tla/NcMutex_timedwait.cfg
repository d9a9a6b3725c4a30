SPECIFICATION Spec
CONSTANTS
  NoOne = NoOne
  Threads = {t1, t2}
  Uses <- TimedUses
  MaxDepth = 2
INVARIANT WaitReturnsOwning

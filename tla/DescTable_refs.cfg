SPECIFICATION Spec
CONSTANTS
  Threads = {t1, t2, t3}
  Objs = {o1, o2, o3}
  Nil = Nil
  NumHandles = 3
  Regions = {r1}
SYMMETRY Symm
INVARIANTS
  CountsReferences
  HeldIsAlive
  DestroyedOnce

SPECIFICATION Spec
CONSTANTS
  Natps = {n1, n2, n3}
  First = n1
  NoThread = NoThread
  NumSlots = 2
  Statuses = {0, 1}
  MaxOps = 2
CHECK_DEADLOCK FALSE
INVARIANTS
  ThreadsAndSlotsCounted
  LookupFindsOwner
  OneOperationEach
PROPERTIES
  StatusStands
  ExitEnds
  OperationAnswered

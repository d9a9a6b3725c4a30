SPECIFICATION Spec
CONSTANTS
  ByHandle = {h1}
  ByName = {n1}
  Fixed = {f1}
  Shm = {h1}
  Hollow = Hollow
  Receivers = {r1, r2}
  MaxHandles = 2
  UserDescMax = 2
  Rooms = {1, 2}
  MaxSends = 2
INVARIANT OwnedIsOpen

CONSTANTS
  Lockers = {l1, l2}
  Clients = {c1}
  Mutexes = {A, B, C}
  N = 3
  l1 = l1
  l2 = l2
  A = A
  B = B
  C = C
  locking <- ThreeOrders
  Null = Null
  MaxHeld = 1
  MaxUses = 2
SPECIFICATION Spec
CHECK_DEADLOCK FALSE
INVARIANT WaitsEmptyHanded
INVARIANT OwnershipsMatch
PROPERTY UsesFifoLocks

CONSTANTS
  Lockers = {l1}
  Clients = {c1}
  Mutexes = {A, B}
  N = 2
  l1 = l1
  l2 = l2
  A = A
  B = B
  C = C
  locking <- SameOrder
  Null = Null
  MaxHeld = 2
  MaxUses = 3
SPECIFICATION Spec
CHECK_DEADLOCK FALSE
INVARIANT HoldsAll

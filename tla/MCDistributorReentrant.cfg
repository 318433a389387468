CONSTANTS
  Coros = {c1, c2, c3}
  Idents = {i1, i2}
  MaxBroadcasts = 2
  Reentrant = TRUE
SYMMETRY Symmetric
SPECIFICATION Spec
INVARIANT HeldOnce

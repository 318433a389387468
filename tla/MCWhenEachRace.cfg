CONSTANTS
  N = 2
  Voids = {}
SPECIFICATION Spec
CHECK_DEADLOCK FALSE
INVARIANT UnusedOnceDestroyed

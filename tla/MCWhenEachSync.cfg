CONSTANTS
  N = 1
  Voids = {}
SPECIFICATION FairSpec
CHECK_DEADLOCK FALSE
PROPERTY WaitReturns

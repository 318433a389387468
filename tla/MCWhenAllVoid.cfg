CONSTANTS
  Awaiters = {a1}
  Voids = {a1}
  MaxRounds = 1
SPECIFICATION FairSpec
CHECK_DEADLOCK FALSE
PROPERTY JoinEnds

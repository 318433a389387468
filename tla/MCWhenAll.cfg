CONSTANTS
  Awaiters = {a1, a2, a3, a4}
  Voids = {a4}
  MaxRounds = 3
SPECIFICATION FairSpec
CHECK_DEADLOCK FALSE
INVARIANT TypeOK
INVARIANT JoinsAll
PROPERTY WaitEnds

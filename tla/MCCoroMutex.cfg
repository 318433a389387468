CONSTANTS
  Clients = {c1, c2, c3}
  Null = Null
  Doorman = Doorman
  Dead = Dead
  Overtaking = FALSE
SPECIFICATION FairSpec
INVARIANT TypeOK
INVARIANT MutualExclusion
INVARIANT WalksLiveSlots
INVARIANT ListsHoldWaiters
PROPERTY FifoHandOver
PROPERTY EveryWaiterServed

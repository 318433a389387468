CONSTANTS
  Cells = {x, y}
  CB = CB
  RD = RD
  None = None
SPECIFICATION FairSpec
INVARIANT TypeOK
INVARIANT TargetIsLive
INVARIANT HandleHeldOnce
INVARIANT OperationHeldOnce
INVARIANT SeesDelivered
PROPERTY EveryWaitEnds

CONSTANTS
  N = 4
  Voids = {3}
SPECIFICATION FairSpec
CHECK_DEADLOCK FALSE
INVARIANT TypeOK
INVARIANT DeliversOnce
INVARIANT ResultsRecorded
INVARIANT WakeUpOwed
INVARIANT NoUseAfterDestruction
PROPERTY AllDelivered

CONSTANTS
  Sleepers = {s1, s2, s3, s4, s5, s6}
  Idents = {i1, i2}
  Times = {0, 1, 2}
  None = None
SPECIFICATION HeapSpec
SYMMETRY SleeperSymmetry
INVARIANT HeapTypeOK
INVARIANT HeapBetweenCalls
INVARIANT ResultsKept
INVARIANT SetTimeReachesAll
PROPERTY IsTimerQueue

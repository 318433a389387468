CONSTANTS
  c1 = c1
  c2 = c2
  w1 = w1
  w2 = w2
  Coros = {c1, c2}
  Workers = {w1, w2}
  Outer = Outer
  Nobody = Nobody
  Awaited <- NoneAwaited
  Threaded = TRUE
  Alertable = FALSE
  Stopping = TRUE
  MaxTime = 2
SPECIFICATION FairSpec
CHECK_DEADLOCK FALSE
INVARIANT NobodyOversleeps
PROPERTY EverySleepEnds

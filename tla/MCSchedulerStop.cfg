CONSTANTS
  c1 = c1
  c2 = c2
  w1 = w1
  w2 = w2
  Coros = {c1}
  Workers = {w1}
  Outer = Outer
  Nobody = Nobody
  Awaited <- NoneAwaited
  Threaded = TRUE
  Alertable = FALSE
  Stopping = TRUE
  MaxTime = 3
SPECIFICATION FairSpec
CHECK_DEADLOCK FALSE
PROPERTY StopIsHonoured

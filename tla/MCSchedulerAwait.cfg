CONSTANTS
  c1 = c1
  c2 = c2
  w1 = w1
  w2 = w2
  Coros = {c1, c2}
  Workers = {w1}
  Outer = Outer
  Nobody = Nobody
  Awaited <- AwaitC1
  Threaded = FALSE
  Alertable = TRUE
  Stopping = FALSE
  MaxTime = 4
SPECIFICATION FairSpec
CHECK_DEADLOCK FALSE
INVARIANT TypeOK
INVARIANT AlertsAreDue
PROPERTY StopIsHonoured

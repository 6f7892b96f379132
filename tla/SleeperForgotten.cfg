\* The threads other than the main one are interchangeable; liveness is checked,
\* so no symmetry is declared.
SPECIFICATION Spec
CONSTANTS
  t1 = t1
  t2 = t2
  Threads = {t1, t2}
  MainThread = t1
  None = none
  Mutexes = {m}
  Conds = {c}
  BarrierCount = 2
  Futexes = {f}
  Values = {0, 1}
  MaxDelay = 1
  TidFutex = f
  ClearsTid = {t2}
  JoinsUnstarted = FALSE
  LastMayLeave = TRUE
  BlockingCalls = FALSE
PROPERTY TimeoutsKept
CHECK_DEADLOCK FALSE

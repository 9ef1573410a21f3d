SPECIFICATION SchedulerTimedSpec
CONSTANTS
  t1 = t1
  t2 = t2
  t3 = t3
  Task = {t1, t2}
  Wave <- OneEach
  Interactive = {}
  Retryable = {t1}
  Proc = {p1, p2}
  MaxConcurrent = 1
  Stoppable = {}
  Runner = {r1}
  Together = {{"phase", "timeout"}}
  None = None
PROPERTY
  RetriedRuns

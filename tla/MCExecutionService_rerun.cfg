SPECIFICATION Spec
CONSTANTS
  t1 = t1
  t2 = t2
  t3 = t3
  Task = {t1, t2}
  Wave <- OneEach
  Interactive = {}
  Retryable = {}
  Proc = {p1, p2}
  MaxConcurrent = 1
  Stoppable = {t1, t2}
  Runner = {r1}
  Together = {{"phase", "timeout"}}
  None = None
PROPERTY
  CompletedNotRerun
CHECK_DEADLOCK FALSE

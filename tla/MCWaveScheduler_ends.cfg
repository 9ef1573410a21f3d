SPECIFICATION SchedulerLiveSpec
CONSTANTS
  t1 = t1
  t2 = t2
  t3 = t3
  Task = {t1, t2, t3}
  Wave <- TwoWaves
  Interactive = {t1, t3}
  Retryable = {}
  Proc = {p1, p2}
  MaxConcurrent = 1
  Stoppable = {}
  Runner = {r1}
  Together = {{"phase", "start_raises", "call_error"}, {"phase", "timeout"},
              {"phase", "phase_error"}, {"phase", "permission"}}
  None = None
PROPERTY
  PhaseEnds

SPECIFICATION Spec
CONSTANTS
  t1 = t1
  t2 = t2
  t3 = t3
  Task = {t1, t2, t3}
  Wave <- TwoWaves
  Interactive = {t1}
  Retryable = {t2}
  Proc = {p1, p2}
  MaxConcurrent = 2
  Stoppable = {t1, t2, t3}
  Runner = {r1}
  Together = {{"phase", "stop"}, {"phase", "permission"},
              {"phase", "start_raises", "call_error", "crash"},
              {"phase", "crash", "resume"}}
  None = None
SYMMETRY Symmetry
INVARIANTS
  WaveBarrier
  CheckpointSound
CHECK_DEADLOCK FALSE

SPECIFICATION Spec
CONSTANTS
  t1 = t1
  t2 = t2
  t3 = t3
  Task = {t1, t2}
  Wave <- OneEach
  Interactive = {t1}
  Retryable = {}
  Proc = {p1, p2}
  MaxConcurrent = 2
  Stoppable = {t1, t2}
  Runner = {r1, r2}
  Together = {{"start", "continue", "stop"}, {"start", "stop", "watchdog"},
              {"start", "continue", "start_raises"}, {"phase", "stop_all"},
              {"phase", "timeout"}, {"phase", "phase_error"},
              {"phase", "crash"},
              {"phase", "resume"}, {"phase", "permission", "watchdog"}}
  None = None
SYMMETRY Symmetry
INVARIANTS
  TypeOK
  OneRunner
  NobodyForgotten
  SingleProcess
  CancelledStaysDown
  CheckpointSound
  CompleteMeansDone
CHECK_DEADLOCK FALSE

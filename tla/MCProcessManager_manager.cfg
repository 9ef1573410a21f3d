SPECIFICATION ManagerLiveSpec
CONSTANTS
  Task = {t1, t2}
  Proc = {p1, p2, p3}
  MaxConcurrent = 1
  Stoppable = {t1, t2}
  None = None
INVARIANTS
  SlotsConserved
  ConcurrencyLimit
  RegistryAgrees
  OneTerminalEvent
PROPERTY
  WaiterServed
CHECK_DEADLOCK FALSE

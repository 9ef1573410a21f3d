SPECIFICATION ManagerSpec
CONSTANTS
  Task = {t1, t2}
  Proc = {p1, p2, p3}
  MaxConcurrent = 1
  Stoppable = {t1, t2}
  None = None
SYMMETRY Symmetry
INVARIANT
  SlotsReturned

\* Two schedules of one project and a web request; windows of 2 ticks in 4.
\* One session at a time, two tabs, two messages.  Four events.
\* Three database sessions on a pool of two connections.
INIT MCInit
NEXT MCNext
CONSTANTS
  s1 = s1
  s2 = s2
  t1 = t1
  t2 = t2
  g1 = g1
  g2 = g2
  Schedules = {s1, s2}
  Projects = {p}
  Templates = {m1, m2}
  ProjectOf <- MCProjectOf
  Web = {web}
  Loop = Loop
  None = None
  Modules = 2
  Period = 4
  Window = 2
  Guard = 3
  Interval = 1
  Late = 1
  Horizon = 6
  MaxRequests = 2
  Tokens = {t1, t2}
  Pages = {g1, g2}
  MaxSessions = 1
  AnswerMax = 2
  MaxTurns = 2
  MaxEvents = 4
  MaxBorrower = 3
  PoolSize = 2
  MaxWrites = 2
SYMMETRY MCSymmetry
INVARIANTS FlowReachable PagesServed EventsCounted SessionsAtomic
PROPERTIES Headless NoDoubleFire NotMissed
CHECK_DEADLOCK FALSE

SPECIFICATION Spec
CONSTANTS
  LastPhase = 2
  Reviewed = {1}
  MaxAttempts = 1
  ByHand = {1}
  Hands = {hand}
  Project = project
  Recovery = recovery
  MaxRequests = 2
  MaxCrashes = 1
  MaxReviews = 8
INVARIANTS TypeOK CriticalsHandled FixesBounded OneCycle VerdictStands
PROPERTIES PhasesInOrder CyclesEnd
CHECK_DEADLOCK FALSE

CONSTANTS
  Graphs <- AllGraphs
  MaxTask = 9
  MaxRound = 1
  MaxItem = 2
  MaxParallel = 1
  MayCome <- Mixes
SPECIFICATION ExecutorSpec
INVARIANT PlanNeedsApproval
CHECK_DEADLOCK FALSE

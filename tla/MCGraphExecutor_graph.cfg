CONSTANTS
  Graphs <- AllGraphs
  MaxTask = 9
  MaxRound = 1
  MaxItem = 2
  MaxParallel = 1
  MayCome <- Mixes
SPECIFICATION ExecutorSpec
INVARIANTS
  ExecutorTypeOK
  WavesLayered
  SkipExact
  CompleteSound
PROPERTY AgentsFed
PROPERTY FlowEnds
CHECK_DEADLOCK FALSE

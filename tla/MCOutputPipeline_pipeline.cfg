CONSTANTS
  MaxEvent = 2
  QueueMax = 1
  MayCome <- Mixes
  Queue <- PageQueues
  BoxMax = 1
  MergedMax = 1
SPECIFICATION PipelineSpec
INVARIANTS
  NoQuietLoss
  Answerable
  MarkerThere
PROPERTIES
  Ordered
  OutputArrives
CHECK_DEADLOCK FALSE

\* Five batches, two epochs, two restarts after crashes, one step without an update per launch.
CONSTANTS
  NumBatches = 5
  Prefetch = TRUE
  None = None
  InitScale = 2
  MinScale = 0
  ScaleWindow = 2
  TolNum = 1
  TolDen = 2
  Configs <- PassConfigs
  Losses = {1, 2}
  MaxLaunches = 3
  MaxFaults = 1
  WriteFails = FALSE
SPECIFICATION Spec
INVARIANTS TypeOK EachBatchOnce EpochEndsAgree UpdatesAreCounted SomeCheckpointIsWhole BestIsBest EpochIsSaved
PROPERTY GrowsAfterWindow
CHECK_DEADLOCK FALSE

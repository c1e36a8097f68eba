\* Two workers that share three batches, two at a time.
CONSTANTS
  NumBatches = 3
  Prefetch = TRUE
  None = None
  InitScale = 2
  MinScale = 0
  ScaleWindow = 2
  TolNum = 1
  TolDen = 2
  Configs <- DividedConfigs
  Losses = {1, 2}
  MaxLaunches = 2
  MaxFaults = 1
  WriteFails = FALSE
SPECIFICATION Spec
INVARIANT DividedBySampleSize
CHECK_DEADLOCK FALSE

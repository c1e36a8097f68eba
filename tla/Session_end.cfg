\* Chunks of one step, which the first session has all sent.
CONSTANTS
  stStepSecs = 3
  stWindowSecs = 20
  ChunkSizes = {3}
  MaxTicks = 9
  Rounding = FALSE
  Outcomes = {"result"}
SPECIFICATION Spec
INVARIANT EndSendsTheRest

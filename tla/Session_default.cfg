\* The default 1.5 and 10 seconds in quarters of a second; chunks under one step; float
\* sums that may fall just below the exact ones.
CONSTANTS
  stStepSecs = 6
  stWindowSecs = 40
  ChunkSizes = {1, 2, 3}
  MaxTicks = 52
  Rounding = TRUE
  Outcomes = {"result", "gone", "error"}
SPECIFICATION Spec
INVARIANTS TypeOK CaughtUp RequestWellFormed NoGap
PROPERTY EachRequestIsNew

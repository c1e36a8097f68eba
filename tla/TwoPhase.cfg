\* Two searches over a batch; the default of min_len.
CONSTANTS
  Sizes <- MCSizes
  Shapes <- MCShapes
  MinLen = 1
SPECIFICATION Spec
INVARIANTS TypeOK HypothesesAreOwn HypothesesDiffer NothingAfterEos EnoughHypotheses NoAssertFails
\* The generator returns.
CHECK_DEADLOCK FALSE

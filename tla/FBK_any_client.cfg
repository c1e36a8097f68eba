\* Clients at the same time that send anything; the ST server may fail in every way.
CONSTANTS
  stStepSecs = 1
  stWindowSecs = 2
  Paths = {"wav", "dict"}
  Faults = {"start", "raise", "crash"}
  Absent = Absent
  Unreadable = Unreadable
  Connections = {c1, c2}
  Kinds = {"start", "chunk", "end", "startBadGloss", "noAction", "unknown", "malformed", "shutdown"}
  Overlap = TRUE
  MaxMessages = 2
  MaxSessions = 2
SPECIFICATION FairSpec
INVARIANT PipesInStep
PROPERTIES MessagesAreHandled NoOrphan ImplementsApi
CHECK_DEADLOCK FALSE

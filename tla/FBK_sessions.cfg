\* Clients one after the other that keep to the API; the ST server may fail in every way.
CONSTANTS
  stStepSecs = 2
  stWindowSecs = 3
  Paths = {"wav", "dict"}
  Faults = {"start", "raise", "crash"}
  Absent = Absent
  Unreadable = Unreadable
  Connections = {c1, c2}
  Kinds = {"start", "startBadLine", "chunk", "end"}
  Overlap = FALSE
  MaxMessages = 4
  MaxSessions = 2
SPECIFICATION FairSpec
INVARIANTS TypeOK ResultsAreOwn FilesAreOwn
PROPERTY ImplementsApi
CHECK_DEADLOCK FALSE

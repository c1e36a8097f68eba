\* Two sessions, one after the other.
CONSTANTS
  stStepSecs = 2
  stWindowSecs = 4
  Paths = {"wav", "dict"}
  Faults = {}
  Absent = Absent
  Unreadable = Unreadable
  Connections = {c1}
  Kinds = {"start", "chunk", "end"}
  Overlap = FALSE
  MaxMessages = 7
  MaxSessions = 2
SPECIFICATION Spec
INVARIANT TermsAreOwn
CHECK_DEADLOCK FALSE

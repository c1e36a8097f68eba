\* Three lines of any kind, one dictionary file that changes, all faults.
CONSTANTS
  Paths = {"wav", "dict"}
  Faults = {"start", "raise", "crash"}
  Absent = Absent
  Unreadable = Unreadable
  Dictionaries = {d1, d2}
  MaxLines = 3
SPECIFICATION Spec
INVARIANTS TypeOK AnswersMatchLines
PROPERTY EveryLineAnswered
CHECK_DEADLOCK FALSE

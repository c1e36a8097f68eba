\* Pairing, aligning and looking up the terms for every request.
CONSTANTS
  Requests <- MCRequests
  Stopwords <- MCStopwords
  None = None
SPECIFICATION Spec
INVARIANTS TypeOK NothingIsLost NothingOverlooked NoEntityTwice NoneIsForgotten
\* The request is answered.
CHECK_DEADLOCK FALSE

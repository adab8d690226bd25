SPECIFICATION Spec
CONSTANTS
  MaxChild = 3
  MaxFrame = 3
INVARIANTS OneChild ServedIsActivated
PROPERTIES CandidateEnds CloseEnds
CHECK_DEADLOCK FALSE

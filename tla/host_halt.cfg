SPECIFICATION Spec
CONSTANTS
  MaxChild = 3
  MaxFrame = 3
INVARIANTS CandidateStopped
CHECK_DEADLOCK FALSE

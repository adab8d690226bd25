SPECIFICATION Spec
CONSTANTS
  Deadline = 3
  MaxTime = 4
INVARIANTS SettledOnce NoSessionLeft
PROPERTIES Ends
CHECK_DEADLOCK FALSE

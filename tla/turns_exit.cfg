SPECIFICATION Spec
CONSTANTS
  MaxTurns = 1
  MaxStops = 0
  MaxAsks = 1
INVARIANT FailureIsShown
CHECK_DEADLOCK FALSE

SPECIFICATION Spec
CONSTANTS
  MaxTurns = 1
  MaxStops = 1
  MaxAsks = 1
PROPERTY StopIsKept
CHECK_DEADLOCK FALSE

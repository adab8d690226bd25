SPECIFICATION Spec
CONSTANTS
  MaxTurns = 2
  MaxStops = 1
  MaxAsks = 1
INVARIANT PanelFollowsAcp
CHECK_DEADLOCK FALSE

SPECIFICATION Spec
CONSTANTS
  MaxTurns = 2
  MaxStops = 2
  MaxAsks = 1
INVARIANTS NoPhantomTurn PanelFollows
PROPERTIES OwnEndOnly TurnSettles StopEndsTurn
CHECK_DEADLOCK FALSE

SPECIFICATION Spec
CONSTANTS
  Panel = {p1}
  MaxReview = 1
  MaxLife = 2
  MaxFault = 0
PROPERTIES RestartEnds
CHECK_DEADLOCK FALSE

SPECIFICATION Spec
CONSTANTS
  p1 = p1
  p2 = p2
  p3 = p3
  i1 = i1
  i2 = i2
  Panel = {p1, p2}
  Invocation = {i1, i2}
  None = None
  MaxReviews = 2
  MaxTrouble = 1
PROPERTIES InterruptionWithholdsOnlyItself
CHECK_DEADLOCK FALSE

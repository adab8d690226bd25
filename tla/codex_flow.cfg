SPECIFICATION Spec
CONSTANTS
  Item = {1}
  MaxOutput = 4
  MaxReview = 2
  MaxSaid = 5
  MaxPipe = 1
CHECK_DEADLOCK FALSE
PROPERTIES PassedIsEarned ReviewEnds

SPECIFICATION Spec
CONSTANTS
  Item = {1}
  MaxOutput = 4
  MaxReview = 2
  MaxSaid = 4
  MaxPipe = 1
CHECK_DEADLOCK FALSE
INVARIANT EvidenceIsOwn

SPECIFICATION Spec
CONSTANTS
  Panel = {p1, p2}
  MaxReview = 2
  MaxLife = 2
  MaxFault = 1
SYMMETRY Symmetry
INVARIANTS HistoryLegal PinAgrees ResumedIsClosed AcceptedByUser
CHECK_DEADLOCK FALSE

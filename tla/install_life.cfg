SPECIFICATION Spec
CONSTANTS
  p1 = p1
  p2 = p2
  Installer = {p1, p2}
  MaxCommit = 2
  MaxRun = 3
SYMMETRY MCSymmetry
CHECK_DEADLOCK FALSE
INVARIANTS Recoverable
PROPERTIES PreparedStays

SPECIFICATION Spec
CONSTANTS
  p1 = p1
  p2 = p2
  Installer = {p1, p2}
  MaxCommit = 1
  MaxRun = 2
CHECK_DEADLOCK FALSE
INVARIANT JournalMeansOld

SPECIFICATION Spec
CONSTANTS
  p1 = p1
  p2 = p2
  Process = {p1, p2}
  MaxAppends = 3
  MaxFaults = 2
SYMMETRY Sym
INVARIANTS OneChain AnswerIsKept
PROPERTIES CancelOrCommit ChainContract
CHECK_DEADLOCK FALSE

SPECIFICATION Spec
CONSTANT MaxGen = 3
INVARIANTS NoClickLost OnlyThisConnection StopWithdraws
PROPERTIES ReviewSettles
CHECK_DEADLOCK FALSE

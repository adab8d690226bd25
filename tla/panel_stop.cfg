SPECIFICATION Spec
CONSTANT MaxGen = 1
PROPERTY StopAborts
CHECK_DEADLOCK FALSE

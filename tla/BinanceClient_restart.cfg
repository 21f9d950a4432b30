CONSTANT MaxPublished = 1
SPECIFICATION Spec
INVARIANT KeepsRestarting
CHECK_DEADLOCK FALSE

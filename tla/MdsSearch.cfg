SPECIFICATION Spec
CONSTANT MaxEpoch = 9
INVARIANT QueryIsRight
CHECK_DEADLOCK FALSE

SPECIFICATION Spec
CONSTANT LastYear = 2000
INVARIANT NextDow
CHECK_DEADLOCK FALSE

SPECIFICATION Spec
CONSTANT LastYear = 2000
INVARIANT NthFound
CHECK_DEADLOCK FALSE

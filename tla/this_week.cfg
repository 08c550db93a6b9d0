SPECIFICATION Spec
CONSTANT LastYear = 2000
INVARIANT NamedThisWeek
CHECK_DEADLOCK FALSE

SPECIFICATION Spec
CONSTANT LastYear = 2099
INVARIANTS
  DowCounts
  WeekdayNamed
CHECK_DEADLOCK FALSE

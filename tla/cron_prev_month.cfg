SPECIFICATION Spec
CONSTANTS
  Seconds = 2
  Minutes = 2
  Hours = 2
  Months = 3
  WeekLen = 2
  DaysIn <- MCDaysIn
  DayLimit = 11
  YearsDiff = 2
  MaxDepth = 20
  EastOfUTC = FALSE
  Calls <- MCPrevOneMonth
  StartYears = {3, 4}
  LastYear = 8
INVARIANTS
  StackHolds
CHECK_DEADLOCK FALSE

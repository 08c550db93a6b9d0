SPECIFICATION Spec
CONSTANTS
  Phrases <- MCOrdinary
  Courses <- MCSameDay
INVARIANTS
  TypeOK
  Understood
  CourseLasts
CHECK_DEADLOCK FALSE

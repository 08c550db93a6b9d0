SPECIFICATION Spec
CONSTANTS
  Phrases <- MCEvery
  Courses <- MCSameDay
INVARIANTS
  CourseLasts
CHECK_DEADLOCK FALSE

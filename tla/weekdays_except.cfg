SPECIFICATION Spec
CONSTANTS
  Phrases <- MCExcept
  Courses <- MCSameDay
INVARIANTS
  Understood
CHECK_DEADLOCK FALSE

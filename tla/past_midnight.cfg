SPECIFICATION Spec
CONSTANTS
  Phrases <- MCList
  Courses <- MCPastMidnight
INVARIANTS
  CourseLasts
CHECK_DEADLOCK FALSE

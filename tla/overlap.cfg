SPECIFICATION Spec
CONSTANTS
  YearLen = 8
  OldAge = 3
  Crontab0 <- MCCrontab
  UserCommands <- MCOverlap
  MaxCmds = 2
  InboxBound = 4
  HistoryDepth = 1
  Punctual = TRUE
  OneAtATime = FALSE
  Lead = 2
  Outages = FALSE
  OwnerLines = {}
  Polite = TRUE
INVARIANTS
  HeldOnlyInCourse

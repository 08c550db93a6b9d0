SPECIFICATION Spec
CONSTANTS
  YearLen = 8
  OldAge = 3
  Crontab0 <- MCCrontab
  UserCommands <- MCCancel
  MaxCmds = 2
  InboxBound = 4
  HistoryDepth = 3
  Punctual = TRUE
  OneAtATime = FALSE
  Lead = 2
  Outages = FALSE
  OwnerLines = {}
  Polite = TRUE
INVARIANTS
  HeldOnlyInCourse

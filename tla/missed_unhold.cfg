SPECIFICATION Spec
CONSTANTS
  YearLen = 8
  OldAge = 3
  Crontab0 <- MCCrontab
  UserCommands <- MCExceptions
  MaxCmds = 2
  InboxBound = 4
  HistoryDepth = 1
  Punctual = TRUE
  OneAtATime = TRUE
  Lead = 2
  Outages = TRUE
  OwnerLines = {}
  Polite = TRUE
INVARIANTS
  HeldOnlyInCourse

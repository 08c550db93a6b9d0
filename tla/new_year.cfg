SPECIFICATION Spec
CONSTANTS
  YearLen = 8
  OldAge = 3
  Crontab0 <- MCCrontab
  UserCommands <- MCNewYear
  MaxCmds = 1
  InboxBound = 4
  HistoryDepth = 1
  Punctual = TRUE
  OneAtATime = TRUE
  Lead = 2
  Outages = FALSE
  OwnerLines = {}
  Polite = TRUE
INVARIANTS
  Uninterrupted

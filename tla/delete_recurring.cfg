SPECIFICATION Spec
CONSTANTS
  YearLen = 8
  OldAge = 3
  Crontab0 <- MCCrontab
  UserCommands <- MCRecurring
  MaxCmds = 2
  InboxBound = 4
  HistoryDepth = 3
  Punctual = TRUE
  OneAtATime = TRUE
  Lead = 2
  Outages = FALSE
  OwnerLines = {}
  Polite = TRUE
INVARIANTS
  ServerAlive
CHECK_DEADLOCK FALSE

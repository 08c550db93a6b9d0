SPECIFICATION Spec
CONSTANTS
  YearLen = 6
  OldAge = 1
  Crontab0 <- MCShortCrontab
  UserCommands <- MCEverything
  MaxCmds = 2
  InboxBound = 1
  HistoryDepth = 2
  Punctual = FALSE
  OneAtATime = FALSE
  Lead = 0
  Outages = TRUE
  OwnerLines <- MCOwnerLines
  Polite = FALSE
INVARIANT PermanentKept

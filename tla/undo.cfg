SPECIFICATION Spec
CONSTANTS
  YearLen = 8
  OldAge = 3
  Crontab0 <- MCUndoCrontab
  UserCommands <- MCUndo
  MaxCmds = 4
  InboxBound = 4
  HistoryDepth = 3
  Punctual = TRUE
  OneAtATime = TRUE
  Lead = 2
  Outages = TRUE
  OwnerLines = {}
  Polite = TRUE
INVARIANTS
  HeldIsNamed
  PermanentKept

SPECIFICATION Spec
CONSTANTS
  YearLen = 8
  OldAge = 3
  Crontab0 <- MCHoldCrontab
  UserCommands <- MCHold
  MaxCmds = 5
  InboxBound = 4
  HistoryDepth = 3
  Punctual = TRUE
  OneAtATime = TRUE
  Lead = 2
  Outages = FALSE
  OwnerLines <- MCLateLine
  Polite = TRUE
INVARIANTS
  HeldIsNamed
CHECK_DEADLOCK FALSE

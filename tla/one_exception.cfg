SPECIFICATION FairSpec
CONSTANTS
  YearLen = 8
  OldAge = 3
  Crontab0 <- MCCrontab
  UserCommands <- MCExceptions
  MaxCmds = 4
  InboxBound = 4
  HistoryDepth = 1
  Punctual = TRUE
  OneAtATime = TRUE
  Lead = 2
  Outages = FALSE
  OwnerLines <- MCOwnerLines
  Polite = TRUE
INVARIANTS
  TypeOK
  PermanentKept
  OwnerKept
  HeldIsNamed
  Uninterrupted
  HeldOnlyInCourse
  ServerAlive
PROPERTIES
  CourseEnds

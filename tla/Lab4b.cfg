SPECIFICATION FairSpec
CONSTANTS
  CMDSIZE = 4
  BUFSIZ = 7
  MaxPeriod = 2
  ScaleArgs = {"F"}
  PeriodArgs = {1}
  LogArgs = {TRUE, FALSE}
  Scripts <- SmallScripts
  Leftovers <- Junk
INVARIANTS
  CommandFits
  LinesAreTheTypedOnesUnlessStale
  ReportsObeyCommands
  ShutdownIsLast
PROPERTIES
  OffIsObeyed

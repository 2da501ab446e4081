SPECIFICATION FairSpec
CONSTANTS
  CMDSIZE = 4
  BUFSIZ = 8
  MaxPeriod = 1
  PeriodArgs = {1}
  Scripts <- SmallScripts
INVARIANTS
  LoggedIsWritten
  ZeroMeansShutdownSent
PROPERTIES
  LostServerEndsReporter
  OffIsObeyed

SPECIFICATION Spec
CONSTANTS
  CMDSIZE = 4
  BUFSIZ = 7
  MaxPeriod = 2
  ScaleArgs = {"F"}
  PeriodArgs = {1}
  LogArgs = {TRUE, FALSE}
  Scripts <- SmallScripts
  Leftovers <- CleanStack
INVARIANT
  LinesAreTheTypedOnes

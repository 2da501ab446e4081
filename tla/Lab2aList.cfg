SPECIFICATION FairSpec
CONSTANTS
  nthreads = 2
  niteratns = 2
  SyncModes = {"U", "M", "S"}
INVARIANTS
  ListIntact
  NoFalseAlarm
PROPERTIES
  OperationsAreAtomic
  Termination

SPECIFICATION FairSpec
CONSTANTS
  nthreads = 2
  niteratns = 2
  lists = 2
  SyncModes = {"M"}
  RandValues = {2, 10}
  GarbageJ = {0, 2}
INVARIANTS
  ListsIntact
  NoFalseAlarm
  
  ElementsConserved
  LookupsSucceed
PROPERTIES
  OperationsAreAtomic
  Termination

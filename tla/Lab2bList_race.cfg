SPECIFICATION Spec
CONSTANTS
  nthreads = 2
  niteratns = 1
  lists = 1
  SyncModes = {"U"}
  RandValues = {2, 10}
  GarbageJ <- RaceJ
INVARIANTS
  ExitZeroMeansEmpty
  LengthNeverFaults
PROPERTIES
  LinksStaySet

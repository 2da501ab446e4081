SPECIFICATION Spec
CONSTANTS
  nthreads = 1
  niteratns = 1
  lists = 1
  SyncModes = {"M"}
  RandValues = {2, 10}
  GarbageJ <- NegativeJ
INVARIANTS
  SyncRunsExitZero

SPECIFICATION FairSpec
CONSTANTS
  nthreads = 3
  niteratns = 2
  SyncModes = {"U", "M", "S", "C"}
INVARIANTS
  TypeOK
  MutualExclusion
  SynchronisedSumIsZero
  RaceLosesButNeverInvents
  NoWorkerOutlivesReport
PROPERTIES
  AddIsAtomic
  Termination

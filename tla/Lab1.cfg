SPECIFICATION FairSpec
CONSTANTS
  BUFSIZE = 2
  PIPESIZE = 1
  Output <- TwoPieces
  Modes = {"lab1a", "plain", "compress"}
  Scripts <- SmallScripts
INVARIANTS
  StreamsKept
  NulAfterEachBatch
  ShellCollected
PROPERTIES
  QuitEndsServer
  
  ServerEndReachesClient
CHECK_DEADLOCK FALSE

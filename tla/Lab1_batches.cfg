SPECIFICATION Spec
CONSTANTS
  BUFSIZE = 2
  PIPESIZE = 1
  Output <- TwoPieces
  Modes = {"compress"}
  Scripts <- ShortScripts
INVARIANTS
  BatchesReachTheUser
CHECK_DEADLOCK FALSE

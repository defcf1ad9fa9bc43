SPECIFICATION FairSpec
CONSTANTS
  Scripts <- OneScript
  SndMessages = 1
  StartReady = {FALSE}
  Faults <- AllFaults
INVARIANTS
  NoLostWakeup
PROPERTIES
  NoBusyLoop
  HandshakeEnds
CHECK_DEADLOCK FALSE

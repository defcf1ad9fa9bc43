SPECIFICATION FairSpec
CONSTANTS
  MAX_PLAINTEXT = 1
  MaxBuf = 1
  MaxBytes = 0
  SndRecords = 1
  StartRoom = {1}
  MaxInbound = 1
  NTasks = 1
  PeerSends <- CtlOnly
  Failures <- NoFailures
PROPERTIES
  FlushEnds

SPECIFICATION FairSpec
CONSTANTS
  MAX_PLAINTEXT = 1
  MaxBuf = 2
  MaxBytes = 2
  SndRecords = 1
  StartRoom = {1}
  MaxInbound = 1
  NTasks = 1
  PeerSends <- DataOnly
  Failures <- NoFailures
PROPERTIES
  ReadEnds

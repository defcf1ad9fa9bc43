SPECIFICATION FairSpec
CONSTANTS
  MAX_PLAINTEXT = 1
  MaxBuf = 1
  MaxBytes = 1
  SndRecords = 1
  StartRoom = {0}
  MaxInbound = 0
  NTasks = 2
  PeerSends <- DataOnly
  Failures <- NoFailures
INVARIANTS
  ParkedIsRegistered
PROPERTIES
  FlushEnds

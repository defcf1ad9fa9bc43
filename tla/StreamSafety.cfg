SPECIFICATION Spec
CONSTANTS
  MAX_PLAINTEXT = 2
  MaxBuf = 3
  MaxBytes = 3
  SndRecords = 1
  StartRoom = {0}
  MaxInbound = 1
  NTasks = 1
  PeerSends <- DataAndClose
  Failures <- NoFailures
INVARIANTS
  TypeOK
  ExactlyOnce
  SameBytesRetried
  NobodySleepsOnDrained
PROPERTIES
  FlushMeansSent
  RefinesOutbound

SPECIFICATION Spec
CONSTANTS
  MAX_PLAINTEXT = 1
  MaxBuf = 1
  MaxBytes = 1
  SndRecords = 1
  StartRoom = {0}
  MaxInbound = 1
  NTasks = 1
  PeerSends <- BadAndFin
  Failures <- AllFailures
INVARIANTS
  NobodySleepsOnError
PROPERTIES
  ErrorIsSticky

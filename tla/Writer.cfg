SPECIFICATION FairSpec
CONSTANTS
  Dir <- WriteOnly
  IO_BUDGET = 2
  MaxBuf = 2
  MaxBytes = 4
  SndRecords = 1
  Faults <- AllFaults
INVARIANTS
  TypeOK
PROPERTIES
  RefinesOutbound
  NothingAfterAlert
  ShutdownMeansClosed
  WriteEnds

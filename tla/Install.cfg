SPECIFICATION FairSpec
CONSTANTS
  Suites <- AllSuites
  MaxSent = 2
  Errnos <- AllErrnos
  Faults <- AllFaults
INVARIANTS
  TypeOK
  NothingRejected
  BothOrNeither
  NoncesAreFresh
PROPERTIES
  AllArrives
CHECK_DEADLOCK FALSE

SPECIFICATION Spec
CONSTANTS
  Suites <- TwoSuites
  MaxSent = 1
  Errnos <- AllErrnos
  Faults <- NoFaults
INVARIANTS
  RejectionFallsBack
CHECK_DEADLOCK FALSE

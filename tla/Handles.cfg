SPECIFICATION Spec
CONSTANTS
  Bundles <- AllBundles
  MaxItems = 3
  Stale <- AnyQueue
  Conns <- TwoConns
  Faults <- CallsFail
INVARIANTS
  TypeOK
  NothingLeaks
  NothingDangles
  NoResidue
PROPERTIES
  WholeBundle
CHECK_DEADLOCK FALSE

SPECIFICATION FairSpec
CONSTANTS
  Dir <- ReadOnly
  IO_BUDGET = 2
  MaxCap = 2
  MaxRecords = 2
  MaxData = 2
  Alerts <- AllAlerts
  Controls <- AllControls
  Faults <- AllFaults
INVARIANTS
  InOrder
  EofIsAuthentic
  PartialAlertMatches
  ParkedIsArmed
PROPERTIES
  RefinesInbound
  TerminalIsSticky
  ReadEnds

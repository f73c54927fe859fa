CONSTANTS
  Kinds <- MCKinds
  Grace = 10
  Term = 3
  Delay = 4
  MaxTurns = 3
  None = None
  MaxCalls = 2
SPECIFICATION BothSpec
INVARIANTS
  CloseLeavesNobody
  
  RunIsRecorded
  TelemetryStaysAside

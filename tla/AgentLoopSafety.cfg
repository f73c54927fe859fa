SPECIFICATION Spec
CONSTANTS
  gated = gated
  bare = bare
  clean = clean
  widened = widened
  r1 = r1
  r2 = r2
  f1 = f1
  f2 = f2
  Harnesses <- MCHarnesses
  NoHarness = NoHarness
  WithSensors <- MCGated
  WithVerifiers <- MCGated
  LaunchOptions <- Sessions
  DefaultMaxTurns = 2
  MaxTokens = 1
  MaxWall = 1
  MaxPlanIterations = 2
  EditLoopThreshold = 2
  NoProgressThreshold = 1
  Responses <- MCResponses
  Findings <- MCFindings
  Baselines <- MCBaselines
  Unreadable = Unreadable
  MaxLaunches = 2
  MaxFaults = 1
INVARIANTS  TurnsAccountedFor
PROPERTIES CheckpointAdvances
SYMMETRY Interchangeable
CHECK_DEADLOCK FALSE

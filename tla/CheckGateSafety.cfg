CONSTANTS
  gate = gate  other = other
  lint = lint  report = report  todo = todo
  a = a  b = b  c = c
  Checks = {c1, c2}
  Harnesses <- MCHarnesses
  Sensors = {lint, report, todo}
  HarnessOf <- MCHarnessOf
  Rank <- MCRank
  Kind <- MCKind
  Ratchet <- MCRatchet
  Blocking = {lint, report, todo}
  Findings <- MCFindings
  OutcomesOf <- MCOutcomesOf
  Committed <- MCCommitted
  Asks <- MCAsks
  MaxFingerprints = 1
  MaxRuns = 2
  MaxEvents = 2
  Absent = Absent  Unreadable = Unreadable  NotSeen = NotSeen  NoSensor = NoSensor  NoAsk = NoAsk  NoResult = NoResult
SPECIFICATION Spec
SYMMETRY Interchangeable
ACTION_CONSTRAINT EditsShow
CHECK_DEADLOCK FALSE
INVARIANTS
  PassIsEarned
  SavesAreDeliberate
  LastWordKept

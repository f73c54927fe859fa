CONSTANTS
  root = root
  x = x
  a = a
  b = b
  docs = docs
  local = local
  repo = repo
  Harnesses <- AllHarnesses
  Root = root
  Packages = {docs}
  Local = local
  Graphs <- SmallGraphs
  SourceMaps <- OneRepo
  Nulls <- SomeNulls
SPECIFICATION ConsentSpec
INVARIANTS
  IncludedOnce
  DependenciesFirst
  EveryRouteCounts
CHECK_DEADLOCK FALSE

SPECIFICATION LiveSpec
CONSTANTS
    Procs = {p, q}
    Harnesses = {david, nina}
    Projects = {here}
    Vendors = {claude, cursor}
    Linked = {cursor}
    None = None
    MaxLaunches = 3
    MaxFaults = 1
INVARIANTS
    AssembledAlone
    
    
PROPERTIES
    NobodyStarves
CHECK_DEADLOCK FALSE

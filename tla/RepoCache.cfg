CONSTANTS
    Callers = {p1, p2}
    Entries = {main, pinned}
    p1 = p1
    p2 = p2
    main = main
    pinned = pinned
    c1 = c1
    c2 = c2
    None = None
    Mixed = Mixed
    Commits = {c1, c2}
    Tracks <- TracksDefault
    MaxCalls = 3
    MaxFaults = 2
    MaxMoves = 1
SPECIFICATION StartSpec
INVARIANTS
    EnsureDelivers
    HealsInTwo
PROPERTY CallsReturn
CHECK_DEADLOCK FALSE

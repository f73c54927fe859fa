SPECIFICATION BothSpec
CONSTANTS
    p = p
    q = q
    x = x
    sub = sub
    subsub = subsub
    k = k
    strict = strict
    prof = prof
    foc = foc
    srv = srv
    ev = ev
    cmd = cmd
    val = val
    Procs = {p, q}
    Sources = {x}
    NoPath = root
    Paths = {root, sub, subsub}
    Within <- WithinDef
    Picks = {k}
    Has <- HasDef
    Selections = {strict}
    Holds <- HoldsDef
    Declares <- DeclaresDef
    Profiles = {prof}
    Focuses = {foc}
    Servers = {srv}
    Events = {ev}
    Commands = {cmd, bcmd}
    Values = {val}
    Top = top
    None = None
    Torn = Torn
    Absent = Absent
    Null = Null
    Written <- WrittenDef
    Edits = {"include", "update", "delegate", "focus", "profile", "hook", "mcp"}
    Failed = Failed
    Versions = {v, w}
    v = v
    w = w
    bcmd = bcmd
    Brings <- BringsDef
    MaxEdits = 2
    MaxFaults = 1
    near = near
    far = far
    one = one
    two = two
    Launchers = {p, q}
    Dirs = {near, far}
    Names = {one, two}
    NoName = NoName
    Tools <- ToolsDef
    Requests <- RequestsDef
    MaxStarts = 3
    MaxTroubles = 1
SYMMETRY Symmetric
CHECK_DEADLOCK FALSE
INVARIANTS
    EditsHold
    AcceptedCoversRuns
    NulledStaysOut
    LaunchesArrive

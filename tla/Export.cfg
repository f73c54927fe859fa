SPECIFICATION ExportSpec
CONSTANTS
    root = root
    one = one
    clone = clone
    two = two
    three = three
    r = r
    a = a
    b = b
    s = s
    inc = inc
    run = run
    t1 = t1
    t2 = t2
    Dirs = {root, one, clone, two, three}
    Root = root
    Identity <- IdentityDef
    Names = {r, a, b}
    NameOf <- NameOfDef
    Selections = {None, s}
    None = None
    Offers <- OffersDef
    Graphs <- GraphsDef
    Files <- FilesDef
    Main = Main
    Extra = Extra
    Evals = Evals
    Scripts = {run}
    Texts = {t1, t2}
    Namespaces = {inc}
    Top = Top
    Vendors <- VendorsDef
    Contents <- ContentsDef
    MaxAssemblies = 2
    Claude = Claude
    Codex = Codex
    Copilot = Copilot
    Cursor = Cursor
    OpenCode = OpenCode
    Exports <- ExportsDef
    MaxExports = 2
CHECK_DEADLOCK FALSE
INVARIANTS
    FlatDelegates
    DirIsTheHarness
    
    RefusedLeavesOutput

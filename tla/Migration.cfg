SPECIFICATION LiveSpec
CONSTANTS
    ptrFoo = ptrFoo
    treeFoo = treeFoo
    treeBar = treeBar
    foo = foo
    bar = bar
    None = None
    Installs <- SomeInstalls
    Names <- SomeNames
    NameOf <- SomeNameOf
    Local <- SomeLocal
    TreeShaped <- SomeTrees
    Homes <- SomeHomes
    Commands = 2
    MaxFaults = 1
    MaxBroken = 1
INVARIANTS
    NothingLost
    StampMeansMoved
PROPERTIES
    SideAbsorbed
    HomesFinish
CHECK_DEADLOCK FALSE

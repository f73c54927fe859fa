SPECIFICATION StoreSpec
CONSTANTS
    org = org
    fork = fork
    Remotes = {org, fork}
    Local = local
    Rank <- RankDef
    UserDirs = {dir}
    Nobody = Nobody
    Moving = {org}
    MaxCommit = 2
    MaxCommands = 4
    MaxFaults = 1
INVARIANTS
    NameFollowsInstalls
    InstallDelivers
    

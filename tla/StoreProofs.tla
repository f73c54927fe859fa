---------------------------- MODULE StoreProofs ----------------------------
(* Theorems about what is kept of harnesses: in the home (HarnessStore), for   *)
(* any remote harnesses, directories and numbers of commits, commands and      *)
(* faults; in the catalogue of a marketplace (Marketplace), for any sources,   *)
(* configurations and number of builds; and in config.json (Settings), for any *)
(* users, settings and number of commands.                                     *)
EXTENDS HarnessStore, Marketplace, Settings, FiniteSetTheorems, SequenceTheorems, WellFoundedInduction, TLAPS

-----------------------------------------------------------------------------
(* The home                                                                    *)

\* What bears the name belongs to an install of S.
Bear(S) == alias \in {Nobody} \union S /\ rundirs \subseteq S
Runs == launcher \in (IF Installed = {} THEN {Nobody} ELSE Installed)

CommandFits ==
  /\ cmd.op = "none" => cmd = Idle
  /\ cmd.op \in {"install", "fork"} /\ cmd.id = Local => cmd.path \in UserDirs
  /\ cmd.op = "install" => \/ cmd.id = Local /\ cmd.pc \in {"fetch", "drop", "record", "launcher"}
                           \/ cmd.id \in Remotes /\ cmd.pc \in {"ensure", "clear", "copy", "fetch", "record", "launcher"}
  /\ cmd.op = "update" => cmd.id \in Remotes /\ cmd.pc \in {"ensure", "copy", "fetch", "record"}
  /\ cmd.op = "uninstall" => cmd.id \in Ids /\ cmd.pc \in {"remove", "rundir", "launcher", "alias", "entry"}
  /\ cmd.op = "fork" => cmd.id = Local /\ cmd.pc \in {"dest", "record", "launcher"}
  /\ cmd.op = "run" => cmd.id \in Ids /\ cmd.pc \in {"assemble", "alias"}
  /\ cmd.op = "prune" => cmd.id = Nobody /\ cmd.pc \in {"pointers", "launchers", "rundirs"}

Fetched == \A r \in Remotes : clone[r] <= upstream[r] /\ upstream[r] # 0

InstallGoes ==
  /\ cmd.op \in {"install", "fork"} /\ cmd.id = Local /\ cmd.pc = "launcher" => ptr = [path |-> cmd.path, fork |-> cmd.fork]
  /\ cmd.op = "install" /\ cmd.id \in Remotes =>
       /\ cmd.pc # "ensure" => cmd.sha # 0 /\ cmd.sha <= clone[cmd.id]
       /\ cmd.pc = "copy" => tree[cmd.id].state = "absent"
       /\ cmd.pc \in {"fetch", "record", "launcher"} =>
            tree[cmd.id].state = "whole" /\ tree[cmd.id].pure /\ cmd.sha <= tree[cmd.id].copy
       /\ cmd.pc = "launcher" => tree[cmd.id].record = cmd.sha

UninstallGoes ==
  cmd.op = "uninstall" =>
    /\ cmd.pc # "remove" => cmd.id \notin Installed
    /\ cmd.pc \in {"launcher", "alias", "entry"} /\ ~cmd.warned => cmd.id \notin rundirs
    /\ cmd.pc \in {"alias", "entry"} /\ ~cmd.warned => Runs
    /\ cmd.pc = "entry" => Installed = {}
    /\ cmd.pc = "entry" /\ ~cmd.warned => alias = Nobody

LastHolds ==
  /\ cmd # Idle => last = NoCommand
  /\ InstallDelivers /\ UninstallForgets
  /\ last.op = "fork" /\ last.how = "failed" => ptr = Nobody

Unfailed ==
  ~rough =>
    /\ ~cmd.warned
    /\ cmd.op \in {"install", "fork", "uninstall"} => Bear(Installed \union {cmd.id})
    /\ cmd.op \notin {"install", "fork", "uninstall"} => Bear(Installed) /\ Runs
    /\ cmd.op \in {"update", "run"} => cmd.id \in Installed

StoreInv == HomeTypes /\ CommandTypes /\ CommandFits /\ Fetched /\ InstallGoes /\ UninstallGoes /\ LastHolds /\ Unfailed

LEMMA IdleFits ==
  ASSUME cmd' = Idle
  PROVE  CommandFits' /\ InstallGoes' /\ UninstallGoes'
BY DEF CommandFits, InstallGoes, UninstallGoes, Idle

LEMMA IdleUnderWay == Idle \in UnderWay /\ NoCommand \in Ended /\ Idle.op = "none" /\ NoCommand.op = "none"
BY StoreAssumption DEF Idle, UnderWay, NoCommand, Ended, Operations, Stages, Commits

\* The command goes on to another step, is at its end, or never was.
LEMMA BeginTypes ==
  ASSUME CommandTypes, NEW op \in Operations, NEW id \in Ids \union {Nobody}, NEW pc \in Stages, Begin(op, id, Nobody, pc)
  PROVE  CommandTypes'
<1>1. cmd' \in UnderWay
  BY IdleUnderWay DEF UnderWay, Begin
<1>2. issued' \in 0..MaxCommands /\ last' = NoCommand /\ rough' = rough /\ faults' = faults
  BY StoreAssumption DEF CommandTypes, Begin
<1> QED BY <1>1, <1>2, IdleUnderWay DEF CommandTypes

LEMMA BeginLocalTypes ==
  ASSUME CommandTypes, NEW op \in Operations, NEW id \in Ids \union {Nobody}, NEW path \in UserDirs \union {Nobody},
         NEW pc \in Stages, NEW from \in Remotes \union {Nobody},
         cmd' = [Idle EXCEPT !.op = op, !.id = id, !.path = path, !.pc = pc, !.fork = from], last' = NoCommand,
         issued < MaxCommands, issued' = issued + 1, rough' = rough, faults' = faults
  PROVE  CommandTypes'
<1>1. cmd' \in UnderWay
  BY IdleUnderWay DEF UnderWay
<1>2. issued' \in 0..MaxCommands
  BY StoreAssumption DEF CommandTypes
<1> QED BY <1>1, <1>2, IdleUnderWay DEF CommandTypes

\* A tree, or a clone, is exchanged for another.
LEMMA TreeGoes ==
  ASSUME HomeTypes, NEW id \in Remotes, NEW t, tree' = [tree EXCEPT ![id] = t]
  PROVE  /\ tree'[id] = t /\ \A r \in Remotes : r # id => tree'[r] = tree[r]
         /\ t \in InstalledTrees => tree' \in [Remotes -> InstalledTrees]
BY DEF HomeTypes

LEMMA CloneGoes ==
  ASSUME HomeTypes, NEW id \in Remotes, clone' = [clone EXCEPT ![id] = upstream[id]]
  PROVE  /\ clone'[id] = upstream[id] /\ \A r \in Remotes : r # id => clone'[r] = clone[r]
         /\ clone' \in [Remotes -> Commits]
BY DEF HomeTypes

\* There is a least of every set of numbers.
LEMMA Smallest ==
  ASSUME NEW T \in SUBSET Nat, T # {}
  PROVE  \E x \in T : \A y \in T : x <= y
<1>1. \A y \in Nat, x \in Nat : y < x => <<y, x>> \in OpToRel(<, Nat)
  BY Zenon DEF OpToRel
<1>2. \E x \in T : \A y \in T : ~(<<y, x>> \in OpToRel(<, Nat))
  BY NatLessThanWellFounded, WFMin, Zenon
<1>3. \E x \in T : \A y \in T : ~(y < x)
  BY <1>1, <1>2, Zenon
<1> QED BY <1>3

\* The first of the installs is one of them.
LEMMA FirstIsInstalled ==
  ASSUME NEW S \in SUBSET Ids, S # {}
  PROVE  FirstOf(S) \in S
<1>1. CASE Local \in S
  BY <1>1 DEF FirstOf
<1>2. CASE Local \notin S
  <2>1. S \subseteq Remotes
    BY <1>2 DEF Ids
  <2> DEFINE T == { Rank[s] : s \in S }
  <2>2. T \in SUBSET Nat /\ T # {}
    BY <2>1, StoreAssumption
  <2>3. PICK x \in T : \A y \in T : x <= y
    BY <2>2, Smallest
  <2>4. PICK r \in S : Rank[r] = x
    BY <2>3
  <2>5. \A s \in S : Rank[r] <= Rank[s]
    BY <2>3, <2>4
  <2> QED BY <1>2, <2>4, <2>5 DEF FirstOf
<1> QED BY <1>1, <1>2

LEMMA NoTreeIs == NoTree \in InstalledTrees /\ NoTree.state = "absent"
BY StoreAssumption DEF NoTree, InstalledTrees, Commits

LEMMA HalfwayTrees ==
  ASSUME HomeTypes, cmd.id \in Remotes, NEW t \in Halfway
  PROVE  t \in InstalledTrees
<1>0. tree[cmd.id] \in InstalledTrees /\ NoTree \in InstalledTrees
  BY NoTreeIs DEF HomeTypes
<1> DEFINE was == tree[cmd.id]
<1>5. \A s \in {"bare", "part"} : [NoTree EXCEPT !.state = s] \in InstalledTrees
  BY <1>0 DEF InstalledTrees
<1>6. 0 \in Commits
  BY StoreAssumption DEF Commits
<1>7. /\ [was EXCEPT !.state = "part", !.copy = 0, !.pure = FALSE] \in InstalledTrees
      /\ \A c \in Commits : [was EXCEPT !.state = "part", !.copy = 0, !.record = c] \in InstalledTrees
  BY <1>0, <1>6 DEF InstalledTrees
<1>8. was.record \in Commits
  BY <1>0 DEF InstalledTrees
<1>1. CASE cmd.pc \in {"clear", "remove"}
  <2>1. \/ t \in {was, NoTree, [NoTree EXCEPT !.state = "bare"]}
        \/ \E c \in {0, was.record} : t = [was EXCEPT !.state = "part", !.copy = 0, !.record = c]
    BY <1>1 DEF Halfway
  <2> QED BY <1>0, <1>5, <1>6, <1>7, <1>8, <2>1
<1>2. CASE cmd.pc = "copy" /\ tree[cmd.id].state = "absent"
  <2>1. t = was \/ \E s \in {"bare", "part"} : t = [NoTree EXCEPT !.state = s]
    <3>1. Halfway = {was} \union { [NoTree EXCEPT !.state = s] : s \in {"bare", "part"} }
      BY <1>2 DEF Halfway
    <3> HIDE DEF was
    <3> QED BY <3>1
  <2> QED BY <1>0, <1>5, <2>1
<1>3. CASE cmd.pc = "copy" /\ tree[cmd.id].state # "absent"
  <2>1. t \in {was, [was EXCEPT !.state = "part", !.copy = 0, !.pure = FALSE]}
    BY <1>3 DEF Halfway
  <2> QED BY <1>0, <1>7, <2>1
<1>4. CASE cmd.pc \notin {"clear", "remove", "copy"}
  BY <1>0, <1>4 DEF Halfway
<1> QED BY <1>1, <1>2, <1>3, <1>4

LEMMA InstalledIds == Installed \subseteq Ids
BY DEF Installed, Ids

LEMMA ThenTypes ==
  ASSUME CommandTypes, NEW pc \in Stages, Then(pc)
  PROVE  CommandTypes'
BY DEF Then, storeHistory, CommandTypes, UnderWay

LEMMA ThenGoes ==
  ASSUME CommandTypes, NEW pc, Then(pc)
  PROVE  /\ cmd'.op = cmd.op /\ cmd'.id = cmd.id /\ cmd'.path = cmd.path /\ cmd'.fork = cmd.fork
         /\ cmd'.sha = cmd.sha /\ cmd'.warned = cmd.warned /\ cmd'.pc = pc
         /\ last' = last /\ rough' = rough /\ upstream' = upstream
BY DEF Then, storeHistory, CommandTypes, UnderWay

LEMMA LeaveTypes ==
  ASSUME CommandTypes, NEW how \in {"done", "warned", "failed"}, Leave(how)
  PROVE  cmd' \in UnderWay /\ last' \in Ended
BY IdleUnderWay DEF Leave, CommandTypes, UnderWay, Ended

LEMMA EndTypes ==
  ASSUME CommandTypes, End
  PROVE  CommandTypes'
BY LeaveTypes DEF End, CommandTypes

LEMMA HappensTypes ==
  ASSUME CommandTypes, Happens
  PROVE  rough' \in BOOLEAN /\ issued' \in 0..MaxCommands /\ faults' \in 0..MaxFaults
BY StoreAssumption DEF Happens, CommandTypes

LEMMA WarnTypes ==
  ASSUME CommandTypes, NEW pc \in Stages, Warn(pc)
  PROVE  CommandTypes'
BY HappensTypes DEF Warn, CommandTypes, UnderWay

LEMMA AbortTypes ==
  ASSUME CommandTypes, Abort \/ WarnAndEnd
  PROVE  CommandTypes'
BY HappensTypes, LeaveTypes DEF Abort, WarnAndEnd, CommandTypes

LEMMA InstallRemoteKeeps ==
  ASSUME StoreInv, NEW r \in Remotes, InstallRemote(r) PROVE StoreInv'
<1> USE DEF StoreInv
<1>0. Installed' = Installed
  BY DEF InstallRemote, Begin, store, Installed
<1>1. HomeTypes'
  BY DEF InstallRemote, Begin, store, HomeTypes
<1>2. CommandTypes'
  BY BeginTypes DEF InstallRemote, CommandTypes, Stages, Operations, Ids
<1>3. CommandFits'
  BY StoreAssumption DEF InstallRemote, Begin, CommandFits
<1>4. Fetched'
  BY DEF InstallRemote, Begin, store, Fetched
<1>5. InstallGoes'
  BY DEF InstallRemote, Begin, InstallGoes
<1>6. UninstallGoes'
  BY DEF InstallRemote, Begin, UninstallGoes
<1>7. LastHolds'
  BY DEF InstallRemote, Begin, NoCommand, LastHolds, InstallDelivers, UninstallForgets
<1>8. Unfailed'
  BY <1>0 DEF InstallRemote, Begin, store, Idle, Unfailed, Bear
<1> QED
  BY <1>1, <1>2, <1>3, <1>4, <1>5, <1>6, <1>7, <1>8

LEMMA InstallLocalKeeps ==
  ASSUME StoreInv, NEW d \in UserDirs, InstallLocal(d) PROVE StoreInv'
<1> USE DEF StoreInv
<1>0. Installed' = Installed
  BY DEF InstallLocal, Begin, store, Installed
<1>1. HomeTypes'
  BY DEF InstallLocal, store, HomeTypes
<1>2. CommandTypes'
  <2> DEFINE from == IF ptr = Nobody THEN Nobody ELSE ptr.fork
  <2>1. from \in Remotes \union {Nobody}
    BY DEF HomeTypes, Pointers
  <2> HIDE DEF from
  <2>2. cmd' = [Idle EXCEPT !.op = "install", !.id = Local, !.path = d, !.pc = "fetch", !.fork = from]
    BY DEF InstallLocal, from
  <2>3. /\ "install" \in Operations /\ "fetch" \in Stages /\ Local \in Ids /\ last' = NoCommand
        /\ issued < MaxCommands /\ issued' = issued + 1 /\ rough' = rough /\ faults' = faults
    BY DEF InstallLocal, Operations, Stages, Ids
  <2> QED BY <2>1, <2>2, <2>3, BeginLocalTypes
<1>3. CommandFits'
  BY DEF InstallLocal, CommandFits
<1>4. Fetched'
  BY DEF InstallLocal, store, Fetched
<1>5. InstallGoes'
  BY StoreAssumption DEF InstallLocal, InstallGoes
<1>6. UninstallGoes'
  BY DEF InstallLocal, UninstallGoes
<1>7. LastHolds'
  BY DEF InstallLocal, NoCommand, LastHolds, InstallDelivers, UninstallForgets
<1>8. Unfailed'
  BY <1>0 DEF InstallLocal, store, Idle, Unfailed, Bear
<1> QED
  BY <1>1, <1>2, <1>3, <1>4, <1>5, <1>6, <1>7, <1>8

LEMMA UpdateKeeps ==
  ASSUME StoreInv, NEW r \in Remotes, Update(r) PROVE StoreInv'
<1> USE DEF StoreInv
<1>0. Installed' = Installed
  BY DEF Update, Begin, store, Installed
<1>1. HomeTypes'
  BY DEF Update, Begin, store, HomeTypes
<1>2. CommandTypes'
  BY BeginTypes DEF Update, CommandTypes, Stages, Operations, Ids
<1>3. CommandFits'
  BY DEF Update, Begin, CommandFits
<1>4. Fetched'
  BY DEF Update, Begin, store, Fetched
<1>5. InstallGoes'
  BY DEF Update, Begin, InstallGoes
<1>6. UninstallGoes'
  BY DEF Update, Begin, UninstallGoes
<1>7. LastHolds'
  BY DEF Update, Begin, NoCommand, LastHolds, InstallDelivers, UninstallForgets
<1>8. Unfailed'
  BY <1>0 DEF Update, Begin, store, Idle, Unfailed, Bear, Runs
<1> QED
  BY <1>1, <1>2, <1>3, <1>4, <1>5, <1>6, <1>7, <1>8

LEMMA EnsureRepoKeeps ==
  ASSUME StoreInv, EnsureRepo PROVE StoreInv'
<1> USE DEF StoreInv
<1>0. Installed' = Installed
  BY DEF EnsureRepo, Installed
<1>9. cmd.id \in Remotes
  BY DEF EnsureRepo, At, CommandFits
<1>1. HomeTypes'
  BY DEF EnsureRepo, HomeTypes
<1>2. CommandTypes'
  <2>1. upstream[cmd.id] \in Commits
    BY <1>9 DEF HomeTypes
  <2>2. cmd' \in UnderWay
    BY <2>1 DEF EnsureRepo, CommandTypes, UnderWay, Stages
  <2> QED BY <2>2 DEF EnsureRepo, storeHistory, CommandTypes
<1>3. CommandFits'
  BY DEF EnsureRepo, At, CommandFits
<1>4. Fetched'
  BY <1>9, CloneGoes DEF EnsureRepo, Fetched, HomeTypes, Commits
<1>5. InstallGoes'
  <2>1. cmd'.id = cmd.id /\ cmd'.op = cmd.op /\ cmd'.sha = upstream[cmd.id]
        /\ (cmd.op = "install" => cmd'.pc = "clear")
    BY DEF EnsureRepo
  <2>2. clone'[cmd.id] = upstream[cmd.id] /\ upstream[cmd.id] # 0 /\ upstream[cmd.id] <= upstream[cmd.id]
    BY <1>9, CloneGoes DEF EnsureRepo, Fetched, HomeTypes, Commits
  <2>3. cmd.op \in {"install", "update"}
    BY DEF EnsureRepo, At
  <2> QED BY <1>9, <2>1, <2>2, <2>3, StoreAssumption DEF InstallGoes
<1>6. UninstallGoes'
  BY DEF EnsureRepo, At, UninstallGoes
<1>7. LastHolds'
  BY DEF EnsureRepo, At, storeHistory, LastHolds, Idle, NoCommand, InstallDelivers, UninstallForgets
<1>8. Unfailed'
  BY <1>0 DEF EnsureRepo, storeHistory, Unfailed, Bear, Runs
<1> QED
  BY <1>1, <1>2, <1>3, <1>4, <1>5, <1>6, <1>7, <1>8

LEMMA CannotFetchKeeps ==
  ASSUME StoreInv, CannotFetch PROVE StoreInv'
<1> USE DEF StoreInv
<1>0. Installed' = Installed
  BY DEF CannotFetch, store, Installed
<1>1. HomeTypes'
  BY DEF CannotFetch, store, Warn, Happens, Abort, HomeTypes
<1>2. CommandTypes'
  BY WarnTypes, AbortTypes DEF CannotFetch, CommandTypes, Stages
<1>3. CommandFits'
  <2>1. CASE cmd' = Idle
    BY <2>1, IdleFits
  <2>2. CASE cmd' # Idle
    BY <2>2 DEF CannotFetch, Warn, Abort, CommandFits, Leave, CommandTypes, UnderWay
  <2> QED BY <2>1, <2>2
<1>4. Fetched'
  BY DEF CannotFetch, store, Warn, Happens, Abort, Fetched
<1>5. InstallGoes'
  <2>1. CASE cmd' = Idle
    BY <2>1, IdleFits
  <2>2. CASE cmd' # Idle
    BY <2>2 DEF CannotFetch, Warn, Abort, InstallGoes, Leave, CommandTypes, UnderWay
  <2> QED BY <2>1, <2>2
<1>6. UninstallGoes'
  <2>1. CASE cmd' = Idle
    BY <2>1, IdleFits
  <2>2. CASE cmd' # Idle
    BY <2>2 DEF CannotFetch, Warn, Abort, UninstallGoes, Leave, CommandTypes, UnderWay
  <2> QED BY <2>1, <2>2
<1>7. LastHolds'
  BY DEF CannotFetch, At, Warn, Leave, Abort, LastHolds, Idle, NoCommand, InstallDelivers, UninstallForgets
<1>8. Unfailed'
  BY DEF CannotFetch, Warn, Happens, Abort, Unfailed
<1> QED
  BY <1>1, <1>2, <1>3, <1>4, <1>5, <1>6, <1>7, <1>8

LEMMA ClearTreeKeeps ==
  ASSUME StoreInv, ClearTree PROVE StoreInv'
<1> USE DEF StoreInv
<1>9. /\ cmd.op = "install" /\ cmd.pc = "clear" /\ cmd.id \in Remotes /\ cmd.id # Local /\ cmd.id \in Ids
     /\ Then("copy") /\ tree' = [tree EXCEPT ![cmd.id] = NoTree]
     /\ UNCHANGED <<ptr, source, launcher, alias, rundirs, entry, clone>>
  BY StoreAssumption DEF ClearTree, At, CommandFits, Ids
<1>0. Installed' \union {cmd.id} = Installed \union {cmd.id}
  BY <1>9, TreeGoes DEF Installed
<1>1. HomeTypes'
  BY <1>9, TreeGoes, ThenGoes, NoTreeIs DEF HomeTypes
<1>2. CommandTypes'
  BY ThenTypes DEF ClearTree, CommandTypes, Stages
<1>3. CommandFits'
  BY DEF ClearTree, At, Then, CommandFits
<1>4. Fetched'
  BY DEF ClearTree, Then, Fetched
<1>5. InstallGoes'
  <2>1. tree'[cmd.id].state = "absent"
    BY <1>9, TreeGoes, NoTreeIs
  <2> QED BY <1>9, <2>1, ThenGoes DEF InstallGoes
<1>6. UninstallGoes'
  BY DEF ClearTree, At, Then, UninstallGoes
<1>7. LastHolds'
  BY DEF ClearTree, At, Then, storeHistory, LastHolds, Idle, NoCommand, InstallDelivers, UninstallForgets
<1>8. Unfailed'
  BY <1>0 DEF ClearTree, At, Then, storeHistory, Unfailed, Bear
<1> QED
  BY <1>1, <1>2, <1>3, <1>4, <1>5, <1>6, <1>7, <1>8

LEMMA CopyTreeKeeps ==
  ASSUME StoreInv, CopyTree PROVE StoreInv'
<1> USE DEF StoreInv
<1> DEFINE t == [tree[cmd.id] EXCEPT !.state = "whole", !.copy = clone[cmd.id], !.pure = tree[cmd.id].state = "absent"]
<1>9. /\ cmd.op \in {"install", "update"} /\ cmd.pc = "copy" /\ cmd.id \in Remotes /\ cmd.id # Local /\ cmd.id \in Ids
      /\ Then("fetch") /\ tree' = [tree EXCEPT ![cmd.id] = t]
      /\ UNCHANGED <<ptr, source, launcher, alias, rundirs, entry, clone>>
  BY StoreAssumption DEF CopyTree, At, CommandFits, Ids
<1>10. /\ t \in InstalledTrees /\ t.state = "whole" /\ t.copy = clone[cmd.id]
       /\ t.pure = (tree[cmd.id].state = "absent") /\ t.record = tree[cmd.id].record
  BY <1>9 DEF HomeTypes, InstalledTrees
<1> HIDE DEF t
<1>0. Installed' \union {cmd.id} = Installed \union {cmd.id} /\ cmd.id \in Installed'
  BY <1>9, <1>10, TreeGoes DEF Installed
<1>1. HomeTypes'
  BY <1>9, <1>10, TreeGoes, ThenGoes DEF HomeTypes
<1>2. CommandTypes'
  BY ThenTypes DEF CopyTree, CommandTypes, Stages
<1>3. CommandFits'
  BY DEF CopyTree, At, Then, CommandFits
<1>4. Fetched'
  BY DEF CopyTree, Then, Fetched
<1>5. InstallGoes'
  <2>1. tree'[cmd.id] = t
    BY <1>9, TreeGoes
  <2>2. cmd.op = "install" => cmd.sha # 0 /\ cmd.sha <= clone[cmd.id] /\ t.pure
    BY <1>9, <1>10 DEF InstallGoes
  <2> QED BY <1>9, <1>10, <2>1, <2>2, ThenGoes DEF InstallGoes
<1>6. UninstallGoes'
  BY DEF CopyTree, At, Then, UninstallGoes
<1>7. LastHolds'
  BY DEF CopyTree, At, Then, storeHistory, LastHolds, Idle, NoCommand, InstallDelivers, UninstallForgets
<1>8. Unfailed'
  <2>1. CASE cmd.op = "install"
    BY <1>0, <1>9, <2>1, ThenGoes DEF Unfailed, Bear
  <2>2. CASE cmd.op = "update" /\ ~rough
    <3>1. Installed' = Installed
      BY <1>0, <2>2 DEF Unfailed
    <3> QED BY <1>9, <2>2, <3>1, ThenGoes DEF Unfailed, Bear, Runs
  <2>3. CASE rough
    BY <1>9, <2>3, ThenGoes DEF Unfailed
  <2> QED BY <1>9, <2>1, <2>2, <2>3
<1> QED
  BY <1>1, <1>2, <1>3, <1>4, <1>5, <1>6, <1>7, <1>8

LEMMA CannotWriteTreeKeeps ==
  ASSUME StoreInv, CannotWriteTree PROVE StoreInv'
<1> USE DEF StoreInv
<1>0. /\ Installed' \union {cmd.id} = Installed \union {cmd.id}
     /\ cmd.id \in Ids
  BY DEF CannotWriteTree, Installed, Ids
<1>1. HomeTypes'
  <2>1. PICK t \in Halfway : tree' = [tree EXCEPT ![cmd.id] = t]
    BY DEF CannotWriteTree
  <2>2. cmd.id \in Remotes
    BY DEF CannotWriteTree
  <2>3. upstream' = upstream
    BY DEF CannotWriteTree, Warn, Abort, Happens
  <2> QED BY <2>1, <2>2, <2>3, HalfwayTrees, TreeGoes DEF CannotWriteTree, HomeTypes
<1>2. CommandTypes'
  BY WarnTypes, AbortTypes DEF CannotWriteTree, CommandTypes, Stages
<1>3. CommandFits'
  <2>1. CASE cmd' = Idle
    BY <2>1, IdleFits
  <2>2. CASE cmd' # Idle
    BY <2>2 DEF CannotWriteTree, Warn, Abort, CommandFits, Leave, CommandTypes, UnderWay
  <2> QED BY <2>1, <2>2
<1>4. Fetched'
  BY DEF CannotWriteTree, Warn, Happens, Abort, Fetched
<1>5. InstallGoes'
  <2>1. CASE cmd' = Idle
    BY <2>1, IdleFits
  <2>2. CASE cmd' # Idle
    BY <2>2 DEF CannotWriteTree, Warn, Abort, InstallGoes, Leave, CommandTypes, UnderWay
  <2> QED BY <2>1, <2>2
<1>6. UninstallGoes'
  <2>1. CASE cmd' = Idle
    BY <2>1, IdleFits
  <2>2. CASE cmd' # Idle
    BY <2>2 DEF CannotWriteTree, Warn, Abort, UninstallGoes, Leave, CommandTypes, UnderWay
  <2> QED BY <2>1, <2>2
<1>7. LastHolds'
  <2>1. cmd # Idle /\ cmd.op \in {"install", "update", "uninstall"}
    <3>1. cmd.id # Local /\ cmd.id # Nobody /\ cmd.pc # "none"
      BY StoreAssumption DEF CannotWriteTree
    <3> QED BY <3>1 DEF CannotWriteTree, CommandFits, CommandTypes, UnderWay, Operations, Idle
  <2>2. CASE cmd.op = "update"
    <3>1. last' = NoCommand
      BY <2>1, <2>2 DEF CannotWriteTree, Warn, LastHolds
    <3> QED BY <3>1 DEF LastHolds, InstallDelivers, UninstallForgets, NoCommand
  <2>3. CASE cmd.op # "update"
    <3>1. cmd' = Idle /\ last'.how = "failed" /\ last'.op = cmd.op
      BY <2>3 DEF CannotWriteTree, Abort, Leave
    <3> QED BY <2>1, <3>1 DEF LastHolds, InstallDelivers, UninstallForgets
  <2> QED BY <2>2, <2>3
<1>8. Unfailed'
  BY DEF CannotWriteTree, Warn, Happens, Abort, Unfailed
<1> QED
  BY <1>1, <1>2, <1>3, <1>4, <1>5, <1>6, <1>7, <1>8

LEMMA FetchIncludesKeeps ==
  ASSUME StoreInv, FetchIncludes PROVE StoreInv'
<1> USE DEF StoreInv
<1>0. Installed' = Installed
  BY DEF FetchIncludes, store, Installed
<1>1. HomeTypes'
  BY DEF FetchIncludes, Then, store, HomeTypes
<1>2. CommandTypes'
  BY ThenTypes DEF FetchIncludes, CommandTypes, Stages
<1>3. CommandFits'
  BY StoreAssumption DEF FetchIncludes, At, Then, CommandFits
<1>4. Fetched'
  BY DEF FetchIncludes, Then, store, Fetched
<1>5. InstallGoes'
  BY DEF FetchIncludes, At, Then, store, InstallGoes
<1>6. UninstallGoes'
  BY DEF FetchIncludes, At, Then, UninstallGoes
<1>7. LastHolds'
  BY DEF FetchIncludes, At, Then, storeHistory, LastHolds, Idle, NoCommand, InstallDelivers, UninstallForgets
<1>8. Unfailed'
  BY <1>0 DEF FetchIncludes, Then, storeHistory, store, Unfailed, Bear, Runs
<1> QED
  BY <1>1, <1>2, <1>3, <1>4, <1>5, <1>6, <1>7, <1>8

LEMMA CannotFetchIncludesKeeps ==
  ASSUME StoreInv, CannotFetchIncludes PROVE StoreInv'
<1> USE DEF StoreInv
<1>0. Installed' = Installed
  BY DEF CannotFetchIncludes, store, Installed
<1>1. HomeTypes'
  BY DEF CannotFetchIncludes, store, Warn, Happens, Abort, HomeTypes
<1>2. CommandTypes'
  BY WarnTypes, AbortTypes DEF CannotFetchIncludes, CommandTypes, Stages
<1>3. CommandFits'
  <2>1. CASE cmd' = Idle
    BY <2>1, IdleFits
  <2>2. CASE cmd' # Idle
    BY <2>2 DEF CannotFetchIncludes, Warn, Abort, CommandFits, Leave, CommandTypes, UnderWay
  <2> QED BY <2>1, <2>2
<1>4. Fetched'
  BY DEF CannotFetchIncludes, store, Warn, Happens, Abort, Fetched
<1>5. InstallGoes'
  <2>1. CASE cmd' = Idle
    BY <2>1, IdleFits
  <2>2. CASE cmd' # Idle
    BY <2>2 DEF CannotFetchIncludes, Warn, Abort, InstallGoes, Leave, CommandTypes, UnderWay
  <2> QED BY <2>1, <2>2
<1>6. UninstallGoes'
  <2>1. CASE cmd' = Idle
    BY <2>1, IdleFits
  <2>2. CASE cmd' # Idle
    BY <2>2 DEF CannotFetchIncludes, Warn, Abort, UninstallGoes, Leave, CommandTypes, UnderWay
  <2> QED BY <2>1, <2>2
<1>7. LastHolds'
  BY DEF CannotFetchIncludes, At, Warn, Leave, Abort, LastHolds, Idle, NoCommand, InstallDelivers, UninstallForgets
<1>8. Unfailed'
  BY DEF CannotFetchIncludes, Warn, Happens, Abort, Unfailed
<1> QED
  BY <1>1, <1>2, <1>3, <1>4, <1>5, <1>6, <1>7, <1>8

LEMMA DropPointerKeeps ==
  ASSUME StoreInv, DropPointer PROVE StoreInv'
<1> USE DEF StoreInv
<1>0. /\ Installed' \union {cmd.id} = Installed \union {cmd.id}
     /\ cmd.id \in Ids
  BY DEF DropPointer, At, Installed, CommandFits, Ids
<1>1. HomeTypes'
  BY DEF DropPointer, Then, HomeTypes
<1>2. CommandTypes'
  BY ThenTypes DEF DropPointer, CommandTypes, Stages
<1>3. CommandFits'
  BY DEF DropPointer, At, Then, CommandFits
<1>4. Fetched'
  BY DEF DropPointer, Then, Fetched
<1>5. InstallGoes'
  BY ThenGoes, StoreAssumption DEF DropPointer, At, CommandFits, InstallGoes
<1>6. UninstallGoes'
  BY DEF DropPointer, At, Then, UninstallGoes
<1>7. LastHolds'
  BY DEF DropPointer, At, Then, storeHistory, LastHolds, Idle, NoCommand, InstallDelivers, UninstallForgets
<1>8. Unfailed'
  BY <1>0 DEF DropPointer, At, Then, storeHistory, Unfailed, Bear
<1> QED
  BY <1>1, <1>2, <1>3, <1>4, <1>5, <1>6, <1>7, <1>8

LEMMA SaveRecordKeeps ==
  ASSUME StoreInv, SaveRecord PROVE StoreInv'
<1> USE DEF StoreInv
<1>9. /\ cmd.op \in {"install", "fork"} /\ cmd.pc = "record" /\ cmd.id \in Ids /\ Then("launcher")
      /\ cmd.id = Local => ptr' = [path |-> cmd.path, fork |-> cmd.fork] /\ tree' = tree /\ cmd.path \in UserDirs
      /\ cmd.id # Local => /\ tree' = [tree EXCEPT ![cmd.id] = [tree[cmd.id] EXCEPT !.record = cmd.sha]]
                           /\ ptr' = ptr /\ cmd.id \in Remotes /\ cmd.op = "install"
      /\ UNCHANGED <<source, launcher, alias, rundirs, entry, clone>>
  BY DEF SaveRecord, At, CommandFits, Ids
<1> DEFINE t == [tree[cmd.id] EXCEPT !.record = cmd.sha]
<1>10. cmd.id # Local => /\ t \in InstalledTrees /\ t.state = tree[cmd.id].state /\ t.copy = tree[cmd.id].copy
                         /\ t.pure = tree[cmd.id].pure /\ t.record = cmd.sha /\ tree'[cmd.id] = t
                         /\ tree' \in [Remotes -> InstalledTrees] /\ \A r \in Remotes : r # cmd.id => tree'[r] = tree[r]
  <2>1. cmd.id # Local => /\ t \in InstalledTrees /\ t.state = tree[cmd.id].state /\ t.copy = tree[cmd.id].copy
                          /\ t.pure = tree[cmd.id].pure /\ t.record = cmd.sha
    BY <1>9 DEF HomeTypes, CommandTypes, UnderWay, InstalledTrees
  <2> HIDE DEF t
  <2>2. cmd.id # Local => tree' = [tree EXCEPT ![cmd.id] = t]
    BY <1>9 DEF t
  <2> QED BY <1>9, <2>1, <2>2, TreeGoes
<1> HIDE DEF t
<1>0. Installed' \union {cmd.id} = Installed \union {cmd.id}
  <2>1. CASE cmd.id = Local
    BY <1>9, <2>1 DEF Installed
  <2>2. CASE cmd.id # Local
    BY <1>9, <1>10, <2>2 DEF Installed
  <2> QED BY <2>1, <2>2
<1>1. HomeTypes'
  <2>1. ptr' \in Pointers \union {Nobody}
    BY <1>9 DEF HomeTypes, CommandTypes, UnderWay, Pointers
  <2>2. tree' \in [Remotes -> InstalledTrees]
    BY <1>9, <1>10 DEF HomeTypes
  <2> QED BY <1>9, <2>1, <2>2, ThenGoes DEF HomeTypes
<1>2. CommandTypes'
  BY ThenTypes DEF SaveRecord, CommandTypes, Stages
<1>3. CommandFits'
  BY DEF SaveRecord, At, Then, CommandFits
<1>4. Fetched'
  BY DEF SaveRecord, Then, Fetched
<1>5. InstallGoes'
  <2>1. CASE cmd.id = Local
    BY <1>9, <2>1, ThenGoes, StoreAssumption DEF InstallGoes
  <2>2. CASE cmd.id # Local
    BY <1>9, <1>10, <2>2, ThenGoes DEF InstallGoes
  <2> QED BY <2>1, <2>2
<1>6. UninstallGoes'
  BY DEF SaveRecord, At, Then, UninstallGoes
<1>7. LastHolds'
  BY DEF SaveRecord, At, Then, storeHistory, LastHolds, Idle, NoCommand, InstallDelivers, UninstallForgets
<1>8. Unfailed'
  BY <1>0 DEF SaveRecord, At, Then, storeHistory, Unfailed, Bear
<1> QED
  BY <1>1, <1>2, <1>3, <1>4, <1>5, <1>6, <1>7, <1>8

LEMMA SaveInstalledRecordKeeps ==
  ASSUME StoreInv, SaveInstalledRecord PROVE StoreInv'
<1> USE DEF StoreInv
<1> DEFINE t == [tree[cmd.id] EXCEPT !.record = IF cmd.sha = 0 THEN tree[cmd.id].record ELSE cmd.sha]
<1>9. /\ cmd.op = "update" /\ cmd.id \in Remotes /\ cmd.id \in Ids /\ End
      /\ tree' = [tree EXCEPT ![cmd.id] = t]
      /\ UNCHANGED <<ptr, source, launcher, alias, rundirs, entry, clone>>
  BY DEF SaveInstalledRecord, At, CommandFits, Ids
<1>10. t \in InstalledTrees /\ t.state = tree[cmd.id].state
  BY <1>9 DEF HomeTypes, CommandTypes, UnderWay, InstalledTrees
<1> HIDE DEF t
<1>0. Installed' = Installed
  BY <1>9, <1>10, TreeGoes DEF Installed
<1>1. HomeTypes'
  BY <1>9, <1>10, TreeGoes DEF End, HomeTypes
<1>2. CommandTypes'
  BY EndTypes DEF SaveInstalledRecord, CommandTypes
<1>3. CommandFits'
  BY DEF SaveInstalledRecord, End, Leave, CommandFits, Idle
<1>4. Fetched'
  BY DEF SaveInstalledRecord, End, Fetched
<1>5. InstallGoes'
  BY DEF SaveInstalledRecord, End, Leave, InstallGoes, Idle
<1>6. UninstallGoes'
  BY DEF SaveInstalledRecord, End, Leave, UninstallGoes, Idle
<1>7. LastHolds'
  BY DEF SaveInstalledRecord, At, End, Leave, LastHolds, InstallDelivers, UninstallForgets
<1>8. Unfailed'
  BY <1>0, <1>9 DEF End, Leave, Idle, Unfailed, Bear, Runs
<1> QED
  BY <1>1, <1>2, <1>3, <1>4, <1>5, <1>6, <1>7, <1>8

LEMMA CannotSaveKeeps ==
  ASSUME StoreInv, CannotSave PROVE StoreInv'
<1> USE DEF StoreInv
<1>0. Installed' = Installed
  BY DEF CannotSave, store, Installed
<1>1. HomeTypes'
  BY DEF CannotSave, store, WarnAndEnd, Happens, Abort, HomeTypes
<1>2. CommandTypes'
  BY AbortTypes DEF CannotSave, CommandTypes
<1>3. CommandFits'
  BY DEF CannotSave, WarnAndEnd, Leave, Abort, CommandFits, Idle
<1>4. Fetched'
  BY DEF CannotSave, store, WarnAndEnd, Happens, Abort, Fetched
<1>5. InstallGoes'
  BY DEF CannotSave, WarnAndEnd, Leave, Abort, InstallGoes, Idle
<1>6. UninstallGoes'
  BY DEF CannotSave, WarnAndEnd, Leave, Abort, UninstallGoes, Idle
<1>7. LastHolds'
  BY DEF CannotSave, At, WarnAndEnd, Leave, Abort, LastHolds, InstallDelivers, UninstallForgets
<1>8. Unfailed'
  BY DEF CannotSave, WarnAndEnd, Happens, Abort, Unfailed
<1> QED
  BY <1>1, <1>2, <1>3, <1>4, <1>5, <1>6, <1>7, <1>8

LEMMA GenerateLauncherKeeps ==
  ASSUME StoreInv, GenerateLauncher PROVE StoreInv'
<1> USE DEF StoreInv
<1>0. Installed' = Installed
  BY DEF GenerateLauncher, Installed
<1>9. /\ cmd.op \in {"install", "fork"} /\ cmd.pc = "launcher" /\ cmd.id \in Ids /\ launcher' = cmd.id /\ End
      /\ cmd.op = "fork" => cmd.id = Local
      /\ UNCHANGED <<ptr, tree, source, alias, rundirs, entry, clone>>
  BY DEF GenerateLauncher, At, CommandFits, Ids
<1>10. cmd.id = Local => ptr = [path |-> cmd.path, fork |-> cmd.fork] /\ cmd.path \in UserDirs
  BY <1>9 DEF InstallGoes, CommandFits
<1>11. cmd.id # Local => /\ cmd.id \in Remotes /\ tree[cmd.id].state = "whole" /\ tree[cmd.id].pure
                         /\ tree[cmd.id].record \in 1..tree[cmd.id].copy
  <2>1. cmd.id # Local => cmd.id \in Remotes /\ cmd.op = "install"
    BY <1>9 DEF Ids
  <2>2. cmd.id # Local => /\ tree[cmd.id].state = "whole" /\ tree[cmd.id].pure
                          /\ tree[cmd.id].record = cmd.sha /\ cmd.sha # 0 /\ cmd.sha <= tree[cmd.id].copy
    BY <1>9, <2>1 DEF InstallGoes
  <2>3. cmd.id # Local => cmd.sha \in Nat /\ tree[cmd.id].copy \in Nat
    BY <2>1 DEF CommandTypes, UnderWay, HomeTypes, InstalledTrees, Commits
  <2> QED BY <2>1, <2>2, <2>3
<1>12. cmd.id \in Installed
  <2>1. CASE cmd.id = Local
    <3>1. [path |-> cmd.path, fork |-> cmd.fork] \in Pointers
      BY <1>10, <2>1 DEF CommandTypes, UnderWay, Pointers
    <3> QED BY <1>10, <2>1, <3>1, StoreAssumption DEF Installed
  <2>2. CASE cmd.id # Local
    BY <1>11, <2>2 DEF Installed
  <2> QED BY <2>1, <2>2
<1>13. /\ cmd' = Idle /\ rough' = rough /\ upstream' = upstream /\ last'.id = cmd.id /\ last'.op = cmd.op
       /\ last'.path = cmd.path /\ last'.fork = cmd.fork /\ last'.how \in {"warned", "done"}
  BY <1>9 DEF End, Leave
<1>1. HomeTypes'
  BY <1>9, <1>13 DEF HomeTypes
<1>2. CommandTypes'
  BY EndTypes DEF GenerateLauncher, CommandTypes
<1>3. CommandFits'
  BY DEF GenerateLauncher, End, Leave, CommandFits, Idle
<1>4. Fetched'
  BY DEF GenerateLauncher, End, Fetched
<1>5. InstallGoes'
  BY DEF GenerateLauncher, End, Leave, InstallGoes, Idle
<1>6. UninstallGoes'
  BY DEF GenerateLauncher, End, Leave, UninstallGoes, Idle
<1>7. LastHolds'
  <2>1. InstallDelivers'
    BY <1>9, <1>10, <1>11, <1>13 DEF InstallDelivers
  <2> QED BY <1>9, <1>13, <2>1 DEF LastHolds, UninstallForgets
<1>8. Unfailed'
  BY <1>0, <1>9, <1>12, <1>13 DEF Idle, Unfailed, Bear, Runs
<1> QED
  BY <1>1, <1>2, <1>3, <1>4, <1>5, <1>6, <1>7, <1>8

LEMMA CannotWriteLauncherKeeps ==
  ASSUME StoreInv, CannotWriteLauncher PROVE StoreInv'
<1> USE DEF StoreInv
<1>0. Installed' = Installed
  BY DEF CannotWriteLauncher, store, Installed
<1>1. HomeTypes'
  BY DEF CannotWriteLauncher, store, Happens, Abort, HomeTypes
<1>2. CommandTypes'
  BY AbortTypes DEF CannotWriteLauncher, CommandTypes
<1>3. CommandFits'
  BY DEF CannotWriteLauncher, Leave, Abort, CommandFits, Idle
<1>4. Fetched'
  BY DEF CannotWriteLauncher, store, Happens, Abort, Fetched
<1>5. InstallGoes'
  BY DEF CannotWriteLauncher, Leave, Abort, InstallGoes, Idle
<1>6. UninstallGoes'
  BY DEF CannotWriteLauncher, Leave, Abort, UninstallGoes, Idle
<1>7. LastHolds'
  BY DEF CannotWriteLauncher, At, Leave, Abort, LastHolds, InstallDelivers, UninstallForgets
<1>8. Unfailed'
  BY DEF CannotWriteLauncher, Happens, Abort, Unfailed
<1> QED
  BY <1>1, <1>2, <1>3, <1>4, <1>5, <1>6, <1>7, <1>8

LEMMA UninstallKeeps ==
  ASSUME StoreInv, NEW id \in Ids, Uninstall(id) PROVE StoreInv'
<1> USE DEF StoreInv
<1>0. Installed' = Installed
  BY DEF Uninstall, Begin, store, Installed
<1>1. HomeTypes'
  BY DEF Uninstall, Begin, store, HomeTypes
<1>2. CommandTypes'
  BY BeginTypes DEF Uninstall, CommandTypes, Stages, Operations
<1>3. CommandFits'
  BY DEF Uninstall, Begin, CommandFits
<1>4. Fetched'
  BY DEF Uninstall, Begin, store, Fetched
<1>5. InstallGoes'
  BY DEF Uninstall, Begin, InstallGoes
<1>6. UninstallGoes'
  BY DEF Uninstall, Begin, UninstallGoes
<1>7. LastHolds'
  BY DEF Uninstall, Begin, NoCommand, LastHolds, InstallDelivers, UninstallForgets
<1>8. Unfailed'
  BY <1>0 DEF Uninstall, Begin, store, Idle, Unfailed, Bear
<1> QED
  BY <1>1, <1>2, <1>3, <1>4, <1>5, <1>6, <1>7, <1>8

LEMMA RemoveInstallKeeps ==
  ASSUME StoreInv, RemoveInstall PROVE StoreInv'
<1> USE DEF StoreInv
<1>9. /\ cmd.op = "uninstall" /\ cmd.pc = "remove" /\ cmd.id \in Ids /\ Then("rundir")
      /\ cmd.id = Local => ptr' = Nobody /\ tree' = tree
      /\ cmd.id # Local => tree' = [tree EXCEPT ![cmd.id] = NoTree] /\ ptr' = ptr /\ cmd.id \in Remotes
      /\ UNCHANGED <<source, launcher, alias, rundirs, entry, clone>>
  BY DEF RemoveInstall, At, CommandFits, Ids
<1>0. Installed' = Installed \ {cmd.id}
  <2>1. CASE cmd.id = Local
    BY <1>9, <2>1, StoreAssumption DEF Installed
  <2>2. CASE cmd.id # Local
    <3>1. tree'[cmd.id].state = "absent" /\ \A r \in Remotes : r # cmd.id => tree'[r] = tree[r]
      BY <1>9, <2>2, TreeGoes, NoTreeIs
    <3> QED BY <1>9, <2>2, <3>1 DEF Installed
  <2> QED BY <2>1, <2>2
<1>1. HomeTypes'
  <2>1. tree' \in [Remotes -> InstalledTrees] /\ ptr' \in Pointers \union {Nobody}
    BY <1>9, TreeGoes, NoTreeIs DEF HomeTypes
  <2> QED BY <1>9, <2>1, ThenGoes DEF HomeTypes
<1>2. CommandTypes'
  BY ThenTypes DEF RemoveInstall, CommandTypes, Stages
<1>3. CommandFits'
  BY DEF RemoveInstall, At, Then, CommandFits
<1>4. Fetched'
  BY DEF RemoveInstall, Then, Fetched
<1>5. InstallGoes'
  BY DEF RemoveInstall, At, Then, InstallGoes
<1>6. UninstallGoes'
  BY <1>0, <1>9, ThenGoes DEF UninstallGoes
<1>7. LastHolds'
  BY DEF RemoveInstall, At, Then, storeHistory, LastHolds, Idle, NoCommand, InstallDelivers, UninstallForgets
<1>8. Unfailed'
  BY <1>0 DEF RemoveInstall, At, Then, storeHistory, Unfailed, Bear
<1> QED
  BY <1>1, <1>2, <1>3, <1>4, <1>5, <1>6, <1>7, <1>8

LEMMA CannotRemovePointerKeeps ==
  ASSUME StoreInv, CannotRemovePointer PROVE StoreInv'
<1> USE DEF StoreInv
<1>0. Installed' = Installed
  BY DEF CannotRemovePointer, store, Installed
<1>1. HomeTypes'
  BY DEF CannotRemovePointer, store, Happens, Abort, HomeTypes
<1>2. CommandTypes'
  BY AbortTypes DEF CannotRemovePointer, CommandTypes
<1>3. CommandFits'
  BY DEF CannotRemovePointer, Leave, Abort, CommandFits, Idle
<1>4. Fetched'
  BY DEF CannotRemovePointer, store, Happens, Abort, Fetched
<1>5. InstallGoes'
  BY DEF CannotRemovePointer, Leave, Abort, InstallGoes, Idle
<1>6. UninstallGoes'
  BY DEF CannotRemovePointer, Leave, Abort, UninstallGoes, Idle
<1>7. LastHolds'
  BY DEF CannotRemovePointer, At, Leave, Abort, LastHolds, InstallDelivers, UninstallForgets
<1>8. Unfailed'
  BY DEF CannotRemovePointer, Happens, Abort, Unfailed
<1> QED
  BY <1>1, <1>2, <1>3, <1>4, <1>5, <1>6, <1>7, <1>8

LEMMA RemoveRunDirKeeps ==
  ASSUME StoreInv, RemoveRunDir PROVE StoreInv'
<1> USE DEF StoreInv
<1>0. Installed' = Installed
  BY DEF RemoveRunDir, Installed
<1>1. HomeTypes'
  BY DEF RemoveRunDir, Then, HomeTypes
<1>2. CommandTypes'
  BY ThenTypes DEF RemoveRunDir, CommandTypes, Stages
<1>3. CommandFits'
  BY DEF RemoveRunDir, At, Then, CommandFits
<1>4. Fetched'
  BY DEF RemoveRunDir, Then, Fetched
<1>5. InstallGoes'
  BY DEF RemoveRunDir, At, Then, InstallGoes
<1>6. UninstallGoes'
  BY <1>0 DEF RemoveRunDir, At, Then, UninstallGoes
<1>7. LastHolds'
  BY DEF RemoveRunDir, At, Then, storeHistory, LastHolds, Idle, NoCommand, InstallDelivers, UninstallForgets
<1>8. Unfailed'
  BY <1>0 DEF RemoveRunDir, Then, storeHistory, Unfailed, Bear, Runs
<1> QED
  BY <1>1, <1>2, <1>3, <1>4, <1>5, <1>6, <1>7, <1>8

LEMMA SettleLauncherKeeps ==
  ASSUME StoreInv, SettleLauncher PROVE StoreInv'
<1> USE DEF StoreInv
<1>0. Installed' = Installed
  BY DEF SettleLauncher, Installed
<1>9. /\ cmd.op = "uninstall" /\ cmd.pc = "launcher" /\ cmd.id \in Ids /\ Then("alias")
      /\ UNCHANGED <<ptr, tree, source, alias, rundirs, entry, clone>>
  BY DEF SettleLauncher, At, CommandFits
<1>10. launcher' \in (IF Installed = {} THEN {Nobody} ELSE Installed)
  <2>1. CASE Installed = {}
    BY <2>1 DEF SettleLauncher
  <2>2. CASE Installed # {} /\ launcher \in Installed
    BY <2>2 DEF SettleLauncher
  <2>3. CASE Installed # {} /\ launcher \notin Installed
    BY <2>3, FirstIsInstalled, InstalledIds DEF SettleLauncher
  <2> QED BY <2>1, <2>2, <2>3
<1>1. HomeTypes'
  BY <1>9, <1>10, InstalledIds, ThenGoes DEF HomeTypes
<1>2. CommandTypes'
  BY ThenTypes DEF SettleLauncher, CommandTypes, Stages
<1>3. CommandFits'
  BY DEF SettleLauncher, At, Then, CommandFits
<1>4. Fetched'
  BY DEF SettleLauncher, Then, Fetched
<1>5. InstallGoes'
  BY DEF SettleLauncher, At, Then, InstallGoes
<1>6. UninstallGoes'
  BY <1>0, <1>9, <1>10, ThenGoes DEF UninstallGoes, Runs
<1>7. LastHolds'
  BY DEF SettleLauncher, At, Then, storeHistory, LastHolds, Idle, NoCommand, InstallDelivers, UninstallForgets
<1>8. Unfailed'
  BY <1>0 DEF SettleLauncher, Then, storeHistory, Unfailed, Bear, Runs
<1> QED
  BY <1>1, <1>2, <1>3, <1>4, <1>5, <1>6, <1>7, <1>8

LEMMA SettleAliasKeeps ==
  ASSUME StoreInv, SettleAlias PROVE StoreInv'
<1> USE DEF StoreInv
<1>0. Installed' = Installed
  BY DEF SettleAlias, Installed
<1>9. /\ cmd.op = "uninstall" /\ cmd.pc = "alias" /\ cmd.id \in Ids /\ cmd # Idle /\ cmd.id \notin Installed
      /\ UNCHANGED <<ptr, tree, source, launcher, rundirs, entry, clone>>
      /\ IF Installed = {} THEN Then("entry") ELSE End
  BY DEF SettleAlias, At, CommandFits, UninstallGoes, Idle
<1>10. alias' \in {Nobody} \union Installed \union {alias} /\ alias' # cmd.id /\ (Installed = {} => alias' = Nobody)
  <2>1. cmd.id # Nobody
    BY <1>9, StoreAssumption DEF Ids
  <2>2. CASE Installed = {}
    BY <2>1, <2>2 DEF SettleAlias
  <2>3. CASE Installed # {} /\ alias # cmd.id
    BY <2>3 DEF SettleAlias
  <2>4. CASE Installed # {} /\ alias = cmd.id
    <3>1. FirstOf(Installed) \in Installed
      BY <2>4, FirstIsInstalled, InstalledIds
    <3>2. alias' \in {FirstOf(Installed), Nobody}
      BY <2>4 DEF SettleAlias
    <3> QED BY <1>9, <2>1, <2>4, <3>1, <3>2
  <2> QED BY <2>2, <2>3, <2>4
<1>11. CASE Installed = {}
  <2>1. Then("entry")
    BY <1>9, <1>11
  <2>2. HomeTypes'
    BY <1>9, <1>10, <1>11, <2>1, ThenGoes DEF HomeTypes
  <2>3. CommandTypes'
    BY <2>1, ThenTypes DEF Stages
  <2>4. CommandFits'
    BY <1>9, <2>1, ThenGoes DEF CommandFits
  <2>5. Fetched' /\ InstallGoes'
    BY <1>9, <2>1, ThenGoes DEF Fetched, InstallGoes
  <2>6. UninstallGoes'
    BY <1>0, <1>9, <1>10, <1>11, <2>1, ThenGoes DEF UninstallGoes, Runs
  <2>7. LastHolds'
    BY <1>9, <2>1, ThenGoes DEF LastHolds, NoCommand, InstallDelivers, UninstallForgets
  <2>8. Unfailed'
    BY <1>9, <1>10, <1>11, <2>1, ThenGoes DEF Unfailed, Bear
  <2> QED BY <2>2, <2>3, <2>4, <2>5, <2>6, <2>7, <2>8
<1>12. CASE Installed # {}
  <2>1. /\ cmd' = Idle /\ rough' = rough /\ upstream' = upstream /\ last'.id = cmd.id /\ last'.op = "uninstall"
        /\ last'.how = (IF cmd.warned THEN "warned" ELSE "done") /\ CommandTypes'
    BY <1>9, <1>12, EndTypes DEF End, Leave
  <2>2. HomeTypes'
    BY <1>9, <1>10, <1>12, <2>1, InstalledIds DEF HomeTypes
  <2>3. CommandFits' /\ InstallGoes' /\ UninstallGoes'
    BY <2>1, IdleFits
  <2>4. Fetched'
    BY <1>9, <2>1 DEF Fetched
  <2>5. ~cmd.warned => cmd.id \notin rundirs /\ launcher \in Installed
    BY <1>9, <1>12 DEF UninstallGoes, Runs
  <2>6. LastHolds'
    BY <1>0, <1>9, <1>10, <1>12, <2>1, <2>5 DEF LastHolds, InstallDelivers, UninstallForgets
  <2>7. Unfailed'
    <3> SUFFICES ASSUME ~rough PROVE Unfailed'
      BY <2>1 DEF Unfailed
    <3>1. ~cmd.warned /\ alias \in {Nobody} \union Installed \union {cmd.id} /\ rundirs \subseteq Installed \union {cmd.id}
      BY <1>9 DEF Unfailed, Bear
    <3> QED BY <1>0, <1>9, <1>10, <1>12, <2>1, <2>5, <3>1 DEF Unfailed, Bear, Runs, Idle
  <2> QED BY <2>1, <2>2, <2>3, <2>4, <2>6, <2>7
<1> QED
  BY <1>11, <1>12

LEMMA RemoveSourceEntryKeeps ==
  ASSUME StoreInv, RemoveSourceEntry PROVE StoreInv'
<1> USE DEF StoreInv
<1>0. Installed' = Installed
  BY DEF RemoveSourceEntry, Installed
<1>9. /\ cmd.op = "uninstall" /\ cmd.pc = "entry" /\ cmd.id \in Ids /\ entry' = FALSE /\ cmd.id \notin Installed /\ Installed = {}
      /\ UNCHANGED <<ptr, tree, source, launcher, alias, rundirs, clone>>
      /\ ~cmd.warned => cmd.id \notin rundirs /\ launcher = Nobody /\ alias = Nobody
  BY DEF RemoveSourceEntry, At, CommandFits, UninstallGoes, Runs
<1>10. /\ cmd' = Idle /\ rough' = rough /\ upstream' = upstream /\ last'.id = cmd.id /\ last'.op = "uninstall"
       /\ last'.how = (IF cmd.warned THEN "warned" ELSE "done")
  BY <1>9 DEF RemoveSourceEntry, End, Leave
<1>1. HomeTypes'
  BY DEF RemoveSourceEntry, End, HomeTypes
<1>2. CommandTypes'
  BY EndTypes DEF RemoveSourceEntry, CommandTypes
<1>3. CommandFits'
  BY DEF RemoveSourceEntry, End, Leave, CommandFits, Idle
<1>4. Fetched'
  BY DEF RemoveSourceEntry, End, Fetched
<1>5. InstallGoes'
  BY DEF RemoveSourceEntry, End, Leave, InstallGoes, Idle
<1>6. UninstallGoes'
  BY DEF RemoveSourceEntry, End, Leave, UninstallGoes, Idle
<1>7. LastHolds'
  <2>1. cmd.id # Nobody
    BY <1>9, StoreAssumption DEF Ids
  <2> QED BY <1>0, <1>9, <1>10, <2>1 DEF LastHolds, InstallDelivers, UninstallForgets
<1>8. Unfailed'
  <2> SUFFICES ASSUME ~rough PROVE Unfailed'
    BY <1>10 DEF Unfailed
  <2>1. ~cmd.warned /\ rundirs \subseteq Installed \union {cmd.id}
    BY <1>9 DEF Unfailed, Bear
  <2> QED BY <1>0, <1>9, <1>10, <2>1 DEF Unfailed, Bear, Runs, Idle
<1> QED
  BY <1>1, <1>2, <1>3, <1>4, <1>5, <1>6, <1>7, <1>8

LEMMA CannotSettleKeeps ==
  ASSUME StoreInv, CannotSettle PROVE StoreInv'
<1> USE DEF StoreInv
<1>0. Installed' = Installed
  BY DEF CannotSettle, Installed
<1>1. HomeTypes'
  BY DEF CannotSettle, Warn, WarnAndEnd, Happens, HomeTypes
<1>2. CommandTypes'
  BY WarnTypes, AbortTypes DEF CannotSettle, CommandTypes, Stages
<1>3. CommandFits'
  <2>1. CASE cmd' = Idle
    BY <2>1, IdleFits
  <2>2. CASE cmd' # Idle
    BY <2>2 DEF CannotSettle, Warn, WarnAndEnd, CommandFits, Leave, CommandTypes, UnderWay
  <2> QED BY <2>1, <2>2
<1>4. Fetched'
  BY DEF CannotSettle, Warn, WarnAndEnd, Happens, Fetched
<1>5. InstallGoes'
  <2>1. CASE cmd' = Idle
    BY <2>1, IdleFits
  <2>2. CASE cmd' # Idle
    BY <2>2 DEF CannotSettle, Warn, WarnAndEnd, InstallGoes, Leave, CommandTypes, UnderWay
  <2> QED BY <2>1, <2>2
<1>6. UninstallGoes'
  <2>1. CASE cmd' = Idle
    BY <2>1, IdleFits
  <2>2. CASE cmd' # Idle
    BY <1>0, <2>2 DEF CannotSettle, Warn, WarnAndEnd, UninstallGoes, Leave, CommandTypes, UnderWay
  <2> QED BY <2>1, <2>2
<1>7. LastHolds'
  BY DEF CannotSettle, Warn, WarnAndEnd, Leave, LastHolds, Idle, NoCommand, InstallDelivers, UninstallForgets
<1>8. Unfailed'
  BY DEF CannotSettle, Warn, WarnAndEnd, Happens, Unfailed
<1> QED
  BY <1>1, <1>2, <1>3, <1>4, <1>5, <1>6, <1>7, <1>8

LEMMA ForkKeeps ==
  ASSUME StoreInv, NEW r \in Remotes, NEW d \in UserDirs, Fork(r, d) PROVE StoreInv'
<1> USE DEF StoreInv
<1>0. Installed' = Installed
  BY DEF Fork, Begin, store, Installed
<1>1. HomeTypes'
  BY DEF Fork, store, HomeTypes
<1>2. CommandTypes'
  <2>1. /\ "fork" \in Operations /\ "dest" \in Stages /\ Local \in Ids /\ last' = NoCommand
        /\ issued < MaxCommands /\ issued' = issued + 1 /\ rough' = rough /\ faults' = faults
        /\ cmd' = [Idle EXCEPT !.op = "fork", !.id = Local, !.path = d, !.pc = "dest", !.fork = r]
    BY DEF Fork, Operations, Stages, Ids
  <2> QED BY <2>1, BeginLocalTypes
<1>3. CommandFits'
  BY DEF Fork, CommandFits
<1>4. Fetched'
  BY DEF Fork, store, Fetched
<1>5. InstallGoes'
  BY DEF Fork, InstallGoes
<1>6. UninstallGoes'
  BY DEF Fork, UninstallGoes
<1>7. LastHolds'
  BY DEF Fork, NoCommand, LastHolds, InstallDelivers, UninstallForgets
<1>8. Unfailed'
  BY <1>0 DEF Fork, store, Idle, Unfailed, Bear
<1> QED
  BY <1>1, <1>2, <1>3, <1>4, <1>5, <1>6, <1>7, <1>8

LEMMA MakeDestKeeps ==
  ASSUME StoreInv, MakeDest PROVE StoreInv'
<1> USE DEF StoreInv
<1>0. Installed' = Installed
  BY DEF MakeDest, Installed
<1>1. HomeTypes'
  BY DEF MakeDest, Then, HomeTypes
<1>2. CommandTypes'
  BY ThenTypes DEF MakeDest, CommandTypes, Stages
<1>3. CommandFits'
  BY DEF MakeDest, At, Then, CommandFits
<1>4. Fetched'
  BY DEF MakeDest, Then, Fetched
<1>5. InstallGoes'
  BY DEF MakeDest, At, Then, InstallGoes
<1>6. UninstallGoes'
  BY DEF MakeDest, At, Then, UninstallGoes
<1>7. LastHolds'
  BY DEF MakeDest, At, Then, storeHistory, LastHolds, Idle, NoCommand, InstallDelivers, UninstallForgets
<1>8. Unfailed'
  BY <1>0 DEF MakeDest, Then, storeHistory, Unfailed, Bear, Runs
<1> QED
  BY <1>1, <1>2, <1>3, <1>4, <1>5, <1>6, <1>7, <1>8

LEMMA UndoForkKeeps ==
  ASSUME StoreInv, UndoFork PROVE StoreInv'
<1> USE DEF StoreInv
<1>0. /\ Installed' \union {cmd.id} = Installed \union {cmd.id}
     /\ cmd.id \in Ids
  BY DEF UndoFork, Installed, CommandFits, Ids
<1>1. HomeTypes'
  BY DEF UndoFork, Happens, Abort, HomeTypes
<1>2. CommandTypes'
  BY AbortTypes DEF UndoFork, CommandTypes
<1>3. CommandFits'
  BY DEF UndoFork, Leave, Abort, CommandFits, Idle
<1>4. Fetched'
  BY DEF UndoFork, Happens, Abort, Fetched
<1>5. InstallGoes'
  BY DEF UndoFork, Leave, Abort, InstallGoes, Idle
<1>6. UninstallGoes'
  BY DEF UndoFork, Leave, Abort, UninstallGoes, Idle
<1>7. LastHolds'
  BY DEF UndoFork, Leave, Abort, LastHolds, InstallDelivers, UninstallForgets
<1>8. Unfailed'
  BY DEF UndoFork, Happens, Abort, Unfailed
<1> QED
  BY <1>1, <1>2, <1>3, <1>4, <1>5, <1>6, <1>7, <1>8

LEMMA RunKeeps ==
  ASSUME StoreInv, NEW id \in Ids, Run(id) PROVE StoreInv'
<1> USE DEF StoreInv
<1>0. Installed' = Installed
  BY DEF Run, Begin, store, Installed
<1>1. HomeTypes'
  BY DEF Run, Begin, store, HomeTypes
<1>2. CommandTypes'
  BY BeginTypes DEF Run, CommandTypes, Stages, Operations
<1>3. CommandFits'
  BY DEF Run, Begin, CommandFits
<1>4. Fetched'
  BY DEF Run, Begin, store, Fetched
<1>5. InstallGoes'
  BY DEF Run, Begin, InstallGoes
<1>6. UninstallGoes'
  BY DEF Run, Begin, UninstallGoes
<1>7. LastHolds'
  BY DEF Run, Begin, NoCommand, LastHolds, InstallDelivers, UninstallForgets
<1>8. Unfailed'
  <2>1. cmd' = [Idle EXCEPT !.op = "run", !.id = id, !.path = Nobody, !.pc = "assemble"] /\ cmd = Idle /\ rough' = rough
        /\ UNCHANGED <<alias, rundirs, launcher>> /\ id \in Installed
    BY DEF Run, Begin, store, Loads
  <2>2. cmd'.op = "run" /\ cmd'.id = id /\ cmd'.warned = FALSE /\ cmd.op = "none"
    BY <2>1 DEF Idle
  <2> QED BY <1>0, <2>1, <2>2 DEF Unfailed, Bear, Runs
<1> QED
  BY <1>1, <1>2, <1>3, <1>4, <1>5, <1>6, <1>7, <1>8

LEMMA AssembleRunDirKeeps ==
  ASSUME StoreInv, AssembleRunDir PROVE StoreInv'
<1> USE DEF StoreInv
<1>0. Installed' = Installed
  BY DEF AssembleRunDir, Installed
<1>1. HomeTypes'
  <2>1. cmd.id \in Ids /\ Then("alias")
    BY DEF AssembleRunDir, At, CommandFits
  <2> QED BY <2>1, ThenGoes DEF AssembleRunDir, HomeTypes
<1>2. CommandTypes'
  BY ThenTypes DEF AssembleRunDir, CommandTypes, Stages
<1>3. CommandFits'
  BY DEF AssembleRunDir, At, Then, CommandFits
<1>4. Fetched'
  BY DEF AssembleRunDir, Then, Fetched
<1>5. InstallGoes'
  BY DEF AssembleRunDir, At, Then, InstallGoes
<1>6. UninstallGoes'
  BY DEF AssembleRunDir, At, Then, UninstallGoes
<1>7. LastHolds'
  BY DEF AssembleRunDir, At, Then, storeHistory, LastHolds, Idle, NoCommand, InstallDelivers, UninstallForgets
<1>8. Unfailed'
  BY <1>0 DEF AssembleRunDir, At, Then, storeHistory, Unfailed, Bear, Runs
<1> QED
  BY <1>1, <1>2, <1>3, <1>4, <1>5, <1>6, <1>7, <1>8

LEMMA UpdateLegacyRunAliasKeeps ==
  ASSUME StoreInv, UpdateLegacyRunAlias PROVE StoreInv'
<1> USE DEF StoreInv
<1>0. Installed' = Installed
  BY DEF UpdateLegacyRunAlias, Installed
<1>1. HomeTypes'
  <2>1. cmd.id \in Ids
    BY DEF UpdateLegacyRunAlias, At, CommandFits
  <2> QED BY <2>1 DEF UpdateLegacyRunAlias, End, HomeTypes
<1>2. CommandTypes'
  BY EndTypes DEF UpdateLegacyRunAlias, CommandTypes
<1>3. CommandFits'
  BY DEF UpdateLegacyRunAlias, End, Leave, CommandFits, Idle
<1>4. Fetched'
  BY DEF UpdateLegacyRunAlias, End, Fetched
<1>5. InstallGoes'
  BY DEF UpdateLegacyRunAlias, End, Leave, InstallGoes, Idle
<1>6. UninstallGoes'
  BY DEF UpdateLegacyRunAlias, End, Leave, UninstallGoes, Idle
<1>7. LastHolds'
  BY DEF UpdateLegacyRunAlias, At, End, Leave, LastHolds, InstallDelivers, UninstallForgets
<1>8. Unfailed'
  BY <1>0 DEF UpdateLegacyRunAlias, At, End, Leave, Unfailed, Idle, Bear, Runs
<1> QED
  BY <1>1, <1>2, <1>3, <1>4, <1>5, <1>6, <1>7, <1>8

LEMMA CannotRunKeeps ==
  ASSUME StoreInv, CannotRun PROVE StoreInv'
<1> USE DEF StoreInv
<1>0. Installed' = Installed
  BY DEF CannotRun, Warn, Installed
<1>1. HomeTypes'
  BY DEF CannotRun, WarnAndEnd, Happens, Abort, HomeTypes
<1>2. CommandTypes'
  BY AbortTypes DEF CannotRun, CommandTypes
<1>3. CommandFits'
  BY DEF CannotRun, WarnAndEnd, Leave, Abort, CommandFits, Idle
<1>4. Fetched'
  BY DEF CannotRun, WarnAndEnd, Happens, Abort, Fetched
<1>5. InstallGoes'
  BY DEF CannotRun, WarnAndEnd, Leave, Abort, InstallGoes, Idle
<1>6. UninstallGoes'
  BY DEF CannotRun, WarnAndEnd, Leave, Abort, UninstallGoes, Idle
<1>7. LastHolds'
  BY DEF CannotRun, WarnAndEnd, Leave, Abort, LastHolds, InstallDelivers, UninstallForgets
<1>8. Unfailed'
  BY DEF CannotRun, WarnAndEnd, Happens, Abort, Unfailed
<1> QED
  BY <1>1, <1>2, <1>3, <1>4, <1>5, <1>6, <1>7, <1>8

LEMMA PruneKeeps ==
  ASSUME StoreInv, Prune PROVE StoreInv'
<1> USE DEF StoreInv
<1>0. Installed' = Installed
  BY DEF Prune, Begin, store, Installed
<1>1. HomeTypes'
  BY DEF Prune, Begin, store, HomeTypes
<1>2. CommandTypes'
  BY BeginTypes DEF Prune, CommandTypes, Stages, Operations
<1>3. CommandFits'
  BY DEF Prune, Begin, CommandFits
<1>4. Fetched'
  BY DEF Prune, Begin, store, Fetched
<1>5. InstallGoes'
  BY DEF Prune, Begin, InstallGoes
<1>6. UninstallGoes'
  BY DEF Prune, Begin, UninstallGoes
<1>7. LastHolds'
  BY DEF Prune, Begin, NoCommand, LastHolds, InstallDelivers, UninstallForgets
<1>8. Unfailed'
  BY <1>0 DEF Prune, Begin, store, Idle, Unfailed, Bear, Runs
<1> QED
  BY <1>1, <1>2, <1>3, <1>4, <1>5, <1>6, <1>7, <1>8

LEMMA PrunePointersKeeps ==
  ASSUME StoreInv, PrunePointers PROVE StoreInv'
<1> USE DEF StoreInv
<1>0. Installed' = Installed
  BY DEF PrunePointers, store, Installed
<1>1. HomeTypes'
  BY DEF PrunePointers, Then, store, HomeTypes
<1>2. CommandTypes'
  BY ThenTypes DEF PrunePointers, CommandTypes, Stages
<1>3. CommandFits'
  BY DEF PrunePointers, At, Then, CommandFits
<1>4. Fetched'
  BY DEF PrunePointers, Then, store, Fetched
<1>5. InstallGoes'
  BY DEF PrunePointers, At, Then, InstallGoes
<1>6. UninstallGoes'
  BY DEF PrunePointers, At, Then, UninstallGoes
<1>7. LastHolds'
  BY DEF PrunePointers, At, Then, storeHistory, LastHolds, Idle, NoCommand, InstallDelivers, UninstallForgets
<1>8. Unfailed'
  BY <1>0 DEF PrunePointers, Then, storeHistory, store, Unfailed, Bear, Runs
<1> QED
  BY <1>1, <1>2, <1>3, <1>4, <1>5, <1>6, <1>7, <1>8

LEMMA PruneLaunchersKeeps ==
  ASSUME StoreInv, PruneLaunchers PROVE StoreInv'
<1> USE DEF StoreInv
<1>0. Installed' = Installed
  BY DEF PruneLaunchers, Installed
<1>1. HomeTypes'
  BY DEF PruneLaunchers, Then, HomeTypes
<1>2. CommandTypes'
  BY ThenTypes DEF PruneLaunchers, CommandTypes, Stages
<1>3. CommandFits'
  BY DEF PruneLaunchers, At, Then, CommandFits
<1>4. Fetched'
  BY DEF PruneLaunchers, Then, Fetched
<1>5. InstallGoes'
  BY DEF PruneLaunchers, At, Then, InstallGoes
<1>6. UninstallGoes'
  BY DEF PruneLaunchers, At, Then, UninstallGoes
<1>7. LastHolds'
  BY DEF PruneLaunchers, At, Then, storeHistory, LastHolds, Idle, NoCommand, InstallDelivers, UninstallForgets
<1>8. Unfailed'
  BY <1>0 DEF PruneLaunchers, Then, storeHistory, Unfailed, Bear, Runs
<1> QED
  BY <1>1, <1>2, <1>3, <1>4, <1>5, <1>6, <1>7, <1>8

LEMMA PruneRunDirsKeeps ==
  ASSUME StoreInv, PruneRunDirs PROVE StoreInv'
<1> USE DEF StoreInv
<1>0. Installed' = Installed
  BY DEF PruneRunDirs, Installed
<1>1. HomeTypes'
  BY DEF PruneRunDirs, End, HomeTypes
<1>2. CommandTypes'
  BY EndTypes DEF PruneRunDirs, CommandTypes
<1>3. CommandFits'
  BY DEF PruneRunDirs, End, Leave, CommandFits, Idle
<1>4. Fetched'
  BY DEF PruneRunDirs, End, Fetched
<1>5. InstallGoes'
  BY DEF PruneRunDirs, End, Leave, InstallGoes, Idle
<1>6. UninstallGoes'
  BY DEF PruneRunDirs, End, Leave, UninstallGoes, Idle
<1>7. LastHolds'
  BY DEF PruneRunDirs, At, End, Leave, LastHolds, InstallDelivers, UninstallForgets
<1>8. Unfailed'
  BY <1>0 DEF PruneRunDirs, At, End, Leave, Unfailed, Idle, Bear, Runs
<1> QED
  BY <1>1, <1>2, <1>3, <1>4, <1>5, <1>6, <1>7, <1>8

LEMMA CannotPruneKeeps ==
  ASSUME StoreInv, CannotPrune PROVE StoreInv'
<1> USE DEF StoreInv
<1>0. Installed' = Installed
  BY DEF CannotPrune, store, Installed
<1>1. HomeTypes'
  BY DEF CannotPrune, store, Warn, WarnAndEnd, Happens, HomeTypes
<1>2. CommandTypes'
  BY WarnTypes, AbortTypes DEF CannotPrune, CommandTypes, Stages
<1>3. CommandFits'
  <2>1. CASE cmd' = Idle
    BY <2>1, IdleFits
  <2>2. CASE cmd' # Idle
    BY <2>2 DEF CannotPrune, Warn, WarnAndEnd, CommandFits, Leave, CommandTypes, UnderWay
  <2> QED BY <2>1, <2>2
<1>4. Fetched'
  BY DEF CannotPrune, store, Warn, WarnAndEnd, Happens, Fetched
<1>5. InstallGoes'
  <2>1. CASE cmd' = Idle
    BY <2>1, IdleFits
  <2>2. CASE cmd' # Idle
    BY <2>2 DEF CannotPrune, Warn, WarnAndEnd, InstallGoes, Leave, CommandTypes, UnderWay
  <2> QED BY <2>1, <2>2
<1>6. UninstallGoes'
  <2>1. CASE cmd' = Idle
    BY <2>1, IdleFits
  <2>2. CASE cmd' # Idle
    BY <2>2 DEF CannotPrune, Warn, WarnAndEnd, UninstallGoes, Leave, CommandTypes, UnderWay
  <2> QED BY <2>1, <2>2
<1>7. LastHolds'
  BY DEF CannotPrune, Warn, WarnAndEnd, Leave, LastHolds, Idle, NoCommand, InstallDelivers, UninstallForgets
<1>8. Unfailed'
  BY DEF CannotPrune, Warn, WarnAndEnd, Happens, Unfailed
<1> QED
  BY <1>1, <1>2, <1>3, <1>4, <1>5, <1>6, <1>7, <1>8

LEMMA KillKeeps ==
  ASSUME StoreInv, Kill PROVE StoreInv'
<1> USE DEF StoreInv
<1>0. /\ cmd' = Idle /\ last' = NoCommand /\ rough' = TRUE /\ upstream' = upstream
      /\ UNCHANGED <<ptr, source, launcher, alias, rundirs, entry, clone>>
  BY DEF Kill, Happens
<1>1. HomeTypes'
  <2>1. tree' \in [Remotes -> InstalledTrees]
    <3>1. CASE cmd.id \in Remotes
      <4>1. PICK t \in Halfway : tree' = [tree EXCEPT ![cmd.id] = t]
        BY <3>1 DEF Kill
      <4> QED BY <3>1, <4>1, HalfwayTrees, TreeGoes
    <3>2. CASE cmd.id \notin Remotes
      BY <3>2 DEF Kill, HomeTypes
    <3> QED BY <3>1, <3>2
  <2> QED BY <1>0, <2>1 DEF HomeTypes
<1>2. CommandTypes'
  BY HappensTypes, IdleUnderWay DEF Kill, CommandTypes
<1>3. CommandFits'
  BY DEF Kill, CommandFits, Idle
<1>4. Fetched'
  BY DEF Kill, Happens, Fetched
<1>5. InstallGoes'
  BY DEF Kill, InstallGoes, Idle
<1>6. UninstallGoes'
  BY DEF Kill, UninstallGoes, Idle
<1>7. LastHolds'
  BY DEF Kill, LastHolds, NoCommand, InstallDelivers, UninstallForgets
<1>8. Unfailed'
  BY DEF Kill, Happens, Unfailed
<1> QED
  BY <1>1, <1>2, <1>3, <1>4, <1>5, <1>6, <1>7, <1>8

LEMMA OtherFetchKeeps ==
  ASSUME StoreInv, NEW r \in Remotes, OtherFetch(r) PROVE StoreInv'
<1> USE DEF StoreInv
<1>0. Installed' = Installed
  BY DEF OtherFetch, Installed
<1>1. HomeTypes'
  BY DEF OtherFetch, HomeTypes
<1>2. CommandTypes'
  BY DEF OtherFetch, storeHistory, CommandTypes
<1>3. CommandFits'
  BY DEF OtherFetch, CommandFits
<1>4. Fetched'
  BY CloneGoes DEF OtherFetch, Fetched, HomeTypes, Commits
<1>5. InstallGoes'
  <2>1. \A q \in Remotes : clone[q] <= clone'[q]
    BY CloneGoes DEF OtherFetch, Fetched, HomeTypes, Commits
  <2>2. cmd.sha \in Nat /\ \A q \in Remotes : clone[q] \in Nat /\ clone'[q] \in Nat
    BY <1>1 DEF CommandTypes, UnderWay, HomeTypes, Commits
  <2>3. UNCHANGED <<cmd, ptr, tree>>
    BY DEF OtherFetch
  <2>4. \A q \in Remotes : cmd.sha <= clone[q] => cmd.sha <= clone'[q]
    BY <2>1, <2>2
  <2> QED BY <2>3, <2>4 DEF InstallGoes
<1>6. UninstallGoes'
  BY <1>0 DEF OtherFetch, UninstallGoes, Runs
<1>7. LastHolds'
  BY <1>0 DEF OtherFetch, storeHistory, LastHolds, InstallDelivers, UninstallForgets
<1>8. Unfailed'
  BY <1>0 DEF OtherFetch, storeHistory, Unfailed, Bear, Runs
<1> QED
  BY <1>1, <1>2, <1>3, <1>4, <1>5, <1>6, <1>7, <1>8

LEMMA PushKeeps ==
  ASSUME StoreInv, NEW r \in Remotes, Push(r) PROVE StoreInv'
<1> USE DEF StoreInv
<1>0. Installed' = Installed
  BY DEF Push, store, Installed
<1>1. HomeTypes'
  BY StoreAssumption DEF Push, store, HomeTypes, Commits
<1>2. CommandTypes'
  BY DEF Push, storeHistory, CommandTypes
<1>3. CommandFits'
  BY DEF Push, CommandFits
<1>4. Fetched'
  <2>1. \A q \in Remotes : upstream[q] \in Nat /\ clone[q] \in Nat
    BY DEF HomeTypes, Commits
  <2>2. upstream'[r] = upstream[r] + 1 /\ \A q \in Remotes : q # r => upstream'[q] = upstream[q]
    BY DEF Push, HomeTypes
  <2> QED BY <2>1, <2>2 DEF Push, store, Fetched
<1>5. InstallGoes'
  BY DEF Push, store, InstallGoes
<1>6. UninstallGoes'
  BY <1>0 DEF Push, store, UninstallGoes, Runs
<1>7. LastHolds'
  BY <1>0 DEF Push, storeHistory, store, LastHolds, InstallDelivers, UninstallForgets
<1>8. Unfailed'
  BY <1>0 DEF Push, storeHistory, store, Unfailed, Bear, Runs
<1> QED
  BY <1>1, <1>2, <1>3, <1>4, <1>5, <1>6, <1>7, <1>8

LEMMA UserChangesKeeps ==
  ASSUME StoreInv, UserChanges PROVE StoreInv'
<1> USE DEF StoreInv
<1>0. Installed' = Installed
  BY DEF UserChanges, Installed
<1>1. HomeTypes'
  BY DEF UserChanges, HomeTypes
<1>2. CommandTypes'
  BY DEF UserChanges, storeHistory, CommandTypes
<1>3. CommandFits'
  BY DEF UserChanges, CommandFits
<1>4. Fetched'
  BY DEF UserChanges, Fetched
<1>5. InstallGoes'
  BY DEF UserChanges, InstallGoes
<1>6. UninstallGoes'
  BY DEF UserChanges, UninstallGoes, Idle
<1>7. LastHolds'
  BY <1>0 DEF UserChanges, storeHistory, LastHolds, InstallDelivers, UninstallForgets
<1>8. Unfailed'
  BY <1>0 DEF UserChanges, storeHistory, Unfailed, Bear, Runs
<1> QED
  BY <1>1, <1>2, <1>3, <1>4, <1>5, <1>6, <1>7, <1>8

\* The invariant is one: it holds at the start and every step keeps it.
THEOREM StoreInvariant == StoreSpec => []StoreInv
<1>1. ASSUME StoreInit PROVE StoreInv
  <2> USE <1>1 DEF StoreInit
  <2>1. HomeTypes
    BY NoTreeIs, StoreAssumption DEF HomeTypes, Commits
  <2>2. CommandTypes
    <3>1. 0 \in 0..MaxCommands /\ 0 \in 0..MaxFaults
      BY StoreAssumption
    <3> QED BY <3>1, IdleUnderWay DEF CommandTypes
  <2>3. CommandFits /\ Fetched /\ InstallGoes /\ UninstallGoes
    BY DEF CommandFits, Fetched, InstallGoes, UninstallGoes, Idle
  <2>4. Installed = {}
    BY NoTreeIs DEF Installed
  <2>5. LastHolds /\ Unfailed
    BY <2>4 DEF LastHolds, InstallDelivers, UninstallForgets, Unfailed, Bear, Runs, Idle, NoCommand
  <2> QED BY <2>1, <2>2, <2>3, <2>5 DEF StoreInv
<1>2. ASSUME StoreInv, [StoreNext]_storeVars PROVE StoreInv'
  <2>0. CASE UNCHANGED storeVars
    BY <1>2, <2>0 DEF storeVars, store, storeHistory, StoreInv, HomeTypes, CommandTypes, CommandFits, Fetched, InstallGoes,
       UninstallGoes, LastHolds, InstallDelivers, UninstallForgets, Unfailed, Bear, Runs, Installed
  <2>1. CASE \E r \in Remotes : InstallRemote(r) \/ Update(r) \/ OtherFetch(r) \/ Push(r)
    BY <1>2, <2>1, InstallRemoteKeeps, UpdateKeeps, OtherFetchKeeps, PushKeeps
  <2>2. CASE \E d \in UserDirs : InstallLocal(d) \/ \E r \in Remotes : Fork(r, d)
    BY <1>2, <2>2, InstallLocalKeeps, ForkKeeps
  <2>3. CASE \E id \in Ids : Uninstall(id) \/ Run(id)
    BY <1>2, <2>3, UninstallKeeps, RunKeeps
  <2>4. CASE Prune \/ MakeDest \/ AssembleRunDir \/ UpdateLegacyRunAlias \/ PrunePointers \/ PruneLaunchers
             \/ PruneRunDirs \/ UserChanges
    BY <1>2, <2>4, PruneKeeps, MakeDestKeeps, AssembleRunDirKeeps, UpdateLegacyRunAliasKeeps, PrunePointersKeeps,
       PruneLaunchersKeeps, PruneRunDirsKeeps, UserChangesKeeps
  <2>5. CASE Installing
    BY <1>2, <2>5, EnsureRepoKeeps, ClearTreeKeeps, CopyTreeKeeps, FetchIncludesKeeps, DropPointerKeeps, SaveRecordKeeps,
       SaveInstalledRecordKeeps, GenerateLauncherKeeps DEF Installing
  <2>6. CASE Uninstalling
    BY <1>2, <2>6, RemoveInstallKeeps, RemoveRunDirKeeps, SettleLauncherKeeps, SettleAliasKeeps, RemoveSourceEntryKeeps
       DEF Uninstalling
  <2>7. CASE Failing
    BY <1>2, <2>7, CannotFetchKeeps, CannotWriteTreeKeeps, CannotFetchIncludesKeeps, CannotSaveKeeps, CannotWriteLauncherKeeps,
       CannotRemovePointerKeeps, CannotSettleKeeps, UndoForkKeeps, CannotRunKeeps, CannotPruneKeeps, KillKeeps DEF Failing
  <2> QED BY <1>2, <2>0, <2>1, <2>2, <2>3, <2>4, <2>5, <2>6, <2>7 DEF StoreNext
<1> QED BY <1>1, <1>2, PTL DEF StoreSpec

\* As long as nothing has failed, launcher, alias and run directories are those of
\* installs that are there.
THEOREM NamesFollowInstalls == StoreSpec => []NameFollowsInstalls
<1>1. StoreInv => NameFollowsInstalls
  BY DEF StoreInv, Unfailed, NameFollowsInstalls, Idle, Bear, Runs
<1> QED BY <1>1, StoreInvariant, PTL

\* An install that ends well has put its harness in place, whatever failed before it.
THEOREM InstallsDeliver == StoreSpec => []InstallDelivers
<1>1. StoreInv => InstallDelivers
  BY DEF StoreInv, LastHolds
<1> QED BY <1>1, StoreInvariant, PTL

\* What an uninstall, or a fork that fails, takes back is gone.
THEOREM NothingIsLeftBehind == StoreSpec => []NothingLeftBehind
<1>1. StoreInv => NothingLeftBehind
  BY DEF StoreInv, LastHolds, NothingLeftBehind, FailedForkUndone
<1> QED BY <1>1, StoreInvariant, PTL

-----------------------------------------------------------------------------
(* The catalogue of a marketplace                                             *)

\* The state keeps to its types: so much of them as the proof needs.
MarketTypes ==
  /\ version \in [Sources -> 1..MaxVersion]
  /\ DOMAIN plugins = Names /\ plugins = [n \in Names |-> plugins[n]]
  /\ index \in [Vendors -> SUBSET Names]
  /\ own \in BOOLEAN /\ marker \in BOOLEAN
  /\ git \in {"none", "empty", "ours", "theirs"}
  /\ \E S : log \in Seq(S)
  /\ step \in {"idle", "prepare", "clean", "entries", "git", "mark", "commit", "done", "refused", "failed"}
  /\ step # "idle" => request \in [ config : Configs, vendors : SUBSET Vendors \ {{}}, clean : BOOLEAN ]
  /\ at \in Nat \ {0}

\* The i-th entry is in its place, as its source is now.
Built(i) ==
  LET s == Config[i]  files == plugins[NameOf[s]] IN
  /\ Kind[s] = "harness" \/ request.clean =>
       \A p \in Paths \ {Manifest} : p \in DOMAIN files <=> p \in Trees[s][version[s]]
  /\ \A p \in Trees[s][version[s]] : p \in DOMAIN files /\ files[p] = [ src |-> s, version |-> version[s] ]
  /\ Manifest \in DOMAIN files

\* After --clean there are no directories but those of the entries before n.
NothingElse(n) ==
  request.clean => /\ \A m \in Names : (\A i \in DOMAIN Config : i < n => m # NameOf[Config[i]]) => plugins[m] = NoFile
                   /\ ~own

\* What a build has made so far.
SoFar ==
  /\ step \in {"prepare", "clean"} => at = 1
  /\ step = "entries" =>
       /\ \A i \in DOMAIN Config : i < at => Built(i)
       /\ NothingElse(at)
       /\ request.clean => index = NoIndex
  /\ step \in {"git", "mark", "commit", "done"} =>
       /\ \A i \in DOMAIN Config : Built(i)
       /\ NothingElse(Len(Config) + 1)
       /\ \A v \in Vendors : IF v \in request.vendors THEN index[v] = Listed ELSE request.clean => index[v] = {}

\* A repository with a commit of ynd's has its marker, and no other is marked or
\* committed to; a finished build of ynd's is what was committed last.
Repository ==
  /\ git = "ours" => marker
  /\ step \in {"mark", "commit"} => git \in {"empty", "ours"}
  /\ step = "commit" => marker
  /\ step = "done" /\ git = "ours" => Last(log) = WorkingTree

MarketInv == MarketTypes /\ SoFar /\ Repository

LEMMA Given ==
  /\ \A s \in Sources : Kind[s] \in {"harness", "plugin"} /\ NameOf[s] \in Names
  /\ \A s \in Sources, v \in 1..MaxVersion : Trees[s][v] \subseteq Paths
  /\ \A s \in Sources, v \in 1..MaxVersion : Kind[s] = "harness" => Manifest \in Trees[s][v]
  /\ \A c \in Configs : c \in Seq(Sources) /\ \A i, j \in DOMAIN c : i # j => NameOf[c[i]] # NameOf[c[j]]
  /\ MaxVersion \in Nat \ {0} /\ Manifest \in Paths
<1>1. Trees \in [Sources -> [1..MaxVersion -> SUBSET Paths]]
  BY MarketplaceAssumption
<1>2. \A s \in Sources, v \in 1..MaxVersion : Trees[s][v] \subseteq Paths
  BY <1>1
<1> QED BY <1>2, MarketplaceAssumption

LEMMA Kept == ASSUME NEW S, NEW s \in Seq(S) PROVE IsPrefix(s, s)
BY DEF IsPrefix

LEMMA Grown ==
  ASSUME NEW S, NEW s \in Seq(S), NEW x
  PROVE  IsPrefix(s, Append(s, x)) /\ Append(s, x) \in Seq(S \union {x}) /\ Last(Append(s, x)) = x
BY DEF IsPrefix, Last

\* What the entry that a build has come to is.
LEMMA AtEntry ==
  ASSUME MarketTypes, step = "entries", at <= Len(Config)
  PROVE  /\ Config \in Seq(Sources) /\ at \in DOMAIN Config /\ Entry \in Sources /\ NameOf[Entry] \in Names
         /\ version[Entry] \in 1..MaxVersion
         /\ \A i \in DOMAIN Config : i # at => NameOf[Config[i]] # NameOf[Entry]
<1>1. Config \in Configs
  BY DEF MarketTypes, Config
<1>2. Config \in Seq(Sources) /\ \A i, j \in DOMAIN Config : i # j => NameOf[Config[i]] # NameOf[Config[j]]
  BY <1>1, Given
<1>3. at \in DOMAIN Config
  BY <1>2 DEF MarketTypes
<1>4. Entry \in Sources
  BY <1>2, <1>3 DEF Entry
<1> QED BY <1>2, <1>3, <1>4, Given DEF Entry, MarketTypes

\* An entry that is put in its place, whatever its files, leaves the others in theirs.
LEMMA EntryStep ==
  ASSUME MarketInv, step = "entries", at <= Len(Config), NEW files,
         plugins' = [plugins EXCEPT ![NameOf[Entry]] = files], NextEntry,
         \A p \in Trees[Entry][version[Entry]] : p \in DOMAIN files /\ files[p] = [ src |-> Entry, version |-> version[Entry] ],
         Manifest \in DOMAIN files,
         Kind[Entry] = "harness" \/ request.clean =>
           \A p \in Paths \ {Manifest} : p \in DOMAIN files <=> p \in Trees[Entry][version[Entry]]
  PROVE  MarketInv'
<1>1. /\ Config \in Seq(Sources) /\ at \in DOMAIN Config /\ Entry \in Sources /\ NameOf[Entry] \in Names
      /\ \A i \in DOMAIN Config : i # at => NameOf[Config[i]] # NameOf[Entry]
  BY AtEntry DEF MarketInv
<1>2. /\ UNCHANGED <<version, index, own, marker, git, log, request, step, builds>> /\ at' = at + 1
      /\ Config' = Config /\ step' = "entries"
  BY DEF NextEntry, history, Config
<1>3. /\ plugins'[NameOf[Entry]] = files
      /\ \A n \in Names : n # NameOf[Entry] => plugins'[n] = plugins[n]
  BY <1>1 DEF MarketInv, MarketTypes
<1>4. MarketTypes'
  <2>1. DOMAIN plugins' = Names /\ plugins' = [n \in Names |-> plugins'[n]]
    BY DEF MarketInv, MarketTypes
  <2>2. at' \in Nat \ {0}
    BY <1>2 DEF MarketInv, MarketTypes
  <2> QED BY <1>2, <2>1, <2>2 DEF MarketInv, MarketTypes
<1>5. ASSUME NEW i \in DOMAIN Config, i < at' PROVE Built(i)'
  <2>1. CASE i = at
    BY <1>2, <1>3, <2>1 DEF Built, Entry
  <2>2. CASE i # at
    <3>1. i < at
      BY <1>1, <1>2, <1>5, <2>2 DEF MarketInv, MarketTypes
    <3>2. Built(i)
      BY <3>1 DEF MarketInv, SoFar
    <3>3. plugins'[NameOf[Config[i]]] = plugins[NameOf[Config[i]]]
      BY <1>1, <1>3, <2>2, Given
    <3> QED BY <1>2, <3>2, <3>3 DEF Built
  <2> QED BY <2>1, <2>2
<1>6. NothingElse(at)'
  <2>1. ASSUME request.clean, NEW m \in Names, \A i \in DOMAIN Config : i < at + 1 => m # NameOf[Config[i]]
        PROVE  plugins'[m] = NoFile /\ ~own
    <3>1. m # NameOf[Entry]
      BY <1>1, <2>1 DEF Entry, MarketInv, MarketTypes
    <3>2. \A i \in DOMAIN Config : i < at => m # NameOf[Config[i]]
      BY <1>1, <2>1 DEF MarketInv, MarketTypes
    <3>3. NothingElse(at)
      BY DEF MarketInv, SoFar
    <3> QED BY <1>3, <2>1, <3>1, <3>2, <3>3 DEF NothingElse
  <2>2. request.clean => ~own
    BY DEF MarketInv, SoFar, NothingElse
  <2>3. request'.clean = request.clean /\ own' = own /\ at' = at + 1 /\ Config' = Config
    BY <1>2
  <2> QED BY <2>1, <2>2, <2>3 DEF NothingElse
<1>7. SoFar'
  <2>1. request.clean => index = NoIndex
    BY DEF MarketInv, SoFar
  <2>2. NoIndex' = NoIndex
    BY DEF NoIndex
  <2> QED BY <1>2, <1>5, <1>6, <2>1, <2>2 DEF SoFar
<1>8. Repository'
  BY <1>2 DEF MarketInv, Repository
<1> QED BY <1>4, <1>7, <1>8 DEF MarketInv

LEMMA ExportEntryStep == ASSUME MarketInv, ExportEntry PROVE MarketInv'
<1>1. Entry \in Sources /\ version[Entry] \in 1..MaxVersion /\ Kind[Entry] = "harness"
  BY AtEntry DEF ExportEntry, MarketInv
<1>2. DOMAIN Tree(Entry) = Trees[Entry][version[Entry]] /\ Manifest \in Trees[Entry][version[Entry]]
  BY <1>1, Given DEF Tree
<1>3. \A p \in Trees[Entry][version[Entry]] : Tree(Entry)[p] = [ src |-> Entry, version |-> version[Entry] ]
  BY DEF Tree
<1> QED BY <1>2, <1>3, EntryStep DEF ExportEntry

LEMMA CopyEntryStep == ASSUME MarketInv, CopyEntry PROVE MarketInv'
<1>1. Entry \in Sources /\ version[Entry] \in 1..MaxVersion /\ Kind[Entry] # "harness" /\ NameOf[Entry] \in Names
  BY AtEntry DEF CopyEntry, MarketInv
<1> DEFINE old == plugins[NameOf[Entry]]
           new == [ src |-> Entry, version |-> version[Entry] ]
           files == [p \in DOMAIN Tree(Entry) \union DOMAIN old \union {Manifest} |->
                       IF p \in DOMAIN old \ DOMAIN Tree(Entry) THEN old[p] ELSE new]
<1>2. plugins' = [plugins EXCEPT ![NameOf[Entry]] = files]
  BY DEF CopyEntry
<1>3. DOMAIN Tree(Entry) = Trees[Entry][version[Entry]]
  BY DEF Tree
<1>4. /\ \A p \in Trees[Entry][version[Entry]] : p \in DOMAIN files /\ files[p] = new
      /\ Manifest \in DOMAIN files
      /\ DOMAIN files = Trees[Entry][version[Entry]] \union DOMAIN old \union {Manifest}
  BY <1>3
<1>5. request.clean => DOMAIN old = {}
  <2> SUFFICES ASSUME request.clean PROVE DOMAIN old = {}
    OBVIOUS
  <2>1. NothingElse(at)
    BY DEF CopyEntry, MarketInv, SoFar
  <2>2. \A i \in DOMAIN Config : i < at => NameOf[Entry] # NameOf[Config[i]]
    <3>1. step = "entries" /\ at <= Len(Config) /\ at \in Nat /\ MarketTypes
      BY DEF CopyEntry, MarketInv, MarketTypes
    <3>2. Config \in Seq(Sources) /\ \A i \in DOMAIN Config : i # at => NameOf[Config[i]] # NameOf[Entry]
      BY <3>1, AtEntry
    <3>3. \A i \in DOMAIN Config : i < at => i # at
      BY <3>1, <3>2
    <3> QED BY <3>2, <3>3
  <2>3. old = NoFile
    BY <1>1, <2>1, <2>2 DEF NothingElse
  <2> QED BY <2>3 DEF NoFile
<1>6. Kind[Entry] = "harness" \/ request.clean =>
        \A p \in Paths \ {Manifest} : p \in DOMAIN files <=> p \in Trees[Entry][version[Entry]]
  BY <1>1, <1>4, <1>5
<1> HIDE DEF files
<1> QED BY <1>2, <1>4, <1>6, EntryStep DEF CopyEntry

LEMMA CleanStep == ASSUME MarketInv, Clean PROVE MarketInv'
<1>1. /\ UNCHANGED <<version, git, log, request, at, builds>> /\ step' = "entries" /\ step = "clean"
      /\ Config' = Config
  BY DEF Clean, history, Config
<1>2. /\ plugins' = [n \in Names |-> plugins'[n]] /\ DOMAIN plugins' = Names
      /\ index' \in [Vendors -> SUBSET Names] /\ own' \in BOOLEAN /\ marker' \in BOOLEAN
  BY DEF Clean, contents, Nothing, NoIndex, OwnsRepo, MarketInv, MarketTypes
<1>3. MarketTypes'
  BY <1>1, <1>2 DEF MarketInv, MarketTypes
<1>4. request.clean => /\ \A m \in Names : plugins'[m] = NoFile
                       /\ index' = NoIndex /\ ~own'
  BY DEF Clean, Nothing
<1>5. git = "ours" => marker'
  BY DEF Clean, contents, OwnsRepo, MarketInv, Repository
<1>6. Repository'
  BY <1>1, <1>5 DEF Repository
<1>7. at = 1 /\ at' = 1 /\ Config \in Seq(Sources)
  <2>1. Config \in Configs
    BY <1>1 DEF MarketInv, MarketTypes, Config
  <2> QED BY <1>1, <2>1, Given DEF MarketInv, SoFar
<1>8. SoFar'
  <2>1. \A i \in DOMAIN Config : ~(i < 1)
    BY <1>7
  <2>2. NothingElse(at)'
    BY <1>1, <1>4 DEF NothingElse
  <2>3. request.clean => index' = NoIndex'
    BY <1>4 DEF NoIndex
  <2> QED BY <1>1, <1>7, <2>1, <2>2, <2>3 DEF SoFar
<1> QED BY <1>3, <1>6, <1>8 DEF MarketInv

LEMMA WriteIndexesStep == ASSUME MarketInv, WriteIndexes PROVE MarketInv'
<1>1. /\ UNCHANGED <<version, plugins, own, marker, git, log, request, at, builds>> /\ step = "entries" /\ step' = "git"
      /\ Config' = Config /\ Listed' = Listed
      /\ index' = [v \in Vendors |-> IF v \in request.vendors THEN Listed ELSE index[v]]
  BY DEF WriteIndexes, history, Config, Listed
<1>2. Config \in Seq(Sources) /\ at > Len(Config) /\ at \in Nat
  <2>1. Config \in Configs
    BY <1>1 DEF MarketInv, MarketTypes, Config
  <2> QED BY <2>1, Given DEF WriteIndexes, MarketInv, MarketTypes
<1>3. \A i \in DOMAIN Config : i < at /\ i < Len(Config) + 1
  BY <1>2
<1>4. index' \in [Vendors -> SUBSET Names]
  <2>1. Listed \subseteq Names
    BY <1>2, Given DEF Listed
  <2> QED BY <1>1, <2>1 DEF MarketInv, MarketTypes
<1>5. MarketTypes'
  BY <1>1, <1>4 DEF MarketInv, MarketTypes
<1>6. \A i \in DOMAIN Config : Built(i)'
  <2>1. \A i \in DOMAIN Config : Built(i)
    BY <1>1, <1>3 DEF MarketInv, SoFar
  <2> QED BY <1>1, <2>1 DEF Built
<1>7. NothingElse(Len(Config) + 1)'
  <2>1. NothingElse(at)
    BY <1>1 DEF MarketInv, SoFar
  <2> QED BY <1>1, <1>3, <2>1 DEF NothingElse
<1>8. \A v \in Vendors : IF v \in request.vendors THEN index'[v] = Listed ELSE request.clean => index'[v] = {}
  <2>1. request.clean => index = NoIndex
    BY <1>1 DEF MarketInv, SoFar
  <2> QED BY <1>1, <2>1 DEF NoIndex
<1>9. SoFar'
  BY <1>1, <1>6, <1>7, <1>8 DEF SoFar
<1>10. Repository'
  BY <1>1 DEF MarketInv, Repository
<1> QED BY <1>5, <1>9, <1>10 DEF MarketInv

\* The steps from the indexes to the end change neither entries nor indexes.
LEMMA Finished ==
  ASSUME MarketInv, step \in {"git", "mark", "commit"}, step' \in {"mark", "commit", "done"},
         UNCHANGED <<version, plugins, index, own, request>>
  PROVE  SoFar'
<1>1. Config' = Config /\ Listed' = Listed
  BY DEF Config, Listed
<1>2. ASSUME NEW i \in DOMAIN Config PROVE Built(i)'
  <2>1. Built(i)
    BY DEF MarketInv, SoFar
  <2> QED BY <1>1, <2>1 DEF Built
<1>3. NothingElse(Len(Config) + 1)'
  <2>1. NothingElse(Len(Config) + 1)
    BY DEF MarketInv, SoFar
  <2> QED BY <1>1, <2>1 DEF NothingElse
<1>4. \A v \in Vendors : IF v \in request.vendors THEN index'[v] = Listed ELSE request.clean => index'[v] = {}
  BY DEF MarketInv, SoFar
<1> QED BY <1>1, <1>2, <1>3, <1>4 DEF SoFar

LEMMA GitStep == ASSUME MarketInv, Git PROVE MarketInv'
<1>1. /\ UNCHANGED <<version, plugins, index, own, marker, log, request, at, builds>> /\ step = "git"
      /\ step' \in {"mark", "done"} /\ git' \in {git, "empty"}
      /\ step' = "mark" => git' = "empty" \/ OwnsRepo
      /\ step' = "done" => git' = git /\ ~OwnsRepo
  BY DEF Git, contents
<1>2. SoFar'
  BY <1>1, Finished
<1>3. Repository'
  BY <1>1 DEF MarketInv, Repository, OwnsRepo
<1>4. MarketTypes'
  BY <1>1 DEF MarketInv, MarketTypes
<1> QED BY <1>2, <1>3, <1>4 DEF MarketInv

LEMMA MarkStep == ASSUME MarketInv, Mark PROVE MarketInv'
<1>1. /\ UNCHANGED <<version, plugins, index, own, git, log, request, at, builds>> /\ step = "mark"
      /\ step' = "commit" /\ marker' = TRUE
  BY DEF Mark, history
<1>2. SoFar'
  BY <1>1, Finished
<1>3. Repository'
  BY <1>1 DEF MarketInv, Repository
<1>4. MarketTypes'
  BY <1>1 DEF MarketInv, MarketTypes
<1> QED BY <1>2, <1>3, <1>4 DEF MarketInv

LEMMA CommitStep == ASSUME MarketInv, Commit PROVE MarketInv'
<1>1. /\ UNCHANGED <<version, plugins, index, own, marker, request, at, builds>> /\ step = "commit" /\ step' = "done"
      /\ git' = IF git = "empty" THEN "ours" ELSE git
      /\ log' = IF log # <<>> /\ Last(log) = WorkingTree THEN log ELSE Append(log, WorkingTree)
      /\ WorkingTree' = WorkingTree
  BY DEF Commit, contents, WorkingTree
<1>2. PICK S : log \in Seq(S)
  BY DEF MarketInv, MarketTypes
<1>3. (\E T : log' \in Seq(T)) /\ Last(log') = WorkingTree
  <2>1. CASE log' = log /\ Last(log) = WorkingTree
    BY <1>2, <2>1
  <2>2. CASE log' = Append(log, WorkingTree)
    <3>1. Append(log, WorkingTree) \in Seq(S \union {WorkingTree}) /\ Last(Append(log, WorkingTree)) = WorkingTree
      BY <1>2, Grown
    <3> QED BY <2>2, <3>1
  <2> QED BY <1>1, <2>1, <2>2
<1>4. MarketTypes'
  BY <1>1, <1>3 DEF MarketInv, MarketTypes
<1>5. SoFar'
  BY <1>1, Finished
<1>6. Repository'
  BY <1>1, <1>3 DEF MarketInv, Repository
<1> QED BY <1>4, <1>5, <1>6 DEF MarketInv

LEMMA OtherSteps ==
  ASSUME MarketInv, Start \/ Prepare \/ RefuseToClean \/ Fail \/ Edit \/ UNCHANGED vars PROVE MarketInv'
<1>1. CASE Start
  <2>1. /\ UNCHANGED <<version, plugins, index, own, marker, git, log>> /\ step' = "prepare" /\ at' = 1
        /\ request' \in [ config : Configs, vendors : SUBSET Vendors \ {{}}, clean : BOOLEAN ]
    BY <1>1 DEF Start, contents, history
  <2>2. MarketTypes'
    BY <2>1 DEF MarketInv, MarketTypes
  <2>3. SoFar' /\ Repository'
    BY <2>1 DEF MarketInv, Repository, SoFar
  <2> QED BY <2>2, <2>3 DEF MarketInv
<1>2. CASE Prepare \/ RefuseToClean
  <2>1. /\ UNCHANGED <<version, plugins, index, own, marker, git, log, request, at>>
        /\ step \in {"prepare", "clean"} /\ step' \in {"clean", "refused"}
    BY <1>2 DEF Prepare, RefuseToClean, contents, history
  <2>2. MarketTypes'
    BY <2>1 DEF MarketInv, MarketTypes
  <2>3. SoFar' /\ Repository'
    BY <2>1 DEF MarketInv, Repository, SoFar
  <2> QED BY <2>2, <2>3 DEF MarketInv
<1>3. CASE Fail
  <2>1. /\ UNCHANGED <<version, index, own, marker, git, log, request, at>>
        /\ step # "idle" /\ step' = "failed"
    BY <1>3 DEF Fail, history
  <2>2. DOMAIN plugins' = Names /\ plugins' = [n \in Names |-> plugins'[n]]
    BY <1>3 DEF Fail, MarketInv, MarketTypes
  <2>3. MarketTypes'
    BY <2>1, <2>2 DEF MarketInv, MarketTypes
  <2>4. SoFar' /\ Repository'
    BY <2>1 DEF MarketInv, Repository, SoFar
  <2> QED BY <2>3, <2>4 DEF MarketInv
<1>4. CASE Edit
  <2>1. /\ UNCHANGED <<plugins, index, own, marker, git, log, request, at>> /\ step' = "idle"
    BY <1>4 DEF Edit, contents, history
  <2>2. version' \in [Sources -> 1..MaxVersion]
    BY <1>4, Given DEF Edit, MarketInv, MarketTypes
  <2>3. MarketTypes'
    BY <2>1, <2>2 DEF MarketInv, MarketTypes
  <2>4. SoFar' /\ Repository'
    BY <2>1 DEF MarketInv, Repository, SoFar
  <2> QED BY <2>3, <2>4 DEF MarketInv
<1>5. CASE UNCHANGED vars
  <2>1. UNCHANGED <<version, plugins, index, own, marker, git, log, request, step, at>>
    BY <1>5 DEF vars, contents, history
  <2>2. /\ Config' = Config /\ Listed' = Listed /\ NoIndex' = NoIndex /\ WorkingTree' = WorkingTree
        /\ \A i \in DOMAIN Config : Built(i)' <=> Built(i)
        /\ NothingElse(at)' <=> NothingElse(at)
        /\ NothingElse(Len(Config) + 1)' <=> NothingElse(Len(Config) + 1)
    BY <2>1 DEF Config, Listed, NoIndex, WorkingTree, Built, NothingElse
  <2>3. MarketTypes'
    BY <2>1 DEF MarketInv, MarketTypes
  <2>4. SoFar'
    BY <2>1, <2>2 DEF MarketInv, SoFar
  <2>5. Repository'
    BY <2>1, <2>2 DEF MarketInv, Repository
  <2> QED BY <2>3, <2>4, <2>5 DEF MarketInv
<1> QED BY <1>1, <1>2, <1>3, <1>4, <1>5

\* A directory, new or somebody's, owes nothing yet.
THEOREM MarketBegins == Init => MarketInv
<1> SUFFICES ASSUME Init PROVE MarketInv
  OBVIOUS
<1>1. \E S : log \in Seq(S)
  <2>1. log = <<>> \/ log = <<WorkingTree>>
    BY DEF Init
  <2>2. <<>> \in Seq({WorkingTree}) /\ <<WorkingTree>> \in Seq({WorkingTree})
    OBVIOUS
  <2> QED BY <2>1, <2>2
<1>2. MarketTypes
  <2>1. version = [s \in Sources |-> 1] /\ plugins = [n \in Names |-> NoFile] /\ index = [v \in Vendors |-> {}]
    BY DEF Init, Nothing, NoIndex
  <2>2. git \in {"none", "theirs"} /\ marker \in BOOLEAN /\ own \in BOOLEAN /\ step = "idle" /\ at = 1
    BY DEF Init
  <2>3. version \in [Sources -> 1..MaxVersion]
    BY <2>1, Given
  <2>4. DOMAIN plugins = Names /\ plugins = [n \in Names |-> plugins[n]] /\ index \in [Vendors -> SUBSET Names]
    BY <2>1
  <2> QED BY <1>1, <2>2, <2>3, <2>4 DEF MarketTypes
<1>3. SoFar /\ Repository
  BY DEF Init, SoFar, Repository
<1> QED BY <1>2, <1>3 DEF MarketInv

\* Every step of a build, its failures and the changes between builds keep it.
THEOREM MarketSteps == MarketInv /\ [Next]_vars => MarketInv'
BY ExportEntryStep, CopyEntryStep, CleanStep, WriteIndexesStep, GitStep, MarkStep, CommitStep, OtherSteps DEF Next

\* The invariant holds in every state of the directory.
THEOREM MarketInvariant == Spec => []MarketInv
BY MarketBegins, MarketSteps, PTL DEF Spec

\* A finished build is its configuration, whatever failed, killed or other builds came
\* before it, for any sources, configurations and number of builds.
THEOREM BuildsAreConfigured == Spec => []BuildIsItsConfig
<1>1. ASSUME MarketInv, step = "done" PROVE BuildIsItsConfig
  <2>1. /\ \A i \in DOMAIN Config : Built(i)
        /\ NothingElse(Len(Config) + 1)
        /\ \A v \in Vendors : IF v \in request.vendors THEN index[v] = Listed ELSE request.clean => index[v] = {}
    BY <1>1 DEF MarketInv, SoFar
  <2>2. Config \in Seq(Sources) /\ request.vendors \subseteq Vendors
    <3>1. Config \in Configs /\ request.vendors \subseteq Vendors
      BY <1>1 DEF MarketInv, MarketTypes, Config
    <3> QED BY <3>1, Given
  <2>3. request.clean => (\A n \in Names \ Listed : plugins[n] = NoFile) /\ ~own
    <3>1. \A n \in Names \ Listed : \A i \in DOMAIN Config : n # NameOf[Config[i]]
      BY DEF Listed
    <3> QED BY <2>1, <3>1 DEF NothingElse
  <2>4. git = "ours" => marker /\ Last(log) = WorkingTree
    BY <1>1 DEF MarketInv, Repository
  <2> QED BY <2>1, <2>2, <2>3, <2>4 DEF BuildIsItsConfig, Built
<1>2. MarketInv => BuildIsItsConfig
  BY <1>1 DEF BuildIsItsConfig
<1> QED BY <1>2, MarketInvariant, PTL

\* No build takes history away, and somebody else's repository is not touched.
THEOREM HistoryIsKept == Spec => HistoryKept
<1>1. ASSUME MarketInv, [Next]_vars
      PROVE  /\ git \in {"ours", "theirs"} => git' = git /\ IsPrefix(log, log')
             /\ git = "theirs" => log' = log /\ own' = own /\ marker' = marker
  <2>1. PICK S : log \in Seq(S)
    BY <1>1 DEF MarketInv, MarketTypes
  <2>2. IsPrefix(log, log) /\ IsPrefix(log, Append(log, WorkingTree))
    BY <2>1, Kept, Grown
  <2>3. CASE Commit
    BY <1>1, <2>2, <2>3 DEF Commit, contents, MarketInv, Repository
  <2>4. CASE Mark
    BY <1>1, <2>2, <2>4 DEF Mark, history, MarketInv, Repository
  <2>5. CASE Clean
    BY <2>2, <2>5 DEF Clean, history, contents, OwnsRepo
  <2>6. CASE Git
    BY <2>2, <2>6 DEF Git, contents
  <2>7. CASE Start \/ Prepare \/ RefuseToClean \/ ExportEntry \/ CopyEntry \/ WriteIndexes \/ Fail \/ Edit \/ UNCHANGED vars
    <3>1. UNCHANGED <<git, log, own, marker>>
      BY <2>7 DEF Start, Prepare, RefuseToClean, ExportEntry, CopyEntry, NextEntry, WriteIndexes, Fail, Edit,
                  vars, contents, history
    <3> QED BY <2>2, <3>1
  <2> QED BY <1>1, <2>3, <2>4, <2>5, <2>6, <2>7 DEF Next
<1> QED BY <1>1, MarketInvariant, PTL DEF HistoryKept, Spec

-----------------------------------------------------------------------------
(* What is kept of a list                                                     *)

\* Of a finite set of numbers there is one that is the k-th.
LEMMA KthIs ==
  ASSUME NEW n \in Nat, NEW where \in SUBSET (1..n), NEW k \in 1..Cardinality(where)
  PROVE  \E i \in where : Cardinality({ j \in where : j <= i }) = k
<1> DEFINE upto(i) == { j \in where : j <= i }
           card(i) == Cardinality(upto(i))
           T == { i \in 0..n : card(i) >= k }
<1>1. \A j \in where : j \in Nat /\ 1 <= j /\ j <= n
  OBVIOUS
<1>2. IsFiniteSet(where) /\ Cardinality(where) \in Nat
  <2>1. IsFiniteSet(1..n)
    BY FS_Interval
  <2> QED BY <2>1, FS_Subset, FS_CardinalityType
<1>3. \A i \in 0..n : IsFiniteSet(upto(i)) /\ card(i) \in Nat
  <2>1. \A i \in 0..n : upto(i) \in SUBSET where
    OBVIOUS
  <2> QED BY <1>2, <2>1, FS_Subset, FS_CardinalityType
<1>4. k \in Nat /\ k >= 1 /\ k <= Cardinality(where)
  BY <1>2
<1>5. upto(n) = where
  BY <1>1
<1>6. upto(0) = {}
  <2>1. \A j \in where : ~(j <= 0)
    BY <1>1
  <2> QED BY <2>1
<1>7. card(0) = 0
  BY <1>6, FS_EmptySet
<1>8. ASSUME NEW i \in 1..n, i \notin where PROVE upto(i) = upto(i - 1)
  <2>1. \A j \in where : j <= i <=> j <= i - 1
    BY <1>1, <1>8
  <2> QED BY <2>1
<1>9. ASSUME NEW i \in 1..n, i \in where PROVE upto(i) = upto(i - 1) \union {i} /\ i \notin upto(i - 1)
  <2>1. \A j \in where : j <= i <=> (j <= i - 1 \/ j = i)
    BY <1>1, <1>9
  <2>2. ~(i <= i - 1)
    OBVIOUS
  <2> QED BY <1>9, <2>1, <2>2
<1>10. ASSUME NEW i \in 1..n, i \in where PROVE card(i) = card(i - 1) + 1
  <2>1. i - 1 \in 0..n
    OBVIOUS
  <2> QED BY <1>3, <1>9, <1>10, <2>1, FS_AddElement
<1>11. \A i \in 1..n : i \notin where => card(i) = card(i - 1)
  BY <1>8
<1>12. card(n) >= k
  BY <1>4, <1>5
<1> HIDE DEF upto, card
<1>13. T \in SUBSET Nat /\ n \in T
  BY <1>12
<1>14. PICK i \in T : \A j \in T : i <= j
  BY <1>13, Smallest
<1>15. i \in 0..n /\ card(i) >= k /\ i # 0
  BY <1>4, <1>7
<1>16. i \in 1..n /\ i - 1 \in 0..n
  BY <1>15
<1>17. i - 1 \notin T
  BY <1>14, <1>16
<1>18. card(i - 1) < k
  BY <1>3, <1>4, <1>16, <1>17
<1>19. i \in where
  BY <1>3, <1>4, <1>11, <1>15, <1>16, <1>18
<1>20. card(i) = k
  BY <1>3, <1>4, <1>10, <1>15, <1>16, <1>18, <1>19
<1> QED BY <1>19, <1>20 DEF card, upto

\* What is kept is of the list, and no place is kept twice.
LEMMA KeptAtIs ==
  ASSUME NEW S, NEW list \in Seq(S), NEW where \in SUBSET DOMAIN list
  PROVE  LET kept == KeptAt(list, where) IN
         /\ kept \in Seq(S)
         /\ \A k \in DOMAIN kept : \E i \in where : kept[k] = list[i]
         /\ \A k, l \in DOMAIN kept : k # l => \E i, j \in where : i # j /\ kept[k] = list[i] /\ kept[l] = list[j]
<1> DEFINE n == Cardinality(where)
           place(k) == CHOOSE i \in where : Cardinality({ j \in where : j <= i }) = k
           kept == KeptAt(list, where)
<1>1. DOMAIN list = 1..Len(list) /\ Len(list) \in Nat
  OBVIOUS
<1>2. n \in Nat
  <2>1. IsFiniteSet(1..Len(list))
    BY <1>1, FS_Interval
  <2> QED BY <1>1, <2>1, FS_Subset, FS_CardinalityType
<1>3. \A k \in 1..n : place(k) \in where /\ Cardinality({ j \in where : j <= place(k) }) = k
  <2> SUFFICES ASSUME NEW k \in 1..n PROVE \E i \in where : Cardinality({ j \in where : j <= i }) = k
    OBVIOUS
  <2> QED BY <1>1, KthIs
<1>4. kept = [k \in 1..n |-> list[place(k)]]
  BY DEF KeptAt
<1> HIDE DEF place, n, kept
<1>5. kept \in Seq(S) /\ DOMAIN kept = 1..n
  <2>1. \A k \in 1..n : list[place(k)] \in S
    <3>1. \A i \in DOMAIN list : list[i] \in S
      OBVIOUS
    <3> QED BY <1>3, <3>1
  <2>2. kept \in [1..n -> S]
    BY <1>4, <2>1
  <2> QED BY <1>2, <2>2, SeqDef
<1>6. \A k \in 1..n : kept[k] = list[place(k)]
  BY <1>4
<1>7. \A k, l \in 1..n : k # l => place(k) # place(l)
  BY <1>3
<1> QED BY <1>3, <1>5, <1>6, <1>7 DEF kept

-----------------------------------------------------------------------------
(* The settings                                                               *)

CallFields == {"pc", "copy", "stale", "arg", "took", "found"}

\* What a user's command is, so much of it as the proof needs.
IsCall(r) == DOMAIN r = CallFields /\ r.copy \in Configurations /\ r.stale \in BOOLEAN

SettingsTypes ==
  /\ config \in Configurations \union {Absent, Torn}
  /\ word \in Configurations \union {Absent}
  /\ crossed \in BOOLEAN
  /\ DOMAIN call = Users /\ \A u \in Users : IsCall(call[u])

\* Every edit by hand was well formed, with each registry and each title once.
WrittenWell == \A c \in Written : WellFormed(c)

\* A file that was saved by nobody who had another file's copy says what the
\* commands make of it one after another, and so does a copy nobody saved over.
FileIsWord == ~crossed /\ config # Torn => config = word
Fresh(r) == r.pc \in {"edit", "init"} /\ ~r.stale
CopyIsWord == \A u \in Users : ~crossed /\ Fresh(call[u]) => call[u].copy = Said
InitIsDefault == \A u \in Users : call[u].pc = "init" => call[u].copy = Default

AllWell ==
  WrittenWell => /\ config \notin {Absent, Torn} => WellFormed(config)
                 /\ \A u \in Users : WellFormed(call[u].copy)

SettingsInv == SettingsTypes /\ FileIsWord /\ CopyIsWord /\ InitIsDefault /\ AllWell

LEMMA DefaultFits == Default \in Configurations /\ WellFormed(Default)
BY DEF Default, Configurations, WellFormed

LEMMA RestingFits == IsCall(Resting) /\ Resting.pc = "rest" /\ Resting.copy = Default
BY DefaultFits DEF Resting, IsCall, CallFields

LEMMA SaidFits == ASSUME SettingsTypes PROVE Said \in Configurations
BY DefaultFits DEF SettingsTypes, Said

LEMMA MarshalFits ==
  ASSUME NEW c \in Configurations
  PROVE  Marshal(c) \in Configurations /\ (WellFormed(c) => WellFormed(Marshal(c)))
<1>1. Marshal(c) \in Configurations
  BY DEF Marshal, Configurations
<1>2. Marshal(c).registries = c.registries /\ Marshal(c).sources = c.sources /\ Marshal(c).backends = c.backends
  BY DEF Marshal, Configurations
<1> QED BY <1>1, <1>2 DEF WellFormed

\* What an edit makes of a copy that was well formed is well formed.
Edits(c, d) == d \in Configurations /\ (WellFormed(c) => WellFormed(d))

Places == [ title : Titles, dir : Dirs ]

LEMMA FieldsOf ==
  ASSUME NEW c \in Configurations
  PROVE  /\ c.registries \in Seq(Urls) /\ c.sources \in Seq(Places)
         /\ c.backends \in [Backends -> [ type : Types \union {None}, tools : SUBSET Tools ] \union {None}]
         /\ \A x \in Seq(Urls) : /\ [c EXCEPT !.registries = x] \in Configurations
                                 /\ [c EXCEPT !.registries = x].registries = x
                                 /\ [c EXCEPT !.registries = x].sources = c.sources
                                 /\ [c EXCEPT !.registries = x].backends = c.backends
         /\ \A x \in Seq(Places) :
              /\ [c EXCEPT !.sources = x] \in Configurations
              /\ [c EXCEPT !.sources = x].registries = c.registries
              /\ [c EXCEPT !.sources = x].sources = x
              /\ [c EXCEPT !.sources = x].backends = c.backends
BY DEF Configurations, Places

LEMMA WithRegistryEdits ==
  ASSUME NEW c \in Configurations, NEW url \in Urls, ~Contains(c.registries, url)
  PROVE  Edits(c, WithRegistry(c, url))
<1> DEFINE new == Append(c.registries, url)
<1>1. c.registries \in Seq(Urls) /\ new \in Seq(Urls)
  BY FieldsOf
<1>2. \A i \in DOMAIN c.registries : c.registries[i] # url
  BY <1>1 DEF Contains
<1>3. WellFormed(c) => \A i, j \in DOMAIN new : new[i] = new[j] => i = j
  BY <1>1, <1>2 DEF WellFormed
<1> HIDE DEF new
<1>4. WithRegistry(c, url) = [c EXCEPT !.registries = new]
  BY DEF WithRegistry, new
<1> QED BY <1>1, <1>3, <1>4, FieldsOf DEF Edits, WellFormed

LEMMA AddFits ==
  ASSUME NEW c \in Configurations
  PROVE  /\ \A url \in Urls : WithRegistry(c, url) \in Configurations
         /\ \A s \in Places : WithSource(c, s) \in Configurations
<1>1. \A url \in Urls : Append(c.registries, url) \in Seq(Urls)
  BY FieldsOf
<1>2. \A s \in Places : Append(c.sources, s) \in Seq(Places)
  BY FieldsOf
<1> QED BY <1>1, <1>2, FieldsOf DEF WithRegistry, WithSource

LEMMA WithoutRegistryEdits ==
  ASSUME NEW c \in Configurations, NEW url \in Urls
  PROVE  Edits(c, WithoutRegistry(c, url))
<1> DEFINE list == c.registries
           where == { i \in DOMAIN list : list[i] # url }
           new == KeptAt(list, where)
<1>1. list \in Seq(Urls) /\ where \in SUBSET DOMAIN list
  BY FieldsOf
<1> HIDE DEF list, where
<1>2. new \in Seq(Urls) /\ \A k, l \in DOMAIN new : k # l => \E i, j \in where : i # j /\ new[k] = list[i] /\ new[l] = list[j]
  BY <1>1, KeptAtIs
<1>3. \A i \in where : i \in DOMAIN list
  BY <1>1
<1>4. WithoutRegistry(c, url) = [c EXCEPT !.registries = new]
  BY DEF WithoutRegistry, list, where
<1> HIDE DEF new
<1>5. WellFormed(c) => \A i, j \in DOMAIN new : new[i] = new[j] => i = j
  BY <1>2, <1>3 DEF WellFormed, list
<1> QED BY <1>2, <1>4, <1>5, FieldsOf DEF Edits, WellFormed

LEMMA WithSourceEdits ==
  ASSUME NEW c \in Configurations, NEW s \in Places,
         \A i \in DOMAIN c.sources : c.sources[i].title # s.title
  PROVE  Edits(c, WithSource(c, s))
<1> DEFINE new == Append(c.sources, s)
<1>1. c.sources \in Seq(Places) /\ new \in Seq(Places)
  BY FieldsOf
<1>2. WellFormed(c) => \A i, j \in DOMAIN new : new[i].title = new[j].title => i = j
  BY <1>1 DEF WellFormed
<1> HIDE DEF new
<1>3. WithSource(c, s) = [c EXCEPT !.sources = new]
  BY DEF WithSource, new
<1>4. /\ WithSource(c, s) \in Configurations /\ WithSource(c, s).sources = new
      /\ WithSource(c, s).registries = c.registries /\ WithSource(c, s).backends = c.backends
  BY <1>1, <1>3, FieldsOf
<1> QED BY <1>2, <1>4 DEF Edits, WellFormed

LEMMA WithoutSourceEdits ==
  ASSUME NEW c \in Configurations, NEW title
  PROVE  Edits(c, WithoutSource(c, title))
<1> DEFINE list == c.sources
           where == { i \in DOMAIN list : list[i].title # title }
           new == KeptAt(list, where)
<1>1. list \in Seq(Places) /\ where \in SUBSET DOMAIN list
  BY FieldsOf
<1> HIDE DEF list, where
<1>2. new \in Seq(Places) /\ \A k, l \in DOMAIN new : k # l => \E i, j \in where : i # j /\ new[k] = list[i] /\ new[l] = list[j]
  BY <1>1, KeptAtIs
<1>3. \A i \in where : i \in DOMAIN list
  BY <1>1
<1>4. WithoutSource(c, title) = [c EXCEPT !.sources = new]
  BY DEF WithoutSource, list, where
<1> HIDE DEF new
<1>5. WellFormed(c) => \A i, j \in DOMAIN new : new[i].title = new[j].title => i = j
  BY <1>2, <1>3 DEF WellFormed, list
<1>6. /\ WithoutSource(c, title) \in Configurations /\ WithoutSource(c, title).sources = new
      /\ WithoutSource(c, title).registries = c.registries /\ WithoutSource(c, title).backends = c.backends
  BY <1>2, <1>4, FieldsOf
<1> QED BY <1>5, <1>6 DEF Edits, WellFormed

\* The backends are those of the copy but for one, which keeps a tool if it is any.
LEMMA BackendEdits ==
  ASSUME NEW c \in Configurations, NEW b \in Backends,
         NEW d \in [ type : Types \union {None}, tools : SUBSET Tools ] \union {None},
         WellFormed(c) /\ d # None => d.tools # {}
  PROVE  Edits(c, [c EXCEPT !.backends[b] = d])
<1> DEFINE new == [c EXCEPT !.backends[b] = d]
<1>1. new \in Configurations
  BY DEF Configurations
<1>2. new.registries = c.registries /\ new.sources = c.sources
  BY DEF Configurations
<1>3. \A x \in Backends : new.backends[x] = IF x = b THEN d ELSE c.backends[x]
  BY DEF Configurations
<1> HIDE DEF new
<1>4. Edits(c, new)
  BY <1>1, <1>2, <1>3 DEF Edits, WellFormed
<1> QED BY <1>4 DEF new

LEMMA WithBackendEdits ==
  ASSUME NEW c \in Configurations, NEW b \in Backends, NEW tool \in Tools, NEW type \in Types \union {None}
  PROVE  Edits(c, WithBackend(c, b, tool, type))
<1> DEFINE def == IF c.backends[b] = None THEN [ type |-> None, tools |-> {} ] ELSE c.backends[b]
           d == [ type |-> IF type = None THEN def.type ELSE type, tools |-> def.tools \union {tool} ]
<1>1. def \in [ type : Types \union {None}, tools : SUBSET Tools ]
  BY DEF Configurations
<1> HIDE DEF def
<1>2. d \in [ type : Types \union {None}, tools : SUBSET Tools ] /\ d.tools # {}
  BY <1>1
<1>3. WithBackend(c, b, tool, type) = [c EXCEPT !.backends[b] = d]
  BY DEF WithBackend, def
<1> HIDE DEF d
<1> QED BY <1>2, <1>3, BackendEdits

LEMMA WithoutBackendEdits ==
  ASSUME NEW c \in Configurations, NEW b \in Backends, NEW tools
  PROVE  Edits(c, WithoutBackend(c, b, tools))
<1> DEFINE def == c.backends[b]
           d == IF def = None \/ def.tools \subseteq tools THEN None ELSE [def EXCEPT !.tools = def.tools \ tools]
<1>1. def \in [ type : Types \union {None}, tools : SUBSET Tools ] \union {None}
  BY DEF Configurations
<1>2. WithoutBackend(c, b, tools) = [c EXCEPT !.backends[b] = d]
  BY DEF WithoutBackend
<1> HIDE DEF def
<1>3. d \in [ type : Types \union {None}, tools : SUBSET Tools ] \union {None}
  BY <1>1
<1>4. d # None => d.tools # {}
  BY <1>1
<1> HIDE DEF d
<1> QED BY <1>2, <1>3, <1>4, BackendEdits

\* A command that is under way stays what it is; what it holds may be stale.
LEMMA StaleCall ==
  ASSUME NEW r, IsCall(r)
  PROVE  LET now == [r EXCEPT !.stale = TRUE] IN
         IsCall(now) /\ now.pc = r.pc /\ now.copy = r.copy /\ ~Fresh(now)
BY DEF IsCall, CallFields, Fresh

\* What everyone else holds is stale once a copy is saved, so that a copy that is
\* not stale is what the file said when it was loaded, and is still.
LEMMA SaveKeeps ==
  ASSUME SettingsInv, NEW u \in Users, NEW copy \in Configurations, NEW meant \in Configurations,
         NEW then, IsCall(then), then.pc \in {"rest", "purge"}, then.copy = Default,
         WrittenWell => WellFormed(copy),
         ~crossed /\ ~call[u].stale => copy = meant,
         SaveConfig(u, copy, meant, then)
  PROVE  SettingsInv'
<1>1. SettingsTypes /\ AllWell /\ InitIsDefault
  BY DEF SettingsInv
<1>2. config' \in Configurations \union {Torn} /\ word' \in Configurations \union {Absent}
  BY <1>1, MarshalFits DEF SaveConfig, SettingsTypes
<1>3. crossed' \in BOOLEAN /\ (~crossed' => ~crossed /\ ~call[u].stale)
  BY <1>1 DEF SaveConfig, SettingsTypes, IsCall
<1>4. DOMAIN call' = Users /\ \A v \in Users \ {u} : call'[v] = [call[v] EXCEPT !.stale = TRUE]
  BY DEF SaveConfig
<1>5. call'[u] \in {Resting, then}
  BY DEF SaveConfig
<1>6. IsCall(call'[u]) /\ ~Fresh(call'[u]) /\ call'[u].pc # "init" /\ call'[u].copy = Default
  BY <1>5, RestingFits DEF Fresh
<1>7. \A v \in Users \ {u} : /\ IsCall(call'[v]) /\ ~Fresh(call'[v])
                             /\ call'[v].pc = call[v].pc /\ call'[v].copy = call[v].copy
  BY <1>1, <1>4, StaleCall DEF SettingsTypes
<1>8. SettingsTypes'
  BY <1>2, <1>3, <1>4, <1>6, <1>7 DEF SettingsTypes, IsCall
<1>9. FileIsWord'
  BY <1>3 DEF FileIsWord, SaveConfig
<1>10. CopyIsWord'
  BY <1>6, <1>7 DEF CopyIsWord, Fresh
<1>11. InitIsDefault'
  BY <1>1, <1>6, <1>7 DEF InitIsDefault
<1>12. WrittenWell /\ config' # Torn => WellFormed(config')
  BY MarshalFits DEF SaveConfig
<1>13. WrittenWell => \A v \in Users : WellFormed(call'[v].copy)
  BY <1>1, <1>6, <1>7, DefaultFits DEF AllWell
<1>14. AllWell'
  BY <1>12, <1>13 DEF AllWell, WrittenWell
<1> QED BY <1>8, <1>9, <1>10, <1>11, <1>14 DEF SettingsInv

\* So an edit keeps the invariant: what it makes of the copy, and what it would
\* make of what the file says, are the same where no copy was crossed.
LEMMA EditKeeps ==
  ASSUME SettingsInv, NEW u \in Users, call[u].pc = "edit",
         NEW mine, NEW said \in Configurations, Edits(call[u].copy, mine),
         call[u].copy = Said => mine = said,
         NEW then, IsCall(then), then.pc \in {"rest", "purge"}, then.copy = Default,
         SaveConfig(u, mine, said, then)
  PROVE  SettingsInv'
<1>1. ~crossed /\ ~call[u].stale => call[u].copy = Said
  BY DEF SettingsInv, CopyIsWord, Fresh
<1>2. WrittenWell => WellFormed(mine)
  BY DEF SettingsInv, AllWell, Edits
<1>3. mine \in Configurations
  BY DEF Edits
<1> QED BY <1>1, <1>2, <1>3, SaveKeeps

LEMMA CopyFits == ASSUME SettingsInv, NEW u \in Users PROVE call[u].copy \in Configurations /\ Said \in Configurations
BY SaidFits DEF SettingsInv, SettingsTypes, IsCall

LEMMA RegistryAddKeeps ==
  ASSUME SettingsInv, NEW u \in Users, NEW url \in Urls, CmdRegistryAdd(u, url)
  PROVE  SettingsInv'
<1>1. call[u].pc = "edit" /\ ~Contains(call[u].copy.registries, url)
  BY DEF CmdRegistryAdd, Editing
<1>2. SaveConfig(u, WithRegistry(call[u].copy, url), WithRegistry(Said, url), Resting)
  BY DEF CmdRegistryAdd, Saves
<1>3. Edits(call[u].copy, WithRegistry(call[u].copy, url))
  BY <1>1, CopyFits, WithRegistryEdits
<1>4. WithRegistry(Said, url) \in Configurations
  BY CopyFits, AddFits
<1> QED BY <1>1, <1>2, <1>3, <1>4, RestingFits, EditKeeps

LEMMA RegistryRemoveKeeps ==
  ASSUME SettingsInv, NEW u \in Users, NEW url \in Urls, CmdRegistryRemove(u, url)
  PROVE  SettingsInv'
<1> DEFINE then == [Resting EXCEPT !.pc = "purge", !.arg = url]
<1>1. call[u].pc = "edit"
  BY DEF CmdRegistryRemove, Editing
<1>2. SaveConfig(u, WithoutRegistry(call[u].copy, url), WithoutRegistry(Said, url), then)
  BY DEF CmdRegistryRemove
<1>3. IsCall(then) /\ then.pc = "purge" /\ then.copy = Default
  BY RestingFits DEF IsCall, CallFields
<1>4. Edits(call[u].copy, WithoutRegistry(call[u].copy, url)) /\ WithoutRegistry(Said, url) \in Configurations
  BY CopyFits, WithoutRegistryEdits DEF Edits
<1> HIDE DEF then
<1> QED BY <1>1, <1>2, <1>3, <1>4, EditKeeps

LEMMA SourcesAddKeeps ==
  ASSUME SettingsInv, NEW u \in Users, NEW s \in Places, CmdSourcesAdd(u, s)
  PROVE  SettingsInv'
<1>1. call[u].pc = "edit" /\ \A i \in DOMAIN call[u].copy.sources : call[u].copy.sources[i].title # s.title
  BY DEF CmdSourcesAdd, Editing
<1>2. SaveConfig(u, WithSource(call[u].copy, s), WithSource(Said, s), Resting)
  BY DEF CmdSourcesAdd, Saves
<1>3. Edits(call[u].copy, WithSource(call[u].copy, s))
  BY <1>1, CopyFits, WithSourceEdits
<1>4. WithSource(Said, s) \in Configurations
  BY CopyFits, AddFits
<1> QED BY <1>1, <1>2, <1>3, <1>4, RestingFits, EditKeeps

LEMMA SourcesRemoveKeeps ==
  ASSUME SettingsInv, NEW u \in Users, NEW title, CmdSourcesRemove(u, title)
  PROVE  SettingsInv'
<1>1. call[u].pc = "edit"
  BY DEF CmdSourcesRemove, Editing
<1>2. SaveConfig(u, WithoutSource(call[u].copy, title), WithoutSource(Said, title), Resting)
  BY DEF CmdSourcesRemove, Saves
<1>3. Edits(call[u].copy, WithoutSource(call[u].copy, title)) /\ WithoutSource(Said, title) \in Configurations
  BY CopyFits, WithoutSourceEdits DEF Edits
<1> QED BY <1>1, <1>2, <1>3, RestingFits, EditKeeps

LEMMA BackendAddKeeps ==
  ASSUME SettingsInv, NEW u \in Users, NEW b \in Backends, NEW tool \in Tools, NEW type \in Types \union {None},
         CmdBackendAdd(u, b, tool, type)
  PROVE  SettingsInv'
<1>1. call[u].pc = "edit"
  BY DEF CmdBackendAdd, Editing
<1>2. SaveConfig(u, WithBackend(call[u].copy, b, tool, type), WithBackend(Said, b, tool, type), Resting)
  BY DEF CmdBackendAdd, Saves
<1>3. Edits(call[u].copy, WithBackend(call[u].copy, b, tool, type)) /\ WithBackend(Said, b, tool, type) \in Configurations
  BY CopyFits, WithBackendEdits DEF Edits
<1> QED BY <1>1, <1>2, <1>3, RestingFits, EditKeeps

LEMMA BackendRemoveKeeps ==
  ASSUME SettingsInv, NEW u \in Users, NEW b \in Backends, NEW tools, CmdBackendRemove(u, b, tools)
  PROVE  SettingsInv'
<1>1. call[u].pc = "edit"
  BY DEF CmdBackendRemove, Editing
<1>2. SaveConfig(u, WithoutBackend(call[u].copy, b, tools), WithoutBackend(Said, b, tools), Resting)
  BY DEF CmdBackendRemove, Saves
<1>3. Edits(call[u].copy, WithoutBackend(call[u].copy, b, tools)) /\ WithoutBackend(Said, b, tools) \in Configurations
  BY CopyFits, WithoutBackendEdits DEF Edits
<1> QED BY <1>1, <1>2, <1>3, RestingFits, EditKeeps

\* ynh init writes the defaults where there was no file.
LEMMA CmdInitKeeps ==
  ASSUME SettingsInv, NEW u \in Users, CmdInit(u)
  PROVE  SettingsInv'
<1>1. call[u].pc = "init" /\ SaveConfig(u, Default, Said, Resting)
  BY DEF CmdInit
<1>2. call[u].copy = Default
  BY <1>1 DEF SettingsInv, InitIsDefault
<1>3. ~crossed /\ ~call[u].stale => Default = Said
  BY <1>1, <1>2 DEF SettingsInv, CopyIsWord, Fresh
<1> QED BY <1>1, <1>3, CopyFits, DefaultFits, RestingFits, SaveKeeps

LEMMA EditConfigKeeps == ASSUME SettingsInv, NEW u \in Users, EditConfig(u) PROVE SettingsInv'
<1>1. \A title \in Titles, dir \in Dirs : [ title |-> title, dir |-> dir ] \in Places
  BY DEF Places
<1> QED BY <1>1, RegistryAddKeeps, RegistryRemoveKeeps, SourcesAddKeeps, SourcesRemoveKeeps, BackendAddKeeps, BackendRemoveKeeps
        DEF EditConfig

\* A command loads the file as it is.
LEMMA BeginKeeps ==
  ASSUME SettingsInv, NEW u \in Users, NEW pc, NEW arg, pc = "init" => config = Absent, BeginCall(u, pc, arg)
  PROVE  SettingsInv'
<1> DEFINE new == [Resting EXCEPT !.pc = pc, !.copy = Load, !.arg = arg]
<1>1. config # Torn /\ UNCHANGED <<config, word, crossed>> /\ call' = [call EXCEPT ![u] = new]
  BY DEF BeginCall
<1>2. Load \in Configurations /\ (WrittenWell => WellFormed(Load)) /\ (~crossed => Load = Said)
  BY <1>1, DefaultFits DEF SettingsInv, SettingsTypes, AllWell, FileIsWord, Load, Said
<1>3. IsCall(new) /\ new.pc = pc /\ new.copy = Load
  BY <1>2, RestingFits DEF IsCall, CallFields
<1> HIDE DEF new
<1>4. DOMAIN call' = Users /\ call'[u] = new /\ \A v \in Users \ {u} : call'[v] = call[v]
  BY <1>1 DEF SettingsInv, SettingsTypes
<1>5. Said' = Said
  BY <1>1 DEF Said
<1>6. SettingsTypes'
  BY <1>1, <1>3, <1>4 DEF SettingsInv, SettingsTypes
<1>7. FileIsWord'
  BY <1>1 DEF SettingsInv, FileIsWord
<1>8. CopyIsWord'
  BY <1>1, <1>2, <1>3, <1>4, <1>5 DEF SettingsInv, CopyIsWord, Fresh
<1>9. pc = "init" => Load = Default
  BY DEF Load
<1>10. InitIsDefault'
  BY <1>3, <1>4, <1>9 DEF SettingsInv, InitIsDefault
<1>11. AllWell'
  BY <1>1, <1>2, <1>3, <1>4 DEF SettingsInv, AllWell, WrittenWell
<1> QED BY <1>6, <1>7, <1>8, <1>10, <1>11 DEF SettingsInv

\* A command that only looks, or ends, holds no copy that will be saved.
LEMMA OthersKeep ==
  ASSUME SettingsInv, NEW u \in Users, UNCHANGED <<config, word, crossed>>,
         DOMAIN call' = Users, \A v \in Users \ {u} : call'[v] = call[v],
         IsCall(call'[u]), call'[u].pc \notin {"edit", "init"}, call'[u].copy \in {call[u].copy, Default}
  PROVE  SettingsInv'
<1>1. Said' = Said
  BY DEF Said
<1>2. SettingsTypes'
  BY DEF SettingsInv, SettingsTypes
<1>3. FileIsWord'
  BY DEF SettingsInv, FileIsWord
<1>4. CopyIsWord'
  BY <1>1 DEF SettingsInv, CopyIsWord, Fresh
<1>5. InitIsDefault'
  BY DEF SettingsInv, InitIsDefault
<1>6. AllWell'
  BY DefaultFits DEF SettingsInv, AllWell, WrittenWell
<1> QED BY <1>2, <1>3, <1>4, <1>5, <1>6 DEF SettingsInv

LEMMA RestKeeps ==
  ASSUME SettingsInv, NEW u \in Users, UNCHANGED <<config, word, crossed>>, call' = [call EXCEPT ![u] = Resting]
  PROVE  SettingsInv'
<1>1. DOMAIN call' = Users /\ call'[u] = Resting /\ \A v \in Users \ {u} : call'[v] = call[v]
  BY DEF SettingsInv, SettingsTypes
<1> QED BY <1>1, RestingFits, OthersKeep

LEMMA LookingKeeps ==
  ASSUME SettingsInv, NEW u \in Users, Install(u) \/ Search(u) \/ RegistryUpdate(u) \/ PurgeClones(u) \/ RefuseCall(u)
  PROVE  SettingsInv'
<1>1. UNCHANGED <<config, word, crossed>>
  BY DEF Install, Search, RegistryUpdate, PurgeClones, RefuseCall
<1>2. IsCall(call[u]) /\ u \in DOMAIN call /\ DOMAIN call = Users
  BY DEF SettingsInv, SettingsTypes
<1>3. CASE call' = [call EXCEPT ![u] = Resting]
  BY <1>1, <1>3, RestKeeps
<1>4. CASE \E took : call' = [call EXCEPT ![u].pc = "done", ![u].took = took]
  <2>1. PICK took : call' = [call EXCEPT ![u].pc = "done", ![u].took = took]
    BY <1>4
  <2>2. call'[u] = [call[u] EXCEPT !.pc = "done", !.took = took]
    BY <1>2, <2>1
  <2>3. IsCall(call'[u]) /\ call'[u].pc = "done" /\ call'[u].copy = call[u].copy
    BY <1>2, <2>2 DEF IsCall, CallFields
  <2> QED BY <1>1, <1>2, <2>1, <2>3, OthersKeep
<1>5. CASE \E found : call' = [call EXCEPT ![u].pc = "done", ![u].found = found]
  <2>1. PICK found : call' = [call EXCEPT ![u].pc = "done", ![u].found = found]
    BY <1>5
  <2>2. call'[u] = [call[u] EXCEPT !.pc = "done", !.found = found]
    BY <1>2, <2>1
  <2>3. IsCall(call'[u]) /\ call'[u].pc = "done" /\ call'[u].copy = call[u].copy
    BY <1>2, <2>2 DEF IsCall, CallFields
  <2> QED BY <1>1, <1>2, <2>1, <2>3, OthersKeep
<1>6. Install(u) => \E took : call' = [call EXCEPT ![u].pc = "done", ![u].took = took]
  BY Zenon DEF Install
<1>7. Search(u) => \/ call' = [call EXCEPT ![u] = Resting]
                   \/ \E found : call' = [call EXCEPT ![u].pc = "done", ![u].found = found]
  BY Zenon DEF Search
<1>8. RegistryUpdate(u) \/ PurgeClones(u) \/ RefuseCall(u) => call' = [call EXCEPT ![u] = Resting]
  BY DEF RegistryUpdate, PurgeClones, RefuseCall
<1> QED BY <1>3, <1>4, <1>5, <1>6, <1>7, <1>8

\* The user starts the file afresh, and makes stale whatever a command holds.
LEMMA EditByHandKeeps == ASSUME SettingsInv, EditByHand PROVE SettingsInv'
<1>1. config' \in Written /\ word' = config' /\ crossed' = FALSE /\ call' = [u \in Users |-> [call[u] EXCEPT !.stale = TRUE]]
  BY DEF EditByHand
<1>2. config' \in Configurations
  BY <1>1, SettingsAssumption
<1>3. \A v \in Users : /\ IsCall(call'[v]) /\ ~Fresh(call'[v])
                       /\ call'[v].pc = call[v].pc /\ call'[v].copy = call[v].copy
  BY <1>1, StaleCall DEF SettingsInv, SettingsTypes
<1>4. SettingsTypes'
  BY <1>1, <1>2, <1>3 DEF SettingsTypes
<1>5. FileIsWord' /\ CopyIsWord'
  BY <1>1, <1>3 DEF FileIsWord, CopyIsWord, Fresh
<1>6. InitIsDefault'
  BY <1>3 DEF SettingsInv, InitIsDefault
<1>7. AllWell'
  BY <1>1, <1>3 DEF SettingsInv, AllWell, WrittenWell
<1> QED BY <1>4, <1>5, <1>6, <1>7 DEF SettingsInv

LEMMA SettingsBegins == SettingsInit => SettingsInv
<1> SUFFICES ASSUME SettingsInit PROVE SettingsInv
  OBVIOUS
<1>1. config \in Written \union {Absent} /\ word = config /\ crossed = FALSE /\ call = [u \in Users |-> Resting]
  BY DEF SettingsInit
<1>2. SettingsTypes
  BY <1>1, RestingFits, SettingsAssumption DEF SettingsTypes
<1>3. FileIsWord /\ CopyIsWord /\ InitIsDefault
  BY <1>1, RestingFits DEF FileIsWord, CopyIsWord, InitIsDefault, Fresh
<1>4. AllWell
  BY <1>1, RestingFits, DefaultFits DEF AllWell, WrittenWell
<1> QED BY <1>2, <1>3, <1>4 DEF SettingsInv

\* A file that says another thing than the commands it was edited with was saved
\* from a copy that was stale: the inductive invariant of config.json.
THEOREM SettingsInvariant == SettingsSpec => []SettingsInv
<1>1. ASSUME SettingsInv, [SettingsNext]_settingsVars PROVE SettingsInv'
  <2>1. CASE UNCHANGED settingsVars
    <3>1. UNCHANGED <<config, word, crossed, call>>
      BY <2>1 DEF settingsVars
    <3> QED BY <1>1, <3>1 DEF SettingsInv, SettingsTypes, FileIsWord, CopyIsWord, InitIsDefault, AllWell, Said
  <2>2. CASE EditByHand
    BY <1>1, <2>2, EditByHandKeeps
  <2>3. ASSUME NEW u \in Users,
               \/ \E pc \in {"edit", "search", "refresh"} : BeginCall(u, pc, None)
               \/ \E a \in Asked : BeginCall(u, "install", a)
               \/ BeginInit(u)
        PROVE  SettingsInv'
    BY <1>1, <2>3, BeginKeeps DEF BeginInit
  <2>4. ASSUME NEW u \in Users, CmdInit(u) \/ EditConfig(u) PROVE SettingsInv'
    BY <1>1, <2>4, CmdInitKeeps, EditConfigKeeps
  <2>5. ASSUME NEW u \in Users, RefuseCall(u) \/ PurgeClones(u) \/ Install(u) \/ Search(u) \/ RegistryUpdate(u)
        PROVE  SettingsInv'
    BY <1>1, <2>5, LookingKeeps
  <2> QED BY <1>1, <2>1, <2>2, <2>3, <2>4, <2>5 DEF SettingsNext
<1> QED BY <1>1, SettingsBegins, PTL DEF SettingsSpec

\* config.json keeps each registry and each title once and no backend without a
\* tool, and is what the commands make of it one after another unless a stale
\* copy was saved (config.Save, without a lock).
THEOREM SettingsAreHeld == SettingsSpec => []SettingsHold
<1>1. SettingsInv => SettingsHold
  BY DEF SettingsInv, AllWell, WrittenWell, FileIsWord, SettingsHold
<1> QED BY <1>1, SettingsInvariant, PTL

-----------------------------------------------------------------------------
(* What is looked up                                                           *)

\* The places from which on the rest of a path matches the rest of a pattern,
\* given the ones from which on what is left of it does.
MatchAt(p, path, f, i) ==
  IF i > Len(p) THEN {Len(path) + 1}
  ELSE IF p[i] = AnyDepth THEN { j \in 1..(Len(path) + 1) : i = Len(p) \/ \E k \in f[i + 1] : j <= k }
  ELSE { j \in 1..Len(path) : p[i] \in {AnyOne, path[j]} /\ j + 1 \in f[i + 1] }

Matching(p, path, f) == f = [i \in 1..(Len(p) + 1) |-> MatchAt(p, path, f, i)]

\* What MatchGlob computes is a solution of its equation, if there is one.
LEMMA MatchIs ==
  ASSUME NEW p, NEW path, \E f : Matching(p, path, f)
  PROVE  \E match : Matching(p, path, match) /\ (MatchGlob(p, path) <=> 1 \in match[1])
<1> DEFINE match == CHOOSE f : Matching(p, path, f)
<1>1. Matching(p, path, match)
  OBVIOUS
<1>2. MatchGlob(p, path) <=> 1 \in match[1]
  BY DEF MatchGlob, Matching, MatchAt
<1> HIDE DEF match
<1> QED BY <1>1, <1>2

\* Of a segment of the pattern, what a piece from a to b of the path is.
Piece(p, path, i, a, b) ==
  IF p[i] = AnyDepth THEN a <= b ELSE b = a + 1 /\ p[i] \in {AnyOne, path[a]}

\* The ways to cut a path for the pattern from its i-th segment on.
CutsFrom(p, path, i) ==
  { cut \in [i..(Len(p) + 1) -> 1..(Len(path) + 1)] :
      cut[Len(p) + 1] = Len(path) + 1 /\ \A s \in i..Len(p) : Piece(p, path, s, cut[s], cut[s + 1]) }

CutsAt(p, path, i) == { cut[i] : cut \in CutsFrom(p, path, i) }

\* At its end there is one way to cut the path.
LEMMA EndPlace ==
  ASSUME NEW p \in Seq(Segments \union {AnyOne, AnyDepth}), NEW path \in Seq(Segments)
  PROVE  CutsAt(p, path, Len(p) + 1) = {Len(path) + 1}
<1>1. Len(p) \in Nat /\ Len(path) \in Nat
  OBVIOUS
<1> DEFINE cut == [s \in (Len(p) + 1)..(Len(p) + 1) |-> Len(path) + 1]
<1>2. cut \in CutsFrom(p, path, Len(p) + 1) /\ cut[Len(p) + 1] = Len(path) + 1
  BY <1>1 DEF CutsFrom
<1>3. \A c \in CutsFrom(p, path, Len(p) + 1) : c[Len(p) + 1] = Len(path) + 1
  BY DEF CutsFrom
<1> HIDE DEF cut
<1> QED BY <1>2, <1>3 DEF CutsAt

\* The first piece, and a way to cut the rest.
LEMMA CutOnce ==
  ASSUME NEW p \in Seq(Segments \union {AnyOne, AnyDepth}), NEW path \in Seq(Segments), NEW i \in 1..Len(p)
  PROVE  CutsAt(p, path, i) = { a \in 1..(Len(path) + 1) : \E b \in CutsAt(p, path, i + 1) : Piece(p, path, i, a, b) }
<1> DEFINE n == Len(p)
           m == Len(path)
<1>1. n \in Nat /\ m \in Nat /\ i \in Nat /\ i >= 1 /\ i <= n
  OBVIOUS
<1> HIDE DEF n, m
<1>2. ASSUME NEW cut \in CutsFrom(p, path, i)
      PROVE  cut[i] \in 1..(m + 1) /\ cut[i + 1] \in CutsAt(p, path, i + 1) /\ Piece(p, path, i, cut[i], cut[i + 1])
  <2> DEFINE rest == [s \in (i + 1)..(n + 1) |-> cut[s]]
  <2>1. /\ cut \in [i..(n + 1) -> 1..(m + 1)] /\ cut[n + 1] = m + 1
        /\ \A s \in i..n : Piece(p, path, s, cut[s], cut[s + 1])
    BY DEF CutsFrom, n, m
  <2>2. /\ i \in i..(n + 1) /\ i \in i..n /\ (i + 1)..(n + 1) \subseteq i..(n + 1) /\ (i + 1)..n \subseteq i..n
        /\ n + 1 \in (i + 1)..(n + 1) /\ i + 1 \in (i + 1)..(n + 1)
        /\ \A s \in (i + 1)..n : s \in (i + 1)..(n + 1) /\ s + 1 \in (i + 1)..(n + 1)
    BY <1>1
  <2>3. rest \in [(i + 1)..(n + 1) -> 1..(m + 1)] /\ \A s \in (i + 1)..(n + 1) : rest[s] = cut[s]
    BY <2>1, <2>2
  <2> HIDE DEF rest
  <2>4. rest[n + 1] = m + 1 /\ \A s \in (i + 1)..n : Piece(p, path, s, rest[s], rest[s + 1])
    BY <2>1, <2>2, <2>3
  <2>5. rest \in CutsFrom(p, path, i + 1)
    BY <2>3, <2>4 DEF CutsFrom, n, m
  <2>6. rest[i + 1] \in CutsAt(p, path, i + 1) /\ rest[i + 1] = cut[i + 1]
    BY <2>2, <2>3, <2>5 DEF CutsAt
  <2> QED BY <2>1, <2>2, <2>6
<1>3. ASSUME NEW a \in 1..(m + 1), NEW b \in CutsAt(p, path, i + 1), Piece(p, path, i, a, b)
      PROVE  a \in CutsAt(p, path, i)
  <2>1. PICK rest \in CutsFrom(p, path, i + 1) : b = rest[i + 1]
    BY DEF CutsAt
  <2> DEFINE cut == [s \in i..(n + 1) |-> IF s = i THEN a ELSE rest[s]]
  <2>2. /\ rest \in [(i + 1)..(n + 1) -> 1..(m + 1)] /\ rest[n + 1] = m + 1
        /\ \A s \in (i + 1)..n : Piece(p, path, s, rest[s], rest[s + 1])
    BY <2>1 DEF CutsFrom, n, m
  <2>3. /\ i \in i..(n + 1) /\ n + 1 \in i..(n + 1) /\ n + 1 # i
        /\ \A s \in i..(n + 1) : s = i \/ s \in (i + 1)..(n + 1)
        /\ \A s \in i..n : s + 1 \in i..(n + 1) /\ s + 1 # i /\ s \in i..(n + 1) /\ (s = i \/ s \in (i + 1)..n)
    BY <1>1
  <2>4. cut \in [i..(n + 1) -> 1..(m + 1)]
    BY <2>2, <2>3
  <2>5. cut[i] = a /\ \A s \in i..(n + 1) : s # i => cut[s] = rest[s]
    BY <2>3
  <2> HIDE DEF cut
  <2>6. cut[n + 1] = m + 1
    BY <2>2, <2>3, <2>5
  <2>7. \A s \in i..n : Piece(p, path, s, cut[s], cut[s + 1])
    BY <1>3, <2>1, <2>2, <2>3, <2>5
  <2>8. cut \in CutsFrom(p, path, i)
    BY <2>4, <2>6, <2>7 DEF CutsFrom, n, m
  <2> QED BY <2>5, <2>8 DEF CutsAt
<1>4. CutsAt(p, path, i) \subseteq { a \in 1..(m + 1) : \E b \in CutsAt(p, path, i + 1) : Piece(p, path, i, a, b) }
  BY <1>2 DEF CutsAt
<1> QED BY <1>3, <1>4 DEF m

\* So the places from which on a path can be cut are a solution.
LEMMA PlacesMatch ==
  ASSUME NEW p \in Seq(Segments \union {AnyOne, AnyDepth}), NEW path \in Seq(Segments)
  PROVE  Matching(p, path, [i \in 1..(Len(p) + 1) |-> CutsAt(p, path, i)])
<1> DEFINE f == [i \in 1..(Len(p) + 1) |-> CutsAt(p, path, i)]
           n == Len(p)
           m == Len(path)
<1>1. n \in Nat /\ m \in Nat
  OBVIOUS
<1>2. \A i \in 1..(n + 1) : f[i] = CutsAt(p, path, i)
  OBVIOUS
<1>3. \A i \in 1..n : i + 1 \in 1..(n + 1) /\ i \in 1..(n + 1)
  BY <1>1
<1>4. DOMAIN f = 1..(n + 1)
  OBVIOUS
<1> HIDE DEF f
<1>5. ASSUME NEW i \in 1..(n + 1) PROVE CutsAt(p, path, i) = MatchAt(p, path, f, i)
  <2>1. CASE i = n + 1
    <3>1. i > n
      BY <1>1, <2>1
    <3> QED BY <2>1, <3>1, EndPlace DEF MatchAt
  <2>2. CASE i # n + 1
    <3>1. i \in 1..n /\ ~(i > n)
      BY <1>1, <2>2
    <3>2. f[i + 1] = CutsAt(p, path, i + 1)
      BY <1>2, <1>3, <3>1
    <3>3. CutsAt(p, path, i) = { a \in 1..(m + 1) : \E b \in f[i + 1] : Piece(p, path, i, a, b) }
      BY <3>1, <3>2, CutOnce
    <3>4. i = n => f[i + 1] = {m + 1}
      BY <3>2, EndPlace
    <3>5. f[i + 1] \subseteq 1..(m + 1)
      <4>1. \A cut \in CutsFrom(p, path, i + 1) : cut[i + 1] \in 1..(m + 1)
        BY <1>1, <3>1 DEF CutsFrom
      <4> QED BY <3>2, <4>1 DEF CutsAt
    <3>6. CASE p[i] = AnyDepth
      <4>1. CutsAt(p, path, i) = { a \in 1..(m + 1) : \E b \in f[i + 1] : a <= b }
        BY <3>3, <3>6 DEF Piece
      <4>2. i = n => \A a \in 1..(m + 1) : \E b \in f[i + 1] : a <= b
        BY <1>1, <3>4
      <4>3. MatchAt(p, path, f, i) = { j \in 1..(m + 1) : i = n \/ \E k \in f[i + 1] : j <= k }
        BY <3>1, <3>6 DEF MatchAt
      <4> QED BY <4>1, <4>2, <4>3
    <3>7. CASE p[i] # AnyDepth
      <4>1. MatchAt(p, path, f, i) = { j \in 1..m : p[i] \in {AnyOne, path[j]} /\ j + 1 \in f[i + 1] }
        BY <3>1, <3>7 DEF MatchAt
      <4>2. CutsAt(p, path, i) = { a \in 1..(m + 1) : \E b \in f[i + 1] : b = a + 1 /\ p[i] \in {AnyOne, path[a]} }
        BY <3>3, <3>7 DEF Piece
      <4>3. \A a \in 1..(m + 1) : a + 1 \in f[i + 1] => a \in 1..m
        BY <1>1, <3>5
      <4>4. 1..m \subseteq 1..(m + 1)
        BY <1>1
      <4> HIDE DEF m
      <4> QED BY <4>1, <4>2, <4>3, <4>4
    <3> QED BY <3>6, <3>7
  <2> QED BY <2>1, <2>2
<1>6. f = [i \in 1..(n + 1) |-> MatchAt(p, path, f, i)]
  BY <1>5 DEF f
<1> QED BY <1>6 DEF Matching, f

\* There is no other: each place follows from the ones after it.
LEMMA MatchUnique ==
  ASSUME NEW p \in Seq(Segments \union {AnyOne, AnyDepth}), NEW path,
         NEW f, Matching(p, path, f), NEW g, Matching(p, path, g)
  PROVE  \A i \in 1..(Len(p) + 1) : f[i] = g[i]
<1> DEFINE n == Len(p)
           T == { k \in Nat : k <= n /\ f[n + 1 - k] # g[n + 1 - k] }
<1>1. n \in Nat
  OBVIOUS
<1>2. \A i \in 1..(n + 1) : f[i] = MatchAt(p, path, f, i) /\ g[i] = MatchAt(p, path, g, i)
  BY DEF Matching
<1>3. \A i \in 1..(n + 1) : (i <= n => f[i + 1] = g[i + 1]) => MatchAt(p, path, f, i) = MatchAt(p, path, g, i)
  <2> TAKE i \in 1..(n + 1)
  <2> HAVE i <= n => f[i + 1] = g[i + 1]
  <2>1. i > n \/ f[i + 1] = g[i + 1]
    BY <1>1
  <2> QED BY <2>1 DEF MatchAt
<1> HIDE DEF n
<1>4. T = {}
  <2> SUFFICES ASSUME T # {} PROVE FALSE
    OBVIOUS
  <2>1. PICK x \in T : \A y \in T : x <= y
    <3>1. T \in SUBSET Nat
      OBVIOUS
    <3> HIDE DEF T
    <3> QED BY <3>1, Smallest
  <2> DEFINE i == n + 1 - x
  <2>2. x \in Nat /\ x <= n /\ f[i] # g[i]
    BY <2>1
  <2>3. i \in 1..(n + 1) /\ x = n + 1 - i
    BY <1>1, <2>2
  <2>4. i <= n => x - 1 \in Nat /\ x - 1 <= n /\ n + 1 - (x - 1) = i + 1 /\ ~(x <= x - 1)
    BY <1>1, <2>2, <2>3
  <2>5. i <= n => f[i + 1] = g[i + 1]
    <3> SUFFICES ASSUME i <= n, f[i + 1] # g[i + 1] PROVE FALSE
      OBVIOUS
    <3>1. x - 1 \in T
      BY <2>4
    <3> QED BY <2>1, <2>4, <3>1
  <2> HIDE DEF i
  <2> QED BY <1>2, <1>3, <2>2, <2>3, <2>5
<1>5. ASSUME NEW i \in 1..(n + 1) PROVE f[i] = g[i]
  <2>1. n + 1 - i \in Nat /\ n + 1 - i <= n /\ n + 1 - (n + 1 - i) = i
    BY <1>1
  <2> QED BY <1>4, <2>1
<1> QED BY <1>5 DEF n

\* A path matches a pattern if it can be cut into one piece for each of its segments.
LEMMA MatchIsAligned ==
  ASSUME NEW p \in Seq(Segments \union {AnyOne, AnyDepth}), NEW path \in Seq(Segments)
  PROVE  MatchGlob(p, path) <=> Aligned(p, path)
<1>1. PICK match : Matching(p, path, match) /\ (MatchGlob(p, path) <=> 1 \in match[1])
  BY PlacesMatch, MatchIs
<1>2. 1 \in 1..(Len(p) + 1)
  OBVIOUS
<1> DEFINE f == [i \in 1..(Len(p) + 1) |-> CutsAt(p, path, i)]
<1>5. Matching(p, path, f) /\ f[1] = CutsAt(p, path, 1)
  BY <1>2, PlacesMatch
<1> HIDE DEF f
<1>3. match[1] = CutsAt(p, path, 1)
  BY <1>1, <1>2, <1>5, MatchUnique
<1>4. 1 \in CutsAt(p, path, 1) <=> Aligned(p, path)
  BY DEF CutsAt, CutsFrom, Piece, Aligned
<1> QED BY <1>1, <1>3, <1>4

\* A clone is made of what a pattern aligns with.
LEMMA CheckAllows ==
  ASSUME NEW c \in Configurations, NEW url \in Urls
  PROVE  CheckSource(c, url) <=> Allows(c, url)
<1>1. Spelled[url] \in Seq(Segments)
  BY SettingsAssumption
<1>2. c.allowed # None => \A p \in c.allowed : p \in Seq(Segments \union {AnyOne, AnyDepth})
  BY DEF Configurations, Patterns
<1> QED BY <1>1, <1>2, MatchIsAligned DEF CheckSource, Allows

-----------------------------------------------------------------------------
\* What a lookup finds first.

Discovered(origin, slug, ref, h) ==
  [ from |-> origin, ref |-> ref, path |-> h.path, name |-> h.name, id |-> <<slug, h.name>> ]

LEMMA TakeIs ==
  ASSUME NEW origin, NEW slug, NEW ref, NEW list \in Discoveries, NEW found \in SUBSET DOMAIN list
  PROVE  /\ found = {} => Take(origin, slug, ref, list, found) = Refused
         /\ found # {} => \E k \in found : /\ \A j \in found : k <= j
                                           /\ Take(origin, slug, ref, list, found) = Discovered(origin, slug, ref, list[k])
<1>1. DOMAIN list = 1..Len(list) /\ Len(list) \in Nat
  BY DEF Discoveries
<1>2. found \in SUBSET Nat
  BY <1>1
<1>3. ASSUME found # {}
      PROVE  \E k \in found : /\ \A j \in found : k <= j
                              /\ Take(origin, slug, ref, list, found) = Discovered(origin, slug, ref, list[k])
  <2> DEFINE k == CHOOSE k \in found : \A j \in found : k <= j
  <2>1. \E i \in found : \A j \in found : i <= j
    BY <1>2, <1>3, Smallest
  <2>2. k \in found /\ \A j \in found : k <= j
    BY <2>1
  <2>3. Take(origin, slug, ref, list, found) = Discovered(origin, slug, ref, list[k])
    BY <1>3 DEF Take, Discovered
  <2> HIDE DEF k
  <2> QED BY <2>2, <2>3
<1> QED BY <1>3 DEF Take

LEMMA DiscoveredIs ==
  ASSUME NEW origin \in Urls \union Dirs, NEW slug \in Slugs \union {NoSlug}, NEW ref \in Refs \union {Tip},
         NEW h \in Harness
  PROVE  /\ Discovered(origin, slug, ref, h) \notin {Refused, None, Offline}
         /\ Discovered(origin, slug, ref, h).from = origin /\ Discovered(origin, slug, ref, h).ref = ref
         /\ Discovered(origin, slug, ref, h).path = h.path /\ Discovered(origin, slug, ref, h).name = h.name
         /\ Discovered(origin, slug, ref, h).id = <<slug, h.name>>
<1> DEFINE t == Discovered(origin, slug, ref, h)
<1>1. t.from = origin /\ t.ref = ref /\ t.path = h.path /\ t.name = h.name /\ t.id = <<slug, h.name>>
  BY DEF Discovered
<1>2. t \in Led
  BY DEF Discovered, Led, Harness
<1> HIDE DEF t
<1>3. t \notin {Refused, None, Offline}
  BY <1>2, SettingsAssumption
<1> QED BY <1>1, <1>3 DEF t

\* What repositories and directories hold.
LEMMA WorldFits ==
  ASSUME world \in World
  PROVE  /\ \A url \in Urls, ref \in Refs \union {Tip} : world.repos[url][ref] \in Discoveries
         /\ \A d \in Dirs : world.dirs[d] \in Discoveries
         /\ \A url \in Urls : world.index[url] \in Seq(Entries) \union {None}
<1>1. world.repos \in [Urls -> [Refs \union {Tip} -> Discoveries]] /\ world.dirs \in [Dirs -> Discoveries]
      /\ world.index \in [Urls -> Seq(Entries) \union {None}]
  BY DEF World
<1> QED BY <1>1

LEMMA DiscoveriesAre ==
  ASSUME NEW list \in Discoveries
  PROVE  /\ \A k \in DOMAIN list : list[k] \in Harness
         /\ \A j, k \in DOMAIN list : list[j].path = list[k].path => j = k
         /\ \A path : InFolder(list, path) \in SUBSET DOMAIN list
         /\ \A depth : Discover(list, depth) \in SUBSET DOMAIN list
BY DEF Discoveries, InFolder, Discover

\* From a repository, a path or one that is allowed, the first harness found.
LEMMA TakeRepoIs ==
  ASSUME world \in World, NEW c \in Configurations, NEW url \in Urls, NEW ref \in Refs \union {Tip},
         NEW found \in SUBSET DOMAIN world.repos[url][ref]
  PROVE  LET t == TakeRepo(c, url, ref, found) IN
         /\ t # Refused <=> found # {} /\ (url \in LocalUrls \/ Allows(c, url))
         /\ t # Refused => \E k \in found : t = Discovered(url, Slug[url], ref, world.repos[url][ref][k])
<1>1. world.repos[url][ref] \in Discoveries
  BY WorldFits
<1>2. Slug[url] \in Slugs \union {NoSlug}
  BY SettingsAssumption
<1>3. \A k \in found : Discovered(url, Slug[url], ref, world.repos[url][ref][k]) # Refused
  BY <1>1, <1>2, DiscoveriesAre, DiscoveredIs
<1> QED BY <1>1, <1>3, TakeIs, CheckAllows DEF TakeRepo

LEMMA TakeDirIs ==
  ASSUME world \in World, NEW d \in Dirs, NEW found \in SUBSET DOMAIN world.dirs[d]
  PROVE  LET t == TakeDir(d, found) IN
         /\ t # Refused <=> found # {}
         /\ t # Refused => \E k \in found : t = Discovered(d, NoSlug, Tip, world.dirs[d][k])
<1>1. world.dirs[d] \in Discoveries
  BY WorldFits
<1>3. \A k \in found : Discovered(d, NoSlug, Tip, world.dirs[d][k]) # Refused
  BY <1>1, DiscoveriesAre, DiscoveredIs
<1> QED BY <1>1, <1>3, TakeIs DEF TakeDir

\* What an entry says is taken.
IsEntry(t, e) ==
  /\ \E k \in InFolder(world.repos[e.repo][t.ref], e.path) : world.repos[e.repo][t.ref][k].name = t.name
  /\ <<t.from, t.path>> = <<e.repo, e.path>> /\ (e.repo \notin LocalUrls => t.ref = e.ref)

LEMMA TakeEntryIs ==
  ASSUME world \in World, NEW c \in Configurations, NEW e \in Entries, TakeEntry(c, e) # Refused
  PROVE  /\ IsEntry(TakeEntry(c, e), e)
         /\ e.repo \in LocalUrls \/ Allows(c, e.repo)
<1> DEFINE pin == IF e.repo \in LocalUrls THEN Tip ELSE e.ref
           list == world.repos[e.repo][pin]
           t == TakeRepo(c, e.repo, pin, InFolder(list, e.path))
<1>1. e.repo \in Urls /\ e.path \in Folders /\ pin \in Refs \union {Tip} /\ (e.repo \notin LocalUrls => pin = e.ref)
  BY DEF Entries
<1>2. TakeEntry(c, e) = t
  BY DEF TakeEntry
<1> HIDE DEF pin
<1>3. list \in Discoveries /\ InFolder(list, e.path) \in SUBSET DOMAIN list
  BY <1>1, WorldFits, DiscoveriesAre
<1>4. PICK k \in InFolder(list, e.path) : t = Discovered(e.repo, Slug[e.repo], pin, list[k])
  BY <1>1, <1>2, <1>3, TakeRepoIs
<1>5. e.repo \in LocalUrls \/ Allows(c, e.repo)
  BY <1>1, <1>2, <1>3, TakeRepoIs
<1>6. list[k] \in Harness /\ list[k].path = e.path
  BY <1>3, <1>4, DiscoveriesAre DEF InFolder
<1>7. Slug[e.repo] \in Slugs \union {NoSlug}
  BY <1>1, SettingsAssumption
<1> HIDE DEF t, list
<1>8. t.from = e.repo /\ t.ref = pin /\ t.path = list[k].path /\ t.name = list[k].name
  BY <1>4 DEF Discovered
<1>9. IsEntry(t, e)
  BY <1>1, <1>4, <1>6, <1>8 DEF IsEntry, list
<1> QED BY <1>2, <1>5, <1>9

\* Of some places in some lists there is a first.
LEMMA FirstPlaceIs ==
  ASSUME NEW places \in SUBSET (Nat \X Nat), places # {}
  PROVE  FirstPlace(places) \in places /\ \A other \in places : Before(FirstPlace(places), other)
<1> DEFINE I == { i \in Nat : \E k \in Nat : <<i, k>> \in places }
<1>1. \A p \in places : p[1] \in Nat /\ p[2] \in Nat /\ p = <<p[1], p[2]>>
  OBVIOUS
<1>2. I \in SUBSET Nat /\ I # {}
  BY <1>1
<1>3. PICK i \in I : \A j \in I : i <= j
  <2> HIDE DEF I
  <2> QED BY <1>2, Smallest
<1> DEFINE K == { k \in Nat : <<i, k>> \in places }
<1>4. K \in SUBSET Nat /\ K # {}
  OBVIOUS
<1>5. PICK k \in K : \A l \in K : k <= l
  <2> HIDE DEF K
  <2> QED BY <1>4, Smallest
<1>6. <<i, k>> \in places /\ i \in Nat /\ k \in Nat
  OBVIOUS
<1>7. ASSUME NEW p \in places PROVE Before(<<i, k>>, p)
  <2>1. p[1] \in I /\ i <= p[1]
    BY <1>1, <1>3
  <2>2. p[1] = i => p[2] \in K /\ k <= p[2]
    BY <1>1, <1>5
  <2>3. i < p[1] \/ (i = p[1] /\ k <= p[2])
    BY <1>1, <1>6, <2>1, <2>2
  <2>4. <<i, k>>[1] = i /\ <<i, k>>[2] = k
    OBVIOUS
  <2> QED BY <2>3, <2>4 DEF Before
<1>8. \E p \in places : \A other \in places : Before(p, other)
  BY <1>6, <1>7
<1> QED BY <1>8 DEF FirstPlace

\* What the registries of a configuration list, if all of them can be read.
IsListed(c, p) == p[1] \in DOMAIN c.registries /\ p[2] \in DOMAIN world.index[c.registries[p[1]]] /\ p = <<p[1], p[2]>>

LEMMA ListingIs ==
  ASSUME NEW c, NEW name
  PROVE  /\ \A p \in Listing(c, name) : IsListed(c, p) /\ Same(EntryAt(c, p).name, name)
         /\ LookupExact(c, name, {}) = Listing(c, name)
         /\ \A label : \A p \in LookupExact(c, name, {label}) :
              p \in Listing(c, name) /\ label \in Carries[c.registries[p[1]]]
<1>1. \A i, k : <<i, k>>[1] = i /\ <<i, k>>[2] = k
  OBVIOUS
<1>2. \A p : p \in Listing(c, name) <=> \E i \in DOMAIN c.registries : \E k \in DOMAIN world.index[c.registries[i]] :
               p = <<i, k>> /\ Same(world.index[c.registries[i]][k].name, name)
  BY <1>1 DEF Listing, EntryAt
<1>3. \A labels : \A p : p \in LookupExact(c, name, labels) <=>
        \E i \in DOMAIN c.registries : \E k \in DOMAIN world.index[c.registries[i]] :
          p = <<i, k>> /\ Same(world.index[c.registries[i]][k].name, name)
            /\ (labels = {} \/ labels \intersect Carries[c.registries[i]] # {})
  BY DEF LookupExact
<1>4. \A p \in Listing(c, name) : IsListed(c, p) /\ Same(EntryAt(c, p).name, name)
  BY <1>1, <1>2 DEF IsListed, EntryAt
<1>5. LookupExact(c, name, {}) = Listing(c, name)
  BY <1>2, <1>3
<1>6. \A label : \A p \in LookupExact(c, name, {label}) : p \in Listing(c, name) /\ label \in Carries[c.registries[p[1]]]
  BY <1>1, <1>2, <1>3
<1> QED BY <1>4, <1>5, <1>6

LEMMA EntriesAre ==
  ASSUME world \in World, NEW c \in Configurations, c.registries = <<>> \/ Readable(c)
  PROVE  /\ \A i \in DOMAIN c.registries : c.registries[i] \in Urls /\ world.index[c.registries[i]] \in Seq(Entries)
         /\ \A p : IsListed(c, p) => EntryAt(c, p) \in Entries /\ p \in Nat \X Nat
<1>1. c.registries \in Seq(Urls)
  BY DEF Configurations
<1>2. DOMAIN c.registries = 1..Len(c.registries) /\ Len(c.registries) \in Nat /\ \A i \in DOMAIN c.registries : c.registries[i] \in Urls
  BY <1>1
<1>3. \A i \in DOMAIN c.registries : world.index[c.registries[i]] # None
  BY <1>1, <1>2 DEF Readable
<1>4. \A i \in DOMAIN c.registries : world.index[c.registries[i]] \in Seq(Entries)
  BY <1>2, <1>3, WorldFits
<1>5. ASSUME NEW p, IsListed(c, p) PROVE EntryAt(c, p) \in Entries /\ p \in Nat \X Nat
  <2>1. p[1] \in DOMAIN c.registries /\ p[2] \in DOMAIN world.index[c.registries[p[1]]] /\ p = <<p[1], p[2]>>
    BY <1>5 DEF IsListed
  <2>2. world.index[c.registries[p[1]]] \in Seq(Entries)
    BY <1>4, <2>1
  <2> DEFINE list == world.index[c.registries[p[1]]]
  <2> HIDE DEF list
  <2>3. list \in Seq(Entries) /\ p[2] \in DOMAIN list
    BY <2>1, <2>2 DEF list
  <2>4. list[p[2]] \in Entries /\ p[2] \in Nat
    BY <2>3
  <2>5. p[1] \in Nat
    BY <1>2, <2>1
  <2> QED BY <2>1, <2>4, <2>5 DEF EntryAt, list
<1> QED BY <1>2, <1>4, <1>5

\* What the user's directories hold.
LEMMA InSourcesIs ==
  ASSUME world \in World, NEW c \in Configurations, NEW name
  PROVE  /\ SearchSources(c, name) = InSources(c, name)
         /\ InSources(c, name) \in SUBSET (Nat \X Nat)
         /\ \A p \in InSources(c, name) :
              /\ p[1] \in DOMAIN c.sources /\ c.sources[p[1]].dir \in Dirs
              /\ p[2] \in DOMAIN world.dirs[c.sources[p[1]].dir] /\ HarnessAt(c, p) \in Harness
<1>1. \A i, k : <<i, k>>[1] = i /\ <<i, k>>[2] = k
  OBVIOUS
<1>2. \A p : p \in InSources(c, name) <=> \E i \in DOMAIN c.sources : \E k \in DOMAIN world.dirs[c.sources[i].dir] :
        p = <<i, k>> /\ world.dirs[c.sources[i].dir][k].depth <= 2 /\ Same(world.dirs[c.sources[i].dir][k].name, name)
  BY <1>1 DEF InSources, HarnessAt
<1>3. \A p : p \in SearchSources(c, name) <=> \E i \in DOMAIN c.sources : \E k \in DOMAIN world.dirs[c.sources[i].dir] :
        p = <<i, k>> /\ world.dirs[c.sources[i].dir][k].depth <= 2 /\ Same(world.dirs[c.sources[i].dir][k].name, name)
  BY DEF SearchSources, Discover
<1>4. DOMAIN c.sources \in SUBSET Nat /\ \A i \in DOMAIN c.sources : c.sources[i].dir \in Dirs
  <2> DEFINE Source == [ title : Titles, dir : Dirs ]
  <2>1. c.sources \in Seq(Source) /\ \A s \in Source : s.dir \in Dirs
    BY DEF Configurations
  <2> HIDE DEF Source
  <2>2. DOMAIN c.sources = 1..Len(c.sources) /\ \A i \in DOMAIN c.sources : c.sources[i] \in Source
    BY <2>1
  <2> QED BY <2>1, <2>2
<1>5. ASSUME NEW i \in DOMAIN c.sources, NEW k \in DOMAIN world.dirs[c.sources[i].dir]
      PROVE  k \in Nat /\ world.dirs[c.sources[i].dir][k] \in Harness
  <2> DEFINE list == world.dirs[c.sources[i].dir]
  <2>1. list \in Discoveries
    BY <1>4, WorldFits
  <2> HIDE DEF list
  <2>2. list \in Seq(Harness)
    BY <2>1 DEF Discoveries
  <2>3. \A j \in DOMAIN list : j \in Nat /\ list[j] \in Harness
    BY <2>2
  <2> QED BY <2>3 DEF list
<1>6. ASSUME NEW p \in InSources(c, name)
      PROVE  /\ p \in Nat \X Nat /\ p[1] \in DOMAIN c.sources /\ c.sources[p[1]].dir \in Dirs
             /\ p[2] \in DOMAIN world.dirs[c.sources[p[1]].dir] /\ HarnessAt(c, p) \in Harness
  <2>3. PICK i \in DOMAIN c.sources : \E k \in DOMAIN world.dirs[c.sources[i].dir] : p = <<i, k>>
    BY <1>2
  <2>1. PICK k \in DOMAIN world.dirs[c.sources[i].dir] : p = <<i, k>>
    BY <2>3
  <2>2. p[1] = i /\ p[2] = k
    BY <1>1, <2>1
  <2> QED BY <1>4, <1>5, <2>1, <2>2 DEF HarnessAt
<1>7. InSources(c, name) \in SUBSET (Nat \X Nat)
  BY <1>6
<1> QED BY <1>2, <1>3, <1>6, <1>7

\* What InstallsWhatIsMeant says of one install.
Means(c, a, t) ==
  /\ t.from \in Urls \ LocalUrls => Allows(c, t.from)
  /\ a.kind = "name" =>
       IF InSources(c, a.name) # {}
       THEN \E p \in InSources(c, a.name) :
              /\ \A other \in InSources(c, a.name) : Before(p, other)
              /\ <<t.from, t.path, t.name>> = <<c.sources[p[1]].dir, HarnessAt(c, p).path, HarnessAt(c, p).name>>
       ELSE \E p \in Listing(c, a.name) : Listing(c, a.name) = {p} /\ IsEntry(t, EntryAt(c, p))
  /\ a.kind = "qualified" => \E p \in Listing(c, a.name) : a.label \in Carries[c.registries[p[1]]] /\ IsEntry(t, EntryAt(c, p))
  /\ a.kind = "id" => t.id = <<a.slug, a.name>> /\ t.from = Https[a.slug]

\* What is led to from a repository, by its parts.
LEMMA FromRepo ==
  ASSUME world \in World, NEW c \in Configurations, NEW url \in Urls, NEW found \in SUBSET DOMAIN world.repos[url][Tip],
         TakeRepo(c, url, Tip, found) # Refused
  PROVE  LET t == TakeRepo(c, url, Tip, found) IN
         /\ t.from = url /\ (t.from \in Urls \ LocalUrls => Allows(c, t.from))
         /\ \E k \in found : t.path = world.repos[url][Tip][k].path /\ t.name = world.repos[url][Tip][k].name
                               /\ t.id = <<Slug[url], world.repos[url][Tip][k].name>>
<1> DEFINE t == TakeRepo(c, url, Tip, found)
<1>1. (url \in LocalUrls \/ Allows(c, url)) /\ \E k \in found : t = Discovered(url, Slug[url], Tip, world.repos[url][Tip][k])
  BY TakeRepoIs
<1> HIDE DEF t
<1>2. PICK k \in found : t = Discovered(url, Slug[url], Tip, world.repos[url][Tip][k])
  BY <1>1
<1>3. t.from = url /\ t.path = world.repos[url][Tip][k].path /\ t.name = world.repos[url][Tip][k].name
        /\ t.id = <<Slug[url], world.repos[url][Tip][k].name>>
  BY <1>2 DEF Discovered
<1> QED BY <1>1, <1>3 DEF t

\* And from a directory.
LEMMA FromDir ==
  ASSUME world \in World, NEW c \in Configurations, NEW d \in Dirs, NEW found \in SUBSET DOMAIN world.dirs[d],
         TakeDir(d, found) # Refused
  PROVE  LET t == TakeDir(d, found) IN
         /\ t.from = d /\ t.from \notin Urls \ LocalUrls
         /\ \E k \in found : t.path = world.dirs[d][k].path /\ t.name = world.dirs[d][k].name
                               /\ t.id = <<NoSlug, world.dirs[d][k].name>>
<1> DEFINE t == TakeDir(d, found)
<1>1. \E k \in found : t = Discovered(d, NoSlug, Tip, world.dirs[d][k])
  BY TakeDirIs
<1> HIDE DEF t
<1>2. PICK k \in found : t = Discovered(d, NoSlug, Tip, world.dirs[d][k])
  BY <1>1
<1>3. t.from = d /\ t.path = world.dirs[d][k].path /\ t.name = world.dirs[d][k].name /\ t.id = <<NoSlug, world.dirs[d][k].name>>
  BY <1>2 DEF Discovered
<1>4. d \notin Urls \ LocalUrls
  BY SettingsAssumption
<1> QED BY <1>3, <1>4 DEF t

\* And from an entry of an index.
LEMMA FromEntry ==
  ASSUME world \in World, NEW c \in Configurations, NEW name, NEW p \in Listing(c, name), Readable(c),
         TakeEntry(c, EntryAt(c, p)) # Refused
  PROVE  LET t == TakeEntry(c, EntryAt(c, p)) IN
         IsEntry(t, EntryAt(c, p)) /\ (t.from \in Urls \ LocalUrls => Allows(c, t.from))
<1> DEFINE t == TakeEntry(c, EntryAt(c, p))
           e == EntryAt(c, p)
<1>1. e \in Entries
  BY ListingIs, EntriesAre
<1> HIDE DEF e
<1>2. IsEntry(t, e) /\ (e.repo \in LocalUrls \/ Allows(c, e.repo))
  BY <1>1, TakeEntryIs DEF e
<1> HIDE DEF t
<1>3. t.from = e.repo
  BY <1>2 DEF IsEntry
<1> QED BY <1>2, <1>3 DEF t, e

\* Readable registries list so many entries.
LEMMA ListingFinite ==
  ASSUME world \in World, NEW c \in Configurations, NEW name, Readable(c)
  PROVE  IsFiniteSet(Listing(c, name))
<1> DEFINE n == Len(c.registries)
           rows(i) == {i} \X DOMAIN world.index[c.registries[i]]
           R == { rows(i) : i \in DOMAIN c.registries }
<1>1. n \in Nat /\ DOMAIN c.registries = 1..n
  BY DEF Configurations
<1>2. ASSUME NEW i \in DOMAIN c.registries PROVE IsFiniteSet(rows(i))
  <2> DEFINE list == world.index[c.registries[i]]
  <2>1. list \in Seq(Entries)
    BY EntriesAre
  <2> HIDE DEF list
  <2>2. DOMAIN list = 1..Len(list) /\ Len(list) \in Nat
    BY <2>1
  <2>3. IsFiniteSet(DOMAIN list) /\ IsFiniteSet({i})
    <3>1. IsFiniteSet(1..Len(list))
      BY <2>2, FS_Interval
    <3>2. IsFiniteSet({i})
      BY FS_Singleton, Zenon
    <3> QED BY <2>2, <3>1, <3>2
  <2>4. IsFiniteSet({i} \X DOMAIN list)
    <3> DEFINE I == {i}
               D == DOMAIN list
    <3>1. IsFiniteSet(I) /\ IsFiniteSet(D)
      BY <2>3
    <3> HIDE DEF I, D
    <3>2. IsFiniteSet(I \X D)
      BY <3>1, FS_Product
    <3> QED BY <3>2 DEF I, D
  <2> QED BY <2>4 DEF list
<1>3. IsFiniteSet(DOMAIN c.registries)
  BY <1>1, FS_Interval
<1>4. IsFiniteSet(R)
  <2> DEFINE f == [i \in DOMAIN c.registries |-> rows(i)]
  <2>1. f \in Surjection(DOMAIN c.registries, R)
    <3> HIDE DEF rows
    <3> QED BY DEF Surjection
  <2> HIDE DEF f, R
  <2> QED BY <1>3, <2>1, FS_Surjection
<1>5. \A X \in R : IsFiniteSet(X)
  <2> HIDE DEF rows
  <2> QED BY <1>2
<1>6. Listing(c, name) \in SUBSET UNION R
  BY DEF Listing
<1> HIDE DEF R
<1> QED BY <1>4, <1>5, <1>6, FS_UNION, FS_Subset

LEMMA PlainMeans ==
  ASSUME world \in World, NEW c \in Configurations, NEW a \in [ kind : {"name"}, name : Words ],
         ResolveInstallSource(c, a) # Refused
  PROVE  Means(c, a, ResolveInstallSource(c, a))
<1> DEFINE t == ResolveInstallSource(c, a)
           here == InSources(c, a.name)
           p == FirstPlace(here)
           d == c.sources[p[1]].dir
           listed == Listing(c, a.name)
<1>1. a.kind = "name" /\ a.name \in Words
  OBVIOUS
<1>2. t = IF here # {} THEN TakeDir(d, {p[2]}) ELSE SearchFromRegistry(c, a.name)
  <2>1. SearchSources(c, a.name) = here
    BY InSourcesIs
  <2> HIDE DEF here
  <2> QED BY <1>1, <2>1 DEF ResolveInstallSource
<1> HIDE DEF t
<1>3. CASE here # {}
  <2>1. p \in here /\ \A other \in here : Before(p, other)
    BY <1>3, InSourcesIs, FirstPlaceIs
  <2>2. d \in Dirs /\ p[2] \in DOMAIN world.dirs[d]
    BY <2>1, InSourcesIs
  <2>3. HarnessAt(c, p) = world.dirs[d][p[2]]
    BY DEF HarnessAt
  <2> HIDE DEF p, d, here
  <2>4. t = TakeDir(d, {p[2]})
    BY <1>2, <1>3
  <2>5. TakeDir(d, {p[2]}) # Refused
    BY <2>2, TakeDirIs
  <2>6. t.from = d /\ t.from \notin Urls \ LocalUrls /\ \E k \in {p[2]} : t.path = world.dirs[d][k].path /\ t.name = world.dirs[d][k].name
    BY <2>2, <2>4, <2>5, FromDir
  <2>7. <<t.from, t.path, t.name>> = <<d, HarnessAt(c, p).path, HarnessAt(c, p).name>>
    BY <2>3, <2>6
  <2>8. \E q \in here : /\ \A other \in here : Before(q, other)
                        /\ <<t.from, t.path, t.name>> = <<c.sources[q[1]].dir, HarnessAt(c, q).path, HarnessAt(c, q).name>>
    BY <2>1, <2>7 DEF d
  <2>9. Means(c, a, t)
    BY <1>1, <1>3, <2>6, <2>8 DEF Means, here
  <2> QED BY <2>9 DEF t
<1>4. CASE here = {}
  <2> DEFINE q == FirstPlace(listed)
  <2>1. LookupExact(c, a.name, {}) = listed
    BY ListingIs
  <2>2. t # Refused
    BY DEF t
  <2> HIDE DEF listed, here
  <2>3. Readable(c) /\ Cardinality(listed) = 1 /\ t = TakeEntry(c, EntryAt(c, q))
    BY <1>2, <1>4, <2>1, <2>2 DEF SearchFromRegistry
  <2>4. \A x : listed = {x} => x \in listed
    OBVIOUS
  <2>5. \E x : listed = {x}
    <3>1. IsFiniteSet(listed)
      BY <2>3, ListingFinite DEF listed
    <3> QED BY <2>3, <3>1, FS_Singleton
  <2>6. PICK x : listed = {x}
    BY <2>5
  <2>7. q = x
    <3>1. x \in Nat \X Nat
      BY <2>3, <2>6, ListingIs, EntriesAre DEF listed
    <3>2. q \in listed
      BY <2>6, <3>1, FirstPlaceIs
    <3> QED BY <2>6, <3>2
  <2>8. q \in Listing(c, a.name) /\ listed = {q}
    BY <2>6, <2>7 DEF listed
  <2> HIDE DEF q
  <2>9. IsEntry(t, EntryAt(c, q)) /\ (t.from \in Urls \ LocalUrls => Allows(c, t.from))
    BY <2>2, <2>3, <2>8, FromEntry
  <2>10. Means(c, a, t)
    BY <1>1, <1>4, <2>8, <2>9 DEF Means, here, listed
  <2> QED BY <2>10 DEF t
<1> QED BY <1>3, <1>4

\* Whatever the argument, an install is led to what it means.
LEMMA ArgumentMeans ==
  ASSUME world \in World, NEW c \in Configurations, NEW a \in Arguments, ResolveInstallSource(c, a) # Refused
  PROVE  Means(c, a, ResolveInstallSource(c, a))
<1> DEFINE t == ResolveInstallSource(c, a)
<1>1. ASSUME a \in [ kind : {"dir"}, dir : Dirs, path : Folders ] PROVE Means(c, a, t)
  <2> DEFINE found == InFolder(world.dirs[a.dir], a.path)
  <2>1. a.kind = "dir" /\ a.dir \in Dirs
    BY <1>1
  <2>2. t = TakeDir(a.dir, found)
    BY <2>1 DEF ResolveInstallSource
  <2> HIDE DEF t
  <2>3. found \in SUBSET DOMAIN world.dirs[a.dir] /\ t # Refused
    BY DEF InFolder, t
  <2>4. t.from \notin Urls \ LocalUrls
    BY <2>1, <2>2, <2>3, FromDir
  <2> QED BY <2>1, <2>4 DEF Means
<1>2. ASSUME a \in [ kind : {"url"}, url : Urls ] PROVE Means(c, a, t)
  <2> DEFINE found == InFolder(world.repos[a.url][Tip], Root)
  <2>1. a.kind = "url" /\ a.url \in Urls
    BY <1>2
  <2>2. t = TakeRepo(c, a.url, Tip, found)
    BY <2>1 DEF ResolveInstallSource
  <2> HIDE DEF t
  <2>3. found \in SUBSET DOMAIN world.repos[a.url][Tip] /\ t # Refused
    BY DEF InFolder, t
  <2>4. t.from \in Urls \ LocalUrls => Allows(c, t.from)
    BY <2>1, <2>2, <2>3, FromRepo
  <2> QED BY <2>1, <2>4 DEF Means
<1>3. ASSUME a \in [ kind : {"qualified"}, name : Words, label : Labels ] PROVE Means(c, a, t)
  <2> DEFINE found == LookupExact(c, a.name, {a.label})
             p == FirstPlace(found)
  <2>1. a.kind = "qualified"
    BY <1>3
  <2>2. t = LookupFromRegistry(c, a.name, a.label)
    BY <2>1 DEF ResolveInstallSource
  <2> HIDE DEF t
  <2>3. t # Refused
    BY DEF t
  <2>4. Readable(c) /\ found # {} /\ t = TakeEntry(c, EntryAt(c, p))
    BY <2>2, <2>3 DEF LookupFromRegistry
  <2> HIDE DEF p, found
  <2>5. found \in SUBSET (Nat \X Nat)
    BY <2>4, ListingIs, EntriesAre DEF found
  <2>6. p \in found
    BY <2>4, <2>5, FirstPlaceIs DEF p
  <2>7. p \in Listing(c, a.name) /\ a.label \in Carries[c.registries[p[1]]]
    BY <2>6, ListingIs DEF found
  <2>8. IsEntry(t, EntryAt(c, p)) /\ (t.from \in Urls \ LocalUrls => Allows(c, t.from))
    BY <2>3, <2>4, <2>7, FromEntry
  <2> QED BY <2>1, <2>7, <2>8 DEF Means
<1>4. ASSUME a \in [ kind : {"localId"} ] PROVE FALSE
  <2>1. a.kind = "localId"
    BY <1>4
  <2>2. t = Refused
    BY <2>1 DEF ResolveInstallSource
  <2> QED BY <2>2
<1>5. ASSUME a \in [ kind : {"id"}, slug : Slugs, name : Words ] PROVE Means(c, a, t)
  <2> DEFINE url == Https[a.slug]
             list == world.repos[url][Tip]
             found == { k \in Discover(list, 4) : list[k].name = a.name }
  <2>1. a.kind = "id" /\ a.slug \in Slugs /\ url \in Urls /\ Slug[url] = a.slug
    BY <1>5, SettingsAssumption
  <2>2. t = TakeRepo(c, url, Tip, found)
    BY <2>1 DEF ResolveInstallSource, TakeId
  <2> HIDE DEF t
  <2>3. found \in SUBSET DOMAIN list /\ t # Refused /\ \A k \in found : list[k].name = a.name
    BY DEF Discover, t
  <2> HIDE DEF found, url
  <2>4. /\ t.from = url /\ (t.from \in Urls \ LocalUrls => Allows(c, t.from))
        /\ \E k \in found : t.id = <<Slug[url], list[k].name>>
    BY <2>1, <2>2, <2>3, FromRepo
  <2>5. t.id = <<a.slug, a.name>>
    BY <2>1, <2>3, <2>4
  <2> QED BY <2>1, <2>4, <2>5 DEF Means, url
<1>6. ASSUME a \in [ kind : {"subpath"}, slug : Slugs, path : Folders ] PROVE Means(c, a, t)
  <2> DEFINE url == Https[a.slug]
             found == InFolder(world.repos[url][Tip], a.path)
  <2>1. a.kind = "subpath" /\ a.slug \in Slugs /\ url \in Urls
    BY <1>6, SettingsAssumption
  <2>2. t = TakeRepo(c, url, Tip, found)
    BY <2>1 DEF ResolveInstallSource
  <2> HIDE DEF t
  <2>3. found \in SUBSET DOMAIN world.repos[url][Tip] /\ t # Refused
    BY DEF InFolder, t
  <2>4. t.from \in Urls \ LocalUrls => Allows(c, t.from)
    BY <2>1, <2>2, <2>3, FromRepo
  <2> QED BY <2>1, <2>4 DEF Means
<1>7. ASSUME a \in [ kind : {"name"}, name : Words ] PROVE Means(c, a, t)
  BY <1>7, PlainMeans
<1> HIDE DEF t
<1>8. Means(c, a, t)
  BY <1>1, <1>2, <1>3, <1>4, <1>5, <1>6, <1>7 DEF Arguments
<1> QED BY <1>8 DEF t

-----------------------------------------------------------------------------
\* What a search shows, if it is installed.

\* What SearchedInstalls says of one result.
Shows(c, r) ==
  LET t == ResolveInstallSource(c, r.install)
  IN /\ t # Refused => t.name = r.name /\ t.id = r.id
     /\ r.entry = None => t # Refused /\ t.from = r.dir
     /\ r.entry # None =>
          LET repo == world.repos[r.entry.repo][Tip]
              lone == \E k \in Discover(repo, 4) :
                        repo[k].path = r.entry.path /\ \A j \in Discover(repo, 4) : repo[j].name = r.entry.name <=> j = k
              spelled == r.id[1] \in Slugs /\ r.entry.repo = Https[r.id[1]]
          IN spelled /\ r.entry.ref = Tip /\ ~r.entry.moved /\ lone /\ Allows(c, r.entry.repo)
               => t # Refused /\ t = TakeEntry(c, r.entry)

\* In a directory, the folder tells which harness.
LEMMA SourceShows ==
  ASSUME world \in World, NEW c \in Configurations, NEW d \in Dirs, NEW i \in DOMAIN world.dirs[d]
  PROVE  Shows(c, SourceResult(d, world.dirs[d][i]))
<1> DEFINE list == world.dirs[d]
           h == list[i]
           r == SourceResult(d, h)
           found == InFolder(list, h.path)
           t == TakeDir(d, found)
<1>1. r.name = h.name /\ r.id = <<NoSlug, h.name>> /\ r.entry = None /\ r.dir = d
        /\ r.install = [ kind |-> "dir", dir |-> d, path |-> h.path ]
  BY DEF SourceResult
<1>2. ResolveInstallSource(c, r.install) = t
  <2> HIDE DEF r, h
  <2>1. r.install.kind = "dir" /\ r.install.dir = d /\ r.install.path = h.path
    BY <1>1
  <2> QED BY <2>1 DEF ResolveInstallSource
<1>3. list \in Discoveries
  BY WorldFits
<1>4. found = {i}
  <2> HIDE DEF list
  <2> QED BY <1>3, DiscoveriesAre DEF InFolder, list
<1> HIDE DEF r, h
<1>5. found \in SUBSET DOMAIN world.dirs[d] /\ found # {}
  BY <1>4
<1> HIDE DEF found
<1>6. t # Refused
  BY <1>5, TakeDirIs
<1>7. t.from = d /\ \E k \in found : t.name = world.dirs[d][k].name /\ t.id = <<NoSlug, world.dirs[d][k].name>>
  BY <1>5, <1>6, FromDir
<1>8. t.name = h.name /\ t.id = <<NoSlug, h.name>>
  BY <1>4, <1>7 DEF h
<1> HIDE DEF t
<1>9. Shows(c, r)
  BY <1>1, <1>2, <1>6, <1>7, <1>8 DEF Shows
<1> QED BY <1>9 DEF r, h

\* An id leads to the harness of that name in the repository it spells.
LEMMA RegistryShows ==
  ASSUME world \in World, NEW c \in Configurations, NEW e \in Entries
  PROVE  Shows(c, RegistryResult(e))
<1> DEFINE r == RegistryResult(e)
           t == ResolveInstallSource(c, r.install)
<1>1. r.name = e.name /\ r.id = <<Slug[e.repo], e.name>> /\ r.entry = e
        /\ r.install = IF Slug[e.repo] = NoSlug THEN [ kind |-> "localId" ]
                       ELSE [ kind |-> "id", slug |-> Slug[e.repo], name |-> e.name ]
  BY DEF RegistryResult, CanonicalID
<1>2. e # None /\ e.repo \in Urls /\ Slug[e.repo] \in Slugs \union {NoSlug} /\ NoSlug \notin Slugs
  BY SettingsAssumption DEF Entries
<1> HIDE DEF r
<1>3. CASE Slug[e.repo] = NoSlug
  <2>1. r.install.kind = "localId"
    BY <1>1, <1>3
  <2>2. t = Refused
    BY <2>1 DEF ResolveInstallSource
  <2>3. r.id[1] \notin Slugs
    BY <1>1, <1>2, <1>3
  <2>4. Shows(c, r)
    BY <1>1, <1>2, <2>2, <2>3 DEF Shows
  <2> QED BY <2>4 DEF r
<1>4. CASE Slug[e.repo] # NoSlug
  <2> DEFINE slug == Slug[e.repo]
             url == Https[slug]
             list == world.repos[url][Tip]
             found == { k \in Discover(list, 4) : list[k].name = e.name }
             u == TakeRepo(c, url, Tip, found)
  <2>1. slug \in Slugs /\ url \in Urls /\ Slug[url] = slug
    BY <1>2, <1>4, SettingsAssumption
  <2>2. r.install.kind = "id" /\ r.install.slug = slug /\ r.install.name = e.name
    BY <1>1, <1>4
  <2>3. t = u
    BY <2>2 DEF ResolveInstallSource, TakeId
  <2>4. found \in SUBSET DOMAIN list /\ \A k \in found : list[k].name = e.name
    BY DEF Discover
  <2>5. list \in Discoveries
    BY <2>1, WorldFits
  <2> HIDE DEF found, url, slug
  <2>6. ASSUME u # Refused PROVE u.name = e.name /\ u.id = <<slug, e.name>>
    <3>1. \E k \in found : u.name = list[k].name /\ u.id = <<Slug[url], list[k].name>>
      BY <2>1, <2>4, <2>6, FromRepo
    <3> HIDE DEF u
    <3> QED BY <2>1, <2>4, <3>1
  <2>7. ASSUME e.repo = url, e.ref = Tip, ~e.moved, Allows(c, e.repo),
               NEW i \in Discover(list, 4), list[i].path = e.path, \A j \in Discover(list, 4) : list[j].name = e.name <=> j = i
        PROVE  u # Refused /\ u = TakeEntry(c, e)
    <3>1. found = {i}
      BY <2>7 DEF found
    <3>2. InFolder(list, e.path) = {i}
      <4> HIDE DEF list
      <4> QED BY <2>5, <2>7, DiscoveriesAre DEF InFolder, Discover
    <3>3. u # Refused
      BY <2>1, <2>4, <2>7, <3>1, TakeRepoIs
    <3>4. TakeEntry(c, e) = TakeRepo(c, url, Tip, InFolder(list, e.path))
      BY <2>7 DEF TakeEntry
    <3> QED BY <3>1, <3>2, <3>3, <3>4
  <2> HIDE DEF u, t
  <2>8. r.id[1] = slug /\ r.entry.repo = e.repo
    BY <1>1 DEF slug
  <2>9. e.repo = Https[r.id[1]] => e.repo = url
    BY <2>8 DEF url
  <2>10. t # Refused => t.name = r.name /\ t.id = r.id
    BY <1>1, <2>3, <2>6 DEF slug
  <2>11. ASSUME r.entry.repo = Https[r.id[1]], r.entry.ref = Tip, ~r.entry.moved, Allows(c, r.entry.repo),
                \E k \in Discover(world.repos[r.entry.repo][Tip], 4) :
                  /\ world.repos[r.entry.repo][Tip][k].path = r.entry.path
                  /\ \A j \in Discover(world.repos[r.entry.repo][Tip], 4) : world.repos[r.entry.repo][Tip][j].name = r.entry.name <=> j = k
         PROVE  t # Refused /\ t = TakeEntry(c, r.entry)
    <3>1. e.repo = url /\ r.entry = e /\ world.repos[r.entry.repo][Tip] = list
      BY <1>1, <2>9, <2>11
    <3> HIDE DEF list
    <3>2. PICK i \in Discover(list, 4) : list[i].path = e.path /\ \A j \in Discover(list, 4) : list[j].name = e.name <=> j = i
      BY <2>11, <3>1
    <3> QED BY <2>3, <2>7, <2>11, <3>1, <3>2
  <2>12. Shows(c, r)
    BY <1>1, <1>2, <2>10, <2>11 DEF Shows, t
  <2> QED BY <2>12 DEF r
<1> QED BY <1>3, <1>4

LEMMA SearchShows ==
  ASSUME world \in World, NEW c \in Configurations, c.registries = <<>> \/ Readable(c), NEW r \in UnifiedSearch(c)
  PROVE  Shows(c, r)
<1>1. CASE \E url \in ToSet(c.registries) : \E k \in DOMAIN world.index[url] : r = RegistryResult(world.index[url][k])
  <2>1. PICK i \in DOMAIN c.registries : \E k \in DOMAIN world.index[c.registries[i]] : r = RegistryResult(world.index[c.registries[i]][k])
    BY <1>1 DEF ToSet
  <2>2. PICK k \in DOMAIN world.index[c.registries[i]] : r = RegistryResult(world.index[c.registries[i]][k])
    BY <2>1
  <2> DEFINE list == world.index[c.registries[i]]
  <2>3. list \in Seq(Entries)
    BY EntriesAre
  <2>4. list[k] \in Entries
    <3> HIDE DEF list
    <3>1. k \in DOMAIN list
      BY DEF list
    <3> QED BY <2>3, <3>1
  <2> QED BY <2>2, <2>4, RegistryShows
<1>2. CASE \E s \in ToSet(c.sources) : \E k \in Discover(world.dirs[s.dir], 2) : r = SourceResult(s.dir, world.dirs[s.dir][k])
  <2> DEFINE Source == [ title : Titles, dir : Dirs ]
  <2>1. PICK s \in ToSet(c.sources) : \E k \in Discover(world.dirs[s.dir], 2) : r = SourceResult(s.dir, world.dirs[s.dir][k])
    BY <1>2
  <2>2. PICK k \in Discover(world.dirs[s.dir], 2) : r = SourceResult(s.dir, world.dirs[s.dir][k])
    BY <2>1
  <2>3. s.dir \in Dirs
    <3>1. c.sources \in Seq(Source) /\ \A x \in Source : x.dir \in Dirs
      BY DEF Configurations
    <3> HIDE DEF Source
    <3>2. \A i \in DOMAIN c.sources : c.sources[i] \in Source
      BY <3>1
    <3> QED BY <2>1, <3>1, <3>2 DEF ToSet
  <2>4. k \in DOMAIN world.dirs[s.dir]
    BY <2>2 DEF Discover
  <2> QED BY <2>2, <2>3, <2>4, SourceShows
<1> QED BY <1>1, <1>2 DEF UnifiedSearch

-----------------------------------------------------------------------------
\* What a command was led to, or shows, is what its copy makes of its argument.

AtHand(r) ==
  /\ r.pc = "install" => r.arg \in Asked
  /\ r.pc # "done" => r.took = None /\ r.found = {}
  /\ r.took \in {None, Offline} \/ (r.arg \in Asked /\ r.took = ResolveInstallSource(r.copy, r.arg))
  /\ r.found = {} \/ ((r.copy.registries = <<>> \/ Readable(r.copy)) /\ r.found = UnifiedSearch(r.copy))

LookupInv == world \in Worlds /\ \A u \in Users : AtHand(call[u])

LEMMA AtRest == ASSUME NEW r, r.pc \notin {"install", "done"}, r.took = None, r.found = {} PROVE AtHand(r)
BY DEF AtHand

\* What is looked up depends on the world, which does not change.
LEMMA WorldStays ==
  ASSUME UNCHANGED world
  PROVE  /\ \A c, a : ResolveInstallSource(c, a)' = ResolveInstallSource(c, a)
         /\ \A c : UnifiedSearch(c)' = UnifiedSearch(c) /\ (Readable(c)' <=> Readable(c))
<1>1. \A c, a : ResolveInstallSource(c, a)' = ResolveInstallSource(c, a)
  BY DEF ResolveInstallSource, TakeDir, TakeRepo, TakeEntry, TakeId, LookupFromRegistry, SearchFromRegistry, LookupExact,
         SearchSources, EntryAt, Readable
<1>2. \A c : UnifiedSearch(c)' = UnifiedSearch(c) /\ (Readable(c)' <=> Readable(c))
  BY DEF UnifiedSearch, Readable
<1> QED BY <1>1, <1>2

\* A step keeps it that has the command at hand, and changes no other.
LEMMA LookupKeeps ==
  ASSUME LookupInv, UNCHANGED world,
         \A v \in Users : \/ AtHand(call'[v])
                          \/ /\ call'[v].pc = call[v].pc /\ call'[v].arg = call[v].arg /\ call'[v].copy = call[v].copy
                             /\ call'[v].took = call[v].took /\ call'[v].found = call[v].found
  PROVE  LookupInv'
<1>1. \A v \in Users : AtHand(call'[v])
  BY DEF LookupInv, AtHand
<1>2. \A v \in Users : AtHand(call[v])'
  BY <1>1, WorldStays DEF AtHand
<1> QED BY <1>2 DEF LookupInv

\* The steps that change one command only.
LEMMA OneKeeps ==
  ASSUME LookupInv, SettingsTypes, UNCHANGED world, NEW u \in Users, NEW r, call' = [call EXCEPT ![u] = r], AtHand(r)
  PROVE  LookupInv'
<1>1. \A v \in Users : call'[v] = IF v = u THEN r ELSE call[v]
  BY DEF SettingsTypes
<1> QED BY <1>1, LookupKeeps

LEMMA RestingLooks == AtHand(Resting) /\ \A url : AtHand([Resting EXCEPT !.pc = "purge", !.arg = url])
<1>1. Resting.pc = "rest" /\ Resting.took = None /\ Resting.found = {}
  BY DEF Resting
<1>2. ASSUME NEW url PROVE AtHand([Resting EXCEPT !.pc = "purge", !.arg = url])
  <2> DEFINE r == [Resting EXCEPT !.pc = "purge", !.arg = url]
  <2>1. r.pc = "purge" /\ r.took = None /\ r.found = {}
    BY DEF Resting
  <2> HIDE DEF r
  <2>2. AtHand(r)
    BY <2>1, AtRest
  <2> QED BY <2>2 DEF r
<1> QED BY <1>1, <1>2, AtRest

LEMMA SaveLooks ==
  ASSUME LookupInv, SettingsTypes, NEW u \in Users, NEW copy, NEW meant, NEW then, AtHand(then),
         SaveConfig(u, copy, meant, then)
  PROVE  LookupInv'
<1>1. /\ UNCHANGED world
      /\ call' = [v \in Users |-> IF v = u THEN (IF config' = Torn THEN Resting ELSE then)
                                  ELSE [call[v] EXCEPT !.stale = TRUE]]
  BY DEF SaveConfig
<1>2. AtHand(call'[u])
  BY <1>1, RestingLooks
<1>3. ASSUME NEW v \in Users, v # u
      PROVE  /\ call'[v].pc = call[v].pc /\ call'[v].arg = call[v].arg /\ call'[v].copy = call[v].copy
             /\ call'[v].took = call[v].took /\ call'[v].found = call[v].found
  <2>1. call'[v] = [call[v] EXCEPT !.stale = TRUE]
    BY <1>1, <1>3
  <2> QED BY <2>1 DEF SettingsTypes, IsCall, CallFields
<1> QED BY <1>1, <1>2, <1>3, LookupKeeps

LEMMA EditLooks ==
  ASSUME LookupInv, SettingsTypes, NEW u \in Users, CmdInit(u) \/ EditConfig(u)
  PROVE  LookupInv'
<1>1. \E copy, meant, then : AtHand(then) /\ SaveConfig(u, copy, meant, then)
  <2>1. CASE CmdInit(u)
    BY <2>1, RestingLooks DEF CmdInit
  <2>2. CASE \E url \in Urls : CmdRegistryAdd(u, url) \/ CmdRegistryRemove(u, url)
    BY <2>2, RestingLooks DEF CmdRegistryAdd, CmdRegistryRemove, Saves
  <2>3. CASE \E title \in Titles : CmdSourcesRemove(u, title) \/ \E d \in Dirs : CmdSourcesAdd(u, [ title |-> title, dir |-> d ])
    BY <2>3, RestingLooks DEF CmdSourcesAdd, CmdSourcesRemove, Saves
  <2>4. CASE \E b \in Backends : \/ \E tool \in Tools, type \in Types \union {None} : CmdBackendAdd(u, b, tool, type)
                                 \/ \E tools \in SUBSET Tools : CmdBackendRemove(u, b, tools)
    BY <2>4, RestingLooks DEF CmdBackendAdd, CmdBackendRemove, Saves
  <2> QED BY <2>1, <2>2, <2>3, <2>4 DEF EditConfig
<1> QED BY <1>1, SaveLooks

LEMMA BeginLooks ==
  ASSUME LookupInv, SettingsTypes, NEW u \in Users, NEW pc, NEW arg, pc # "done", pc = "install" => arg \in Asked, BeginCall(u, pc, arg)
  PROVE  LookupInv'
<1> DEFINE new == [Resting EXCEPT !.pc = pc, !.copy = Load, !.arg = arg]
<1>1. UNCHANGED world /\ call' = [call EXCEPT ![u] = new]
  BY DEF BeginCall
<1>2. new.pc = pc /\ new.arg = arg /\ new.took = None /\ new.found = {}
  BY DEF Resting
<1> HIDE DEF new
<1>3. AtHand(new)
  BY <1>2 DEF AtHand
<1> QED BY <1>1, <1>3, OneKeeps

LEMMA RestLooks ==
  ASSUME LookupInv, SettingsTypes, NEW u \in Users, UNCHANGED world, call' = [call EXCEPT ![u] = Resting]
  PROVE  LookupInv'
BY RestingLooks, OneKeeps

LEMMA InstallLooks == ASSUME LookupInv, SettingsTypes, NEW u \in Users, Install(u) PROVE LookupInv'
<1> DEFINE t == ResolveInstallSource(call[u].copy, call[u].arg)
<1>1. UNCHANGED world /\ call[u].pc = "install" /\ \E took \in {t, Offline} : call' = [call EXCEPT ![u].pc = "done", ![u].took = took]
  BY DEF Install
<1>2. AtHand(call[u]) /\ IsCall(call[u]) /\ DOMAIN call = Users
  BY DEF LookupInv, SettingsTypes
<1>3. call[u].arg \in Asked /\ call[u].found = {}
  BY <1>1, <1>2 DEF AtHand
<1> HIDE DEF t
<1>4. PICK took \in {t, Offline} : call' = [call EXCEPT ![u].pc = "done", ![u].took = took]
  BY <1>1
<1> DEFINE new == [call[u] EXCEPT !.pc = "done", !.took = took]
<1>5. call' = [call EXCEPT ![u] = new]
  BY <1>2, <1>4
<1>6. new.pc = "done" /\ new.took = took /\ new.arg = call[u].arg /\ new.found = call[u].found /\ new.copy = call[u].copy
  BY <1>2 DEF IsCall, CallFields
<1> HIDE DEF new
<1>7. AtHand(new)
  BY <1>3, <1>6 DEF AtHand, t
<1> QED BY <1>1, <1>5, <1>7, OneKeeps

LEMMA SearchLooks == ASSUME LookupInv, SettingsTypes, NEW u \in Users, Search(u) PROVE LookupInv'
<1>1. UNCHANGED world /\ call[u].pc = "search"
        /\ \/ /\ call[u].copy.registries = <<>> \/ Readable(call[u].copy)
              /\ call' = [call EXCEPT ![u].pc = "done", ![u].found = UnifiedSearch(call[u].copy)]
           \/ call' = [call EXCEPT ![u] = Resting]
  BY DEF Search
<1>2. AtHand(call[u]) /\ IsCall(call[u]) /\ DOMAIN call = Users
  BY DEF LookupInv, SettingsTypes
<1>3. call[u].took = None
  BY <1>1, <1>2 DEF AtHand
<1>4. CASE call' = [call EXCEPT ![u] = Resting]
  BY <1>1, <1>4, RestLooks
<1>5. CASE /\ call[u].copy.registries = <<>> \/ Readable(call[u].copy)
           /\ call' = [call EXCEPT ![u].pc = "done", ![u].found = UnifiedSearch(call[u].copy)]
  <2> DEFINE new == [call[u] EXCEPT !.pc = "done", !.found = UnifiedSearch(call[u].copy)]
  <2>1. call' = [call EXCEPT ![u] = new]
    BY <1>2, <1>5
  <2>2. new.pc = "done" /\ new.took = call[u].took /\ new.copy = call[u].copy /\ new.found = UnifiedSearch(call[u].copy)
    BY <1>2 DEF IsCall, CallFields
  <2> HIDE DEF new
  <2>3. AtHand(new)
    BY <1>3, <1>5, <2>2 DEF AtHand
  <2> QED BY <1>1, <2>1, <2>3, OneKeeps
<1> QED BY <1>1, <1>4, <1>5

LEMMA EditByHandLooks == ASSUME LookupInv, SettingsTypes, EditByHand PROVE LookupInv'
<1>1. UNCHANGED world /\ call' = [u \in Users |-> [call[u] EXCEPT !.stale = TRUE]]
  BY DEF EditByHand
<1>2. ASSUME NEW v \in Users
      PROVE  /\ call'[v].pc = call[v].pc /\ call'[v].arg = call[v].arg /\ call'[v].copy = call[v].copy
             /\ call'[v].took = call[v].took /\ call'[v].found = call[v].found
  <2>1. call'[v] = [call[v] EXCEPT !.stale = TRUE]
    BY <1>1
  <2> QED BY <2>1 DEF SettingsTypes, IsCall, CallFields
<1> QED BY <1>1, <1>2, LookupKeeps

\* What every command was led to or shows is what its copy of the settings makes
\* of its argument in the world as it is: the inductive invariant of the lookups.
THEOREM LookupInvariant == SettingsSpec => []LookupInv
<1>1. ASSUME SettingsInit PROVE LookupInv
  <2>1. world \in Worlds /\ call = [u \in Users |-> Resting]
    BY <1>1 DEF SettingsInit
  <2> QED BY <2>1, RestingLooks DEF LookupInv
<1>2. ASSUME LookupInv, SettingsInv, [SettingsNext]_settingsVars PROVE LookupInv'
  <2>1. SettingsTypes
    BY <1>2 DEF SettingsInv
  <2>2. CASE UNCHANGED settingsVars
    <3>1. UNCHANGED <<world, call>>
      BY <2>2 DEF settingsVars
    <3> QED BY <1>2, <3>1, LookupKeeps
  <2>3. CASE EditByHand
    BY <1>2, <2>1, <2>3, EditByHandLooks
  <2>4. ASSUME NEW u \in Users,
               \/ \E pc \in {"edit", "search", "refresh"} : BeginCall(u, pc, None)
               \/ \E a \in Asked : BeginCall(u, "install", a)
               \/ BeginInit(u)
        PROVE  LookupInv'
    BY <1>2, <2>1, <2>4, BeginLooks DEF BeginInit
  <2>5. ASSUME NEW u \in Users, CmdInit(u) \/ EditConfig(u) PROVE LookupInv'
    BY <1>2, <2>1, <2>5, EditLooks
  <2>6. ASSUME NEW u \in Users, RefuseCall(u) \/ PurgeClones(u) \/ RegistryUpdate(u) PROVE LookupInv'
    <3>1. UNCHANGED world /\ call' = [call EXCEPT ![u] = Resting]
      BY <2>6 DEF RefuseCall, PurgeClones, RegistryUpdate
    <3> QED BY <1>2, <2>1, <3>1, RestLooks
  <2>7. ASSUME NEW u \in Users, Install(u) \/ Search(u) PROVE LookupInv'
    BY <1>2, <2>1, <2>7, InstallLooks, SearchLooks
  <2> QED BY <1>2, <2>2, <2>3, <2>4, <2>5, <2>6, <2>7 DEF SettingsNext
<1> QED BY <1>1, <1>2, SettingsInvariant, PTL DEF SettingsSpec

\* A harness looked up by a name, a label or an id is the one that was meant, in
\* any world, for any settings and whatever other commands do to them meanwhile;
\* a clone is made of nothing but what a pattern of the allow-list aligns with;
\* and what ynh search shows is what ynh install makes of its install key
\* (resolveInstallSource, CheckSource, unifiedSearch).
THEOREM LookupsAreHeld == SettingsSpec => []LookupsHold
<1>1. ASSUME LookupInv, SettingsInv PROVE InstallsWhatIsMeant
  <2>1. world \in World /\ \A u \in Users : call[u].copy \in Configurations
    BY <1>1, SettingsAssumption DEF LookupInv, SettingsInv, SettingsTypes, IsCall
  <2>2. ASSUME NEW u \in Users, call[u].took \notin {None, Refused, Offline}
        PROVE  Means(call[u].copy, call[u].arg, call[u].took)
    <3>1. AtHand(call[u])
      BY <1>1 DEF LookupInv
    <3>2. call[u].arg \in Arguments /\ call[u].took = ResolveInstallSource(call[u].copy, call[u].arg)
      BY <2>2, <3>1, SettingsAssumption DEF AtHand
    <3> QED BY <2>1, <2>2, <3>2, ArgumentMeans
  <2>3. config \notin {Absent, Torn} => \A url \in Urls : CheckSource(config, url) <=> Allows(config, url)
    BY <1>1, CheckAllows DEF SettingsInv, SettingsTypes
  <2> QED BY <2>2, <2>3 DEF InstallsWhatIsMeant, Means, IsEntry
<1>2. ASSUME LookupInv, SettingsInv PROVE SearchedInstalls
  <2>1. world \in World /\ \A u \in Users : call[u].copy \in Configurations
    BY <1>2, SettingsAssumption DEF LookupInv, SettingsInv, SettingsTypes, IsCall
  <2>2. ASSUME NEW u \in Users, NEW r \in call[u].found PROVE Shows(call[u].copy, r)
    <3>1. (call[u].copy.registries = <<>> \/ Readable(call[u].copy)) /\ r \in UnifiedSearch(call[u].copy)
      BY <1>2, <2>2 DEF LookupInv, AtHand
    <3> QED BY <2>1, <3>1, SearchShows
  <2> QED BY <2>2 DEF SearchedInstalls, Shows
<1> QED BY <1>1, <1>2, LookupInvariant, SettingsInvariant, PTL DEF LookupsHold
=============================================================================

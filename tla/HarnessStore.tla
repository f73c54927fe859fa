---------------------------- MODULE HarnessStore ----------------------------
(* The installed harnesses that share one bare name, and what ynh keeps under  *)
(* that name: install, uninstall, update, fork, prune and the part of run that *)
(* leaves something behind (cmd/ynh/install.go, uninstall.go, update.go,       *)
(* fork.go, prune.go, run.go, internal/harness). The launcher, the run alias   *)
(* and the sources entry have the bare name, which installs with different     *)
(* canonical ids share; the tree, the pointer and the run directory have the   *)
(* id. No command takes a lock on them, and none but fork undoes what it has   *)
(* done; the commands of this module run one after the other, each of their    *)
(* steps may fail and the process may be killed before any.                    *)
EXTENDS Naturals, FiniteSets

CONSTANTS
    Remotes,      \* ids installed from git or a registry: a tree of its own each
    Local,        \* the id "local/<name>": a pointer to a directory of the user's
    Rank,         \* [Remotes -> Nat], the order in which ListAll has the namespaces
    UserDirs,     \* the user's directories
    Nobody,
    Moving,       \* bound: the remotes whose upstream moves
    MaxCommit,    \* bound: commits upstream
    MaxCommands,  \* bound: commands begun
    MaxFaults     \* bound: steps that fail, processes killed

Pointers == [ path : UserDirs, fork : Remotes \union {Nobody} ]

ASSUME StoreAssumption ==
  /\ IsFiniteSet(Remotes) /\ Local \notin Remotes
  /\ Nobody \notin Remotes \union {Local} \union UserDirs \union Pointers
  /\ Rank \in [Remotes -> Nat] /\ \A r, s \in Remotes : Rank[r] = Rank[s] => r = s
  /\ Moving \subseteq Remotes /\ MaxCommit \in Nat \ {0} /\ MaxCommands \in Nat /\ MaxFaults \in Nat

Ids == Remotes \union {Local}
Commits == 0..MaxCommit     \* 0: none

\* A tree: whether the directory is there, with a manifest, with everything; the
\* commit it is a copy of, whether all it holds is that commit's (an update copies
\* over what there is), and the commit its record names.
InstalledTrees == [ state : {"absent", "bare", "part", "whole"}, copy : Commits, pure : BOOLEAN, record : Commits ]
NoTree == [ state |-> "absent", copy |-> 0, pure |-> TRUE, record |-> 0 ]

VARIABLES
    ptr,        \* the pointer of Local, or Nobody
    tree,       \* the trees of the remotes
    source,     \* whether each directory of the user's is there
    launcher,   \* the id bin/<name> runs
    alias,      \* the id whose run directory run/<name> links to
    rundirs,    \* the ids that have a run directory
    entry,      \* whether the configuration has a source of the name
    upstream, clone,   \* the commit upstream has, and the one the cached clone has
    cmd,        \* the command under way
    last,       \* history: the last command that ended, and how
    rough,      \* history: a step has failed or a command was killed
    issued, faults

store == <<ptr, tree, source, launcher, alias, rundirs, entry, clone>>
storeHistory == <<last, rough, issued, faults>>
storeVars == <<store, upstream, cmd, storeHistory>>

Operations == {"none", "install", "update", "uninstall", "fork", "run", "prune"}
Stages == {"none", "ensure", "clear", "copy", "fetch", "drop", "record", "launcher", "remove", "rundir",
           "alias", "entry", "dest", "assemble", "pointers", "launchers", "rundirs"}
UnderWay == [ op : Operations, id : Ids \union {Nobody}, path : UserDirs \union {Nobody}, pc : Stages,
              sha : Commits, fork : Remotes \union {Nobody}, warned : BOOLEAN ]
Ended == [ op : Operations, id : Ids \union {Nobody}, path : UserDirs \union {Nobody}, fork : Remotes \union {Nobody},
           how : {"none", "done", "warned", "failed"} ]

Idle == [ op |-> "none", id |-> Nobody, path |-> Nobody, pc |-> "none", sha |-> 0, fork |-> Nobody, warned |-> FALSE ]
NoCommand == [ op |-> "none", id |-> Nobody, path |-> Nobody, fork |-> Nobody, how |-> "none" ]

\* A tree is listed, and found by its id, by its manifest; a pointer is listed
\* even if what it points to is gone, and read only if it is not.
Installed == { r \in Remotes : tree[r].state \in {"part", "whole"} } \union (IF ptr = Nobody THEN {} ELSE {Local})
Loads(id) == id \in Installed /\ (id = Local => source[ptr.path])

\* The first in the order of ListAll, which has the pointers first.
FirstOf(S) == IF Local \in S THEN Local ELSE CHOOSE r \in S : \A s \in S : Rank[r] <= Rank[s]
-----------------------------------------------------------------------------
(* The course of a command *)

Begin(op, id, path, pc) ==
  /\ cmd = Idle
  /\ issued < MaxCommands /\ issued' = issued + 1
  /\ cmd' = [Idle EXCEPT !.op = op, !.id = id, !.path = path, !.pc = pc]
  /\ last' = NoCommand
  /\ UNCHANGED <<store, upstream, rough, faults>>

At(op, pc) == cmd.op \in op /\ cmd.pc = pc

Then(pc) == cmd' = [cmd EXCEPT !.pc = pc] /\ UNCHANGED <<upstream, storeHistory>>

Leave(how) ==
  /\ cmd' = Idle
  /\ last' = [ op |-> cmd.op, id |-> cmd.id, path |-> cmd.path, fork |-> cmd.fork, how |-> how ]

End == Leave(IF cmd.warned THEN "warned" ELSE "done") /\ UNCHANGED <<upstream, rough, issued, faults>>

\* A step fails, and with it the command, or it only earns a warning.
Happens == faults < MaxFaults /\ faults' = faults + 1 /\ rough' = TRUE /\ UNCHANGED <<upstream, issued>>
Abort == Happens /\ Leave("failed")
Warn(pc) == Happens /\ cmd' = [cmd EXCEPT !.pc = pc, !.warned = TRUE] /\ UNCHANGED last
WarnAndEnd == Happens /\ Leave("warned")
-----------------------------------------------------------------------------
(* ynh install and ynh update *)

InstallRemote(r) == Begin("install", r, Nobody, "ensure")

\* The record of a fork is carried over from the pointer the id has, if any.
InstallLocal(d) ==
  /\ source[d]
  /\ cmd = Idle /\ issued < MaxCommands /\ issued' = issued + 1
  /\ cmd' = [Idle EXCEPT !.op = "install", !.id = Local, !.path = d, !.pc = "fetch",
                         !.fork = IF ptr = Nobody THEN Nobody ELSE ptr.fork]
  /\ last' = NoCommand
  /\ UNCHANGED <<store, upstream, rough, faults>>

\* Only a tree with a record has a remote to update from; a fork is refused, and
\* of another local harness only the includes are fetched again.
Update(r) == r \in Installed /\ tree[r].record # 0 /\ Begin("update", r, Nobody, "ensure")

\* The clone is brought up to date. An update copies only what this very fetch
\* has changed: a clone that was current already leaves the tree as it is.
EnsureRepo ==
  /\ At({"install", "update"}, "ensure")
  /\ clone' = [clone EXCEPT ![cmd.id] = upstream[cmd.id]]
  /\ cmd' = [cmd EXCEPT !.sha = upstream[cmd.id],
       !.pc = IF cmd.op = "install" THEN "clear"
              ELSE IF clone[cmd.id] # upstream[cmd.id] THEN "copy" ELSE "fetch"]
  /\ UNCHANGED <<ptr, tree, source, launcher, alias, rundirs, entry, upstream, storeHistory>>

\* An install ends; an update warns, unless its source is no longer allowed.
CannotFetch ==
  /\ At({"install", "update"}, "ensure")
  /\ Abort \/ (cmd.op = "update" /\ Warn("fetch"))
  /\ UNCHANGED store

\* Mutant of ClearTree: the copy goes over what there is.
KeepTree == At({"install"}, "clear") /\ UNCHANGED store /\ Then("copy")

ClearTree ==
  /\ At({"install"}, "clear")
  /\ tree' = [tree EXCEPT ![cmd.id] = NoTree]
  /\ UNCHANGED <<ptr, source, launcher, alias, rundirs, entry, clone>>
  /\ Then("copy")

\* What is copied is what the clone holds now, which may have moved on.
CopyTree ==
  /\ At({"install", "update"}, "copy")
  /\ tree' = [tree EXCEPT ![cmd.id] = [@ EXCEPT !.state = "whole", !.copy = clone[cmd.id],
                                                !.pure = tree[cmd.id].state = "absent"]]
  /\ UNCHANGED <<ptr, source, launcher, alias, rundirs, entry, clone>>
  /\ Then("fetch")

\* What removing or copying a tree leaves of it when it is cut short. An overlay
\* leaves a mix that names no commit of its own.
Halfway ==
  LET t == tree[cmd.id] IN
  CASE cmd.pc \in {"clear", "remove"} ->
         {t, NoTree, [NoTree EXCEPT !.state = "bare"]}
           \union { [t EXCEPT !.state = "part", !.copy = 0, !.record = c] : c \in {0, t.record} }
    [] cmd.pc = "copy" /\ t.state = "absent" ->
         {t} \union { [NoTree EXCEPT !.state = s] : s \in {"bare", "part"} }
    [] cmd.pc = "copy" /\ t.state # "absent" -> {t, [t EXCEPT !.state = "part", !.copy = 0, !.pure = FALSE]}
    [] OTHER -> {t}

CannotWriteTree ==
  /\ cmd.id \in Remotes /\ cmd.pc \in {"clear", "copy", "remove"}
  /\ \E t \in Halfway : tree' = [tree EXCEPT ![cmd.id] = t]
  /\ IF cmd.op = "update" THEN Warn("fetch") ELSE Abort
  /\ UNCHANGED <<ptr, source, launcher, alias, rundirs, entry, clone>>

\* The includes and delegates, which other harnesses share the clones of.
FetchIncludes ==
  /\ At({"install", "update"}, "fetch")
  /\ UNCHANGED store
  /\ Then(IF cmd.id = Local THEN "drop" ELSE "record")

\* An install ends at the first that fails; an update warns, unless it is refused.
CannotFetchIncludes ==
  /\ At({"install", "update"}, "fetch")
  /\ Abort \/ (cmd.op = "update" /\ Warn("record"))
  /\ UNCHANGED store

DropPointer ==
  /\ At({"install"}, "drop")
  /\ ptr' = Nobody
  /\ UNCHANGED <<tree, source, launcher, alias, rundirs, entry, clone>>
  /\ Then("record")

SaveRecord ==
  /\ At({"install"}, "record") \/ At({"fork"}, "record")
  /\ IF cmd.id = Local
     THEN ptr' = [path |-> cmd.path, fork |-> cmd.fork] /\ UNCHANGED tree
     ELSE tree' = [tree EXCEPT ![cmd.id].record = cmd.sha] /\ UNCHANGED ptr
  /\ UNCHANGED <<source, launcher, alias, rundirs, entry, clone>>
  /\ Then("launcher")

\* The record of an update: the commit of the clone, copied or not.
SaveInstalledRecord ==
  /\ At({"update"}, "record")
  /\ tree' = [tree EXCEPT ![cmd.id].record = IF cmd.sha = 0 THEN @ ELSE cmd.sha]
  /\ UNCHANGED <<ptr, source, launcher, alias, rundirs, entry, clone>>
  /\ End

CannotSave ==
  /\ \/ At({"install"}, "drop") /\ Abort
     \/ At({"install"}, "record") /\ Abort
     \/ At({"update"}, "record") /\ WarnAndEnd
  /\ UNCHANGED store

GenerateLauncher ==
  /\ At({"install", "fork"}, "launcher")
  /\ launcher' = cmd.id
  /\ UNCHANGED <<ptr, tree, source, alias, rundirs, entry, clone>>
  /\ End

CannotWriteLauncher == At({"install"}, "launcher") /\ Abort /\ UNCHANGED store
-----------------------------------------------------------------------------
(* ynh uninstall *)

\* A pointer is found whether or not what it points to is there, a tree by its
\* manifest.
Uninstall(id) == id \in Installed /\ Begin("uninstall", id, Nobody, "remove")

RemoveInstall ==
  /\ At({"uninstall"}, "remove")
  /\ IF cmd.id = Local THEN ptr' = Nobody /\ UNCHANGED tree
     ELSE tree' = [tree EXCEPT ![cmd.id] = NoTree] /\ UNCHANGED ptr
  /\ UNCHANGED <<source, launcher, alias, rundirs, entry, clone>>
  /\ Then("rundir")

CannotRemovePointer == At({"uninstall"}, "remove") /\ cmd.id = Local /\ Abort /\ UNCHANGED store

RemoveRunDir ==
  /\ At({"uninstall"}, "rundir")
  /\ rundirs' = rundirs \ {cmd.id}
  /\ UNCHANGED <<ptr, tree, source, launcher, alias, entry, clone>>
  /\ Then("launcher")

\* Mutant of SettleLauncher: a launcher that is there is left to the survivors.
KeepLauncher ==
  /\ At({"uninstall"}, "launcher")
  /\ launcher' = IF Installed = {} THEN Nobody ELSE launcher
  /\ UNCHANGED <<ptr, tree, source, alias, rundirs, entry, clone>>
  /\ Then("alias")

\* The launcher goes with the last install of the name, stays if it is a
\* survivor's, and is made the first survivor's otherwise.
SettleLauncher ==
  /\ At({"uninstall"}, "launcher")
  /\ launcher' = CASE Installed = {} -> Nobody
                   [] launcher \in Installed -> launcher
                   [] OTHER -> FirstOf(Installed)
  /\ UNCHANGED <<ptr, tree, source, alias, rundirs, entry, clone>>
  /\ Then("alias")

\* Mutant of SettleAlias: as long as the name has an install, its alias stays.
KeepAlias ==
  /\ At({"uninstall"}, "alias")
  /\ alias' = IF Installed = {} THEN Nobody ELSE alias
  /\ UNCHANGED <<ptr, tree, source, launcher, rundirs, entry, clone>>
  /\ IF Installed = {} THEN Then("entry") ELSE End

\* The alias goes with the last install of the name, or if it led to the one
\* removed; a sole survivor gets it instead.
SettleAlias ==
  /\ At({"uninstall"}, "alias")
  /\ alias' = CASE Installed = {} -> Nobody
                [] Installed # {} /\ alias # cmd.id -> alias
                [] OTHER -> IF Cardinality(Installed) = 1 THEN FirstOf(Installed) ELSE Nobody
  /\ UNCHANGED <<ptr, tree, source, launcher, rundirs, entry, clone>>
  /\ IF Installed = {} THEN Then("entry") ELSE End

RemoveSourceEntry ==
  /\ At({"uninstall"}, "entry")
  /\ entry' = FALSE
  /\ UNCHANGED <<ptr, tree, source, launcher, alias, rundirs, clone>>
  /\ End

\* From the run directory on a failure is passed over: without the list of the
\* survivors everything of the name is left, and an alias that cannot be made again
\* is gone.
CannotSettle ==
  /\ cmd.op = "uninstall"
  /\ CASE cmd.pc = "rundir" -> Warn("launcher") /\ UNCHANGED alias
       [] cmd.pc = "launcher" -> (Warn("alias") \/ WarnAndEnd) /\ UNCHANGED alias
       [] cmd.pc = "alias" -> /\ IF Installed = {} THEN Warn("entry") ELSE WarnAndEnd
                              /\ alias' \in {alias} \union (IF alias = cmd.id THEN {Nobody} ELSE {})
       [] cmd.pc = "entry" -> WarnAndEnd /\ UNCHANGED alias
       [] OTHER -> FALSE
  /\ UNCHANGED <<ptr, tree, source, launcher, rundirs, entry, clone>>
-----------------------------------------------------------------------------
(* ynh fork *)

\* To a directory that is not there, unless a pointer claims the name.
Fork(r, d) ==
  /\ Loads(r) /\ ~source[d] /\ ptr = Nobody
  /\ cmd = Idle /\ issued < MaxCommands /\ issued' = issued + 1
  /\ cmd' = [Idle EXCEPT !.op = "fork", !.id = Local, !.path = d, !.pc = "dest", !.fork = r]
  /\ last' = NoCommand
  /\ UNCHANGED <<store, upstream, rough, faults>>

MakeDest ==
  /\ At({"fork"}, "dest")
  /\ source' = [source EXCEPT ![cmd.path] = TRUE]
  /\ UNCHANGED <<ptr, tree, launcher, alias, rundirs, entry, clone>>
  /\ Then("record")

\* Mutant of UndoFork: the pointer stays when the launcher cannot be written.
UndoDest ==
  /\ cmd.op = "fork"
  /\ source' = [source EXCEPT ![cmd.path] = FALSE]
  /\ UNCHANGED <<ptr, tree, launcher, alias, rundirs, entry, clone>>
  /\ Abort

\* What fails takes back all that the fork has made so far.
UndoFork ==
  /\ cmd.op = "fork"
  /\ source' = [source EXCEPT ![cmd.path] = FALSE]
  /\ ptr' = Nobody
  /\ UNCHANGED <<tree, launcher, alias, rundirs, entry, clone>>
  /\ Abort
-----------------------------------------------------------------------------
(* ynh run, as far as it leaves something behind, and ynh prune *)

Run(id) == Loads(id) /\ Begin("run", id, Nobody, "assemble")

AssembleRunDir ==
  /\ At({"run"}, "assemble")
  /\ rundirs' = rundirs \union {cmd.id}
  /\ UNCHANGED <<ptr, tree, source, launcher, alias, entry, clone>>
  /\ Then("alias")

\* The alias is for the sole claimant of the name; with several there is none.
UpdateLegacyRunAlias ==
  /\ At({"run"}, "alias")
  /\ alias' = IF Cardinality(Installed) > 1 THEN Nobody ELSE cmd.id
  /\ UNCHANGED <<ptr, tree, source, launcher, rundirs, entry, clone>>
  /\ End

CannotRun ==
  /\ cmd.op = "run"
  /\ \/ cmd.pc = "assemble" /\ Abort /\ UNCHANGED alias
     \/ cmd.pc = "alias" /\ WarnAndEnd /\ alias' \in {alias, Nobody}
  /\ UNCHANGED <<ptr, tree, source, launcher, rundirs, entry, clone>>

Prune == Begin("prune", Nobody, Nobody, "pointers")

\* A pointer to nothing is removed by its bare name, which no pointer of a
\* migrated home has: RemovePointer takes the missing file for a success.
PrunePointers == At({"prune"}, "pointers") /\ UNCHANGED store /\ Then("launchers")

PruneLaunchers ==
  /\ At({"prune"}, "launchers")
  /\ launcher' = IF Installed = {} THEN Nobody ELSE launcher
  /\ UNCHANGED <<ptr, tree, source, alias, rundirs, entry, clone>>
  /\ Then("rundirs")

PruneRunDirs ==
  /\ At({"prune"}, "rundirs")
  /\ rundirs' = rundirs \intersect Installed
  /\ alias' = IF Installed = {} THEN Nobody ELSE alias
  /\ UNCHANGED <<ptr, tree, source, launcher, entry, clone>>
  /\ End

CannotPrune ==
  /\ cmd.op = "prune"
  /\ \/ cmd.pc = "launchers" /\ Warn("rundirs")
     \/ cmd.pc = "rundirs" /\ WarnAndEnd
  /\ UNCHANGED store
-----------------------------------------------------------------------------
(* Everything else *)

\* The process is killed: what it was at is left halfway, and nobody takes it up.
Kill ==
  /\ cmd # Idle
  /\ Happens
  /\ cmd' = Idle /\ last' = NoCommand
  /\ IF cmd.id \in Remotes THEN \E t \in Halfway : tree' = [tree EXCEPT ![cmd.id] = t] ELSE UNCHANGED tree
  /\ UNCHANGED <<ptr, source, launcher, alias, rundirs, entry, clone>>

\* The clones are shared: another harness's install, update or run fetches too.
OtherFetch(r) ==
  /\ clone[r] # upstream[r]
  /\ clone' = [clone EXCEPT ![r] = upstream[r]]
  /\ UNCHANGED <<ptr, tree, source, launcher, alias, rundirs, entry, upstream, cmd, storeHistory>>

Push(r) ==
  /\ r \in Moving /\ upstream[r] < MaxCommit
  /\ upstream' = [upstream EXCEPT ![r] = @ + 1]
  /\ UNCHANGED <<store, cmd, storeHistory>>

\* The user makes and deletes directories.
UserChanges ==
  /\ cmd = Idle
  /\ \E d \in UserDirs : source' = [source EXCEPT ![d] = ~@]
  /\ UNCHANGED <<ptr, tree, launcher, alias, rundirs, entry, clone, upstream, cmd, storeHistory>>

StoreInit ==
  /\ ptr = Nobody /\ tree = [r \in Remotes |-> NoTree] /\ source = [d \in UserDirs |-> FALSE]
  /\ launcher = Nobody /\ alias = Nobody /\ rundirs = {} /\ entry \in BOOLEAN
  /\ upstream = [r \in Remotes |-> 1] /\ clone = [r \in Remotes |-> 0]
  /\ cmd = Idle /\ last = NoCommand /\ rough = FALSE /\ issued = 0 /\ faults = 0

Installing == EnsureRepo \/ ClearTree \/ CopyTree \/ FetchIncludes \/ DropPointer \/ SaveRecord
                \/ SaveInstalledRecord \/ GenerateLauncher
Uninstalling == RemoveInstall \/ RemoveRunDir \/ SettleLauncher \/ SettleAlias \/ RemoveSourceEntry
Failing == CannotFetch \/ CannotWriteTree \/ CannotFetchIncludes \/ CannotSave \/ CannotWriteLauncher
             \/ CannotRemovePointer \/ CannotSettle \/ UndoFork \/ CannotRun \/ CannotPrune \/ Kill

StoreNext ==
  \/ \E r \in Remotes : InstallRemote(r) \/ Update(r) \/ OtherFetch(r) \/ Push(r)
  \/ \E d \in UserDirs : InstallLocal(d) \/ \E r \in Remotes : Fork(r, d)
  \/ \E id \in Ids : Uninstall(id) \/ Run(id)
  \/ Prune
  \/ Installing \/ Uninstalling \/ MakeDest \/ AssembleRunDir \/ UpdateLegacyRunAlias
  \/ PrunePointers \/ PruneLaunchers \/ PruneRunDirs
  \/ Failing \/ UserChanges

StoreSpec == StoreInit /\ [][StoreNext]_storeVars
-----------------------------------------------------------------------------
(* Properties *)

HomeTypes ==
  /\ ptr \in Pointers \union {Nobody} /\ tree \in [Remotes -> InstalledTrees] /\ source \in [UserDirs -> BOOLEAN]
  /\ launcher \in Ids \union {Nobody} /\ alias \in Ids \union {Nobody} /\ rundirs \subseteq Ids /\ entry \in BOOLEAN
  /\ upstream \in [Remotes -> Commits] /\ clone \in [Remotes -> Commits]

CommandTypes ==
  /\ cmd \in UnderWay /\ last \in Ended
  /\ rough \in BOOLEAN /\ issued \in 0..MaxCommands /\ faults \in 0..MaxFaults

\* Every variable has its type.
StoreTypes == HomeTypes /\ CommandTypes

\* As long as nothing has failed, between two commands the launcher runs an install
\* that is there whenever there is one, and nothing bears the name, or an id, of
\* an install that is gone (install.go:468-520, uninstall.go:155-200, run.go:785-829).
NameFollowsInstalls ==
  cmd = Idle /\ ~rough =>
    /\ launcher \in (IF Installed = {} THEN {Nobody} ELSE Installed)
    /\ alias \in {Nobody} \union Installed
    /\ rundirs \subseteq Installed

\* An install that ends well has put its harness in place whatever failed or was
\* cut short before it: a tree with the files of one commit only and a record no
\* newer than they are, or a pointer to the directory with the record of the fork
\* it had; and the launcher runs it (install.go:233-412).
InstallDelivers ==
  last.op = "install" /\ last.how = "done" =>
    /\ launcher = last.id
    /\ IF last.id = Local THEN ptr = [path |-> last.path, fork |-> last.fork]
       ELSE LET t == tree[last.id] IN t.state = "whole" /\ t.pure /\ t.record \in 1..t.copy

\* An uninstall in which nothing failed leaves nothing of its id behind, and to
\* the installs that remain a launcher that runs one of them; if it was the last of
\* the name the sources entry goes too, whatever failed before it (uninstall.go:124-210).
UninstallForgets ==
  last.op = "uninstall" /\ last.how = "done" =>
    /\ last.id \notin Installed \union {launcher, alias} \union rundirs
    /\ launcher \in (IF Installed = {} THEN {Nobody} ELSE Installed)
    /\ Installed = {} => ~entry

\* A fork that fails leaves no directory it made and no pointer to it
\* (fork.go:156-234).
FailedForkUndone ==
  last.op = "fork" /\ last.how = "failed" /\ ptr # Nobody => ptr.path # last.path

\* What a command takes back, an uninstall or a fork that fails, is gone, and
\* what the other installs of the name need is there.
NothingLeftBehind == UninstallForgets /\ FailedForkUndone

\* What the record of an installed tree names is in the tree: `ref_installed` is
\* "Currently installed Git ref or SHA" (docs/reference.md:216).
RecordNotAhead ==
  cmd = Idle /\ ~rough => \A r \in Remotes : tree[r].state = "whole" => tree[r].record <= tree[r].copy

\* Prune leaves no pointer whose directory is gone (prune.go:39-42).
OrphansPruned ==
  [][ last' # last /\ last'.op = "prune" /\ last'.how = "done" => ptr' = Nobody \/ source'[ptr'.path] ]_storeVars
=============================================================================

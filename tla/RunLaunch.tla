----------------------------- MODULE RunLaunch -----------------------------
(* Launches of ynh run side by side: the run directory that every launch of a   *)
(* harness empties and assembles anew under a lock of the harness, the links    *)
(* that Codex and Cursor need in the project, the log of those links, which no  *)
(* lock protects, and the vendor's session, which begins as the lock is let go  *)
(* (cmd/ynh/run.go, vendors.go, status.go, prune.go, internal/assembler,        *)
(* internal/symlink, internal/vendor). A harness is taken to have artifacts.    *)
EXTENDS Naturals, FiniteSets

CONSTANTS
    Procs,        \* the processes of ynh
    Harnesses,    \* what a run directory and its lock are named for
    Projects,     \* the directories they are started in
    Vendors,
    Linked,       \* the vendors that need links in the project
    None,
    MaxLaunches,  \* bound: processes started
    MaxFaults     \* bound: steps that fail, processes killed

ASSUME LaunchAssumption ==
  /\ Linked \subseteq Vendors /\ None \notin Procs \union Harnesses \union Projects \union Vendors
  /\ MaxLaunches \in Nat /\ MaxFaults \in Nat

\* An installation of links: of what harness, for which vendor, in which project.
Installations == Harnesses \X Linked \X Projects

Pieces == {"artifacts", "config"}
Jobs == [ act : {"run", "install", "clean", "prune"}, harness : Harnesses, vendor : Vendors, project : Projects ]
        \union {None}

VARIABLES
    lock,      \* who holds each run directory's lock
    rundir,    \* the vendor it is assembled for, and who wrote each piece in it
    links,     \* the installations whose links are in place
    log,       \* the installations symlinks.json has
    pc, job,   \* what each process is at, and what it was started for
    copy,      \* the log as it has loaded it
    declined,  \* those whose user did not want the links
    overlap,   \* history: a log was saved over one that was newer than its copy
    rough,     \* history: a step has failed or a process was killed
    launches, faults

process == <<pc, job, copy, declined>>
history == <<overlap, rough, launches, faults>>
vars == <<lock, rundir, links, log, process, history>>

Emptied == [ vendor |-> None, pieces |-> {} ]
Entry(p) == <<job[p].harness, job[p].vendor, job[p].project>>
Own(p) == rundir[job[p].harness] = [ vendor |-> job[p].vendor, pieces |-> Pieces \X {p} ]

\* A link is live if what it points to is in the run directory.
Live(e) == e \in links /\ rundir[e[1]].vendor = e[2] /\ \E p \in Procs : <<"artifacts", p>> \in rundir[e[1]].pieces

Go(p, to) == pc' = [pc EXCEPT ![p] = to]

Unlock(p) == lock' = [h \in Harnesses |-> IF lock[h] = p THEN None ELSE lock[h]]

Exit(p) ==
  /\ Go(p, "idle")
  /\ job' = [job EXCEPT ![p] = None]
  /\ copy' = [copy EXCEPT ![p] = {}]
  /\ declined' = declined \ {p}
  /\ Unlock(p)

\* A step that leaves everything but the control of its process as it is.
Step(p, to) == Go(p, to) /\ UNCHANGED <<lock, job, copy, declined>>
-----------------------------------------------------------------------------
(* Assembly *)

Start(p, j) ==
  /\ pc[p] = "idle" /\ launches < MaxLaunches /\ launches' = launches + 1
  /\ j # None /\ (j.act = "prune" => j.vendor \in Linked)
  /\ job' = [job EXCEPT ![p] = j]
  /\ Go(p, IF j.act = "prune" THEN "survey" ELSE "wait")
  /\ UNCHANGED <<lock, rundir, links, log, copy, declined, overlap, rough, faults>>

\* Mutant of LockRunDir: nobody waits for anybody.
AssembleAnyway(p) ==
  /\ pc[p] = "wait"
  /\ UNCHANGED <<rundir, links, log, history>>
  /\ Step(p, "empty")

LockRunDir(p) ==
  /\ pc[p] = "wait" /\ lock[job[p].harness] = None
  /\ lock' = [lock EXCEPT ![job[p].harness] = p]
  /\ Go(p, "empty")
  /\ UNCHANGED <<rundir, links, log, job, copy, declined, history>>

EmptyRunDir(p) ==
  /\ pc[p] = "empty"
  /\ rundir' = [rundir EXCEPT ![job[p].harness] = Emptied]
  /\ Step(p, "artifacts")
  /\ UNCHANGED <<links, log, history>>

Write(p, piece) ==
  rundir' = [rundir EXCEPT ![job[p].harness] =
    [vendor |-> job[p].vendor, pieces |-> @.pieces \union {<<piece, p>>}]]

AssembleArtifacts(p) ==
  /\ pc[p] = "artifacts"
  /\ Write(p, "artifacts")
  /\ Step(p, "config")
  /\ UNCHANGED <<links, log, history>>

\* The delegates, hooks, servers and manifests, and what is to be done then.
WriteConfig(p) ==
  /\ pc[p] = "config"
  /\ Write(p, "config")
  /\ IF job[p].vendor \notin Linked
     THEN IF job[p].act = "run" THEN Step(p, "release") ELSE Exit(p)
     ELSE Step(p, CASE job[p].act = "install" -> "plant"
                    [] job[p].act = "clean" -> "find"
                    [] job[p].act = "run" -> "check")
  /\ UNCHANGED <<links, log, history>>
-----------------------------------------------------------------------------
(* Links and their log *)

Plant(p) ==
  /\ pc[p] = "plant"
  /\ links' = links \union {Entry(p)}
  /\ Step(p, "load")
  /\ UNCHANGED <<rundir, log, history>>

LoadLog(p) ==
  /\ pc[p] = "load"
  /\ copy' = [copy EXCEPT ![p] = log]
  /\ Go(p, "record")
  /\ UNCHANGED <<lock, rundir, links, log, job, declined, history>>

\* Save writes the copy back whole, whatever the file has become since.
Save(p, entries) == log' = entries /\ overlap' = (overlap \/ copy[p] # log)

\* Mutant of Record: the log is made of this installation alone.
RecordAlone(p) ==
  /\ pc[p] = "record"
  /\ Save(p, {Entry(p)})
  /\ IF job[p].act = "run" THEN Step(p, "release") ELSE Exit(p)
  /\ UNCHANGED <<rundir, links, rough, launches, faults>>

Record(p) ==
  /\ pc[p] = "record"
  /\ Save(p, copy[p] \union {Entry(p)})
  /\ IF job[p].act = "run" THEN Step(p, "release") ELSE Exit(p)
  /\ UNCHANGED <<rundir, links, rough, launches, faults>>

\* ynh run --clean removes the links the log has, and then the entry.
FindInstallation(p) ==
  /\ pc[p] = "find"
  /\ IF Entry(p) \in log
     THEN copy' = [copy EXCEPT ![p] = log] /\ Go(p, "unlink") /\ UNCHANGED <<lock, job, declined>>
     ELSE Exit(p)
  /\ UNCHANGED <<rundir, links, log, history>>

CleanLinks(p) ==
  /\ pc[p] = "unlink"
  /\ links' = links \ {Entry(p)}
  /\ Step(p, "forget")
  /\ UNCHANGED <<rundir, log, history>>

RemoveInstallation(p) ==
  /\ pc[p] = "forget"
  /\ Save(p, copy[p] \ {Entry(p)})
  /\ Exit(p)
  /\ UNCHANGED <<rundir, links, rough, launches, faults>>

\* Mutant of CheckLinks: an entry in the log is enough.
TrustLog(p) ==
  /\ pc[p] = "check"
  /\ copy' = [copy EXCEPT ![p] = log]
  /\ Go(p, IF Entry(p) \in log THEN "release" ELSE "ask")
  /\ UNCHANGED <<lock, rundir, links, log, job, declined, history>>

\* A plain run looks its links up, and in the project, before it asks for them.
CheckLinks(p) ==
  /\ pc[p] = "check"
  /\ copy' = [copy EXCEPT ![p] = log]
  /\ Go(p, CASE Entry(p) \notin log -> "ask"
             [] Entry(p) \in log /\ Live(Entry(p)) -> "release"
             [] OTHER -> "stale")
  /\ UNCHANGED <<lock, rundir, links, log, job, declined, history>>

DropStale(p) ==
  /\ pc[p] = "stale"
  /\ Save(p, copy[p] \ {Entry(p)})
  /\ Step(p, "ask")
  /\ UNCHANGED <<rundir, links, rough, launches, faults>>

\* At a terminal the user is asked, under the lock; without one the run is refused.
Ask(p) ==
  /\ pc[p] = "ask"
  /\ \/ Step(p, "plant")
     \/ Go(p, "release") /\ declined' = declined \union {p} /\ UNCHANGED <<lock, job, copy>>
     \/ Exit(p)
  /\ UNCHANGED <<rundir, links, log, history>>

\* ynh prune: entries none of whose links is a link any more.
Survey(p) ==
  /\ pc[p] = "survey"
  /\ IF log \subseteq links THEN Exit(p)
     ELSE copy' = [copy EXCEPT ![p] = log] /\ Go(p, "prune") /\ UNCHANGED <<lock, job, declined>>
  /\ UNCHANGED <<rundir, links, log, history>>

RemoveOrphans(p) ==
  /\ pc[p] = "prune"
  /\ Save(p, copy[p] \intersect links)
  /\ Exit(p)
  /\ UNCHANGED <<rundir, links, rough, launches, faults>>
-----------------------------------------------------------------------------
(* The session *)

\* Mutant of ChildStart: the lock is kept for the session.
KeepLock(p) == pc[p] = "release" /\ UNCHANGED <<rundir, links, log, history>> /\ Step(p, "spawn")

\* The hook of the child's start runs before the child does.
ChildStart(p) ==
  /\ pc[p] = "release"
  /\ Unlock(p)
  /\ Go(p, "spawn")
  /\ UNCHANGED <<rundir, links, log, job, copy, declined, history>>

Spawn(p) ==
  /\ pc[p] = "spawn"
  /\ UNCHANGED <<rundir, links, log, history>>
  /\ Step(p, "session")

\* The vendor is at work for as long as its user likes; ynh ends with it.
SessionEnds(p) ==
  /\ pc[p] = "session"
  /\ UNCHANGED <<rundir, links, log, history>>
  /\ Exit(p)

Happens == faults < MaxFaults /\ faults' = faults + 1 /\ rough' = TRUE /\ UNCHANGED launches

\* A step fails; of the links there may be some already. Only what comes of saving
\* the log without a stale entry is passed over.
Fail(p) ==
  /\ Happens
  /\ pc[p] \notin {"idle", "wait", "ask", "session"}
  /\ IF pc[p] = "stale" THEN Step(p, "ask") ELSE Exit(p)
  /\ links' \in {links} \union (IF pc[p] = "plant" THEN {links \union {Entry(p)}} ELSE {})
  /\ UNCHANGED <<rundir, log, overlap>>

\* ynh dies: its locks go with it, and its child is ended.
Kill(p) ==
  /\ Happens
  /\ pc[p] # "idle"
  /\ Exit(p)
  /\ UNCHANGED <<rundir, links, log, overlap>>

\* The user deletes the links of a project nobody is being launched in.
UserUnlinks(e) ==
  /\ e \in links /\ \A p \in Procs : job[p] # None => job[p].project # e[3]
  /\ links' = links \ {e}
  /\ UNCHANGED <<lock, rundir, log, process, history>>

Init ==
  /\ lock = [h \in Harnesses |-> None] /\ rundir = [h \in Harnesses |-> Emptied]
  /\ links = {} /\ log = {}
  /\ pc = [p \in Procs |-> "idle"] /\ job = [p \in Procs |-> None]
  /\ copy = [p \in Procs |-> {}] /\ declined = {}
  /\ overlap = FALSE /\ rough = FALSE /\ launches = 0 /\ faults = 0

Work(p) == EmptyRunDir(p) \/ AssembleArtifacts(p) \/ WriteConfig(p) \/ Plant(p) \/ LoadLog(p) \/ Record(p)
             \/ FindInstallation(p) \/ CleanLinks(p) \/ RemoveInstallation(p) \/ CheckLinks(p) \/ DropStale(p)
             \/ Survey(p) \/ RemoveOrphans(p) \/ ChildStart(p) \/ Spawn(p)

Next ==
  \/ \E p \in Procs : \/ \E j \in Jobs : Start(p, j)
                      \/ LockRunDir(p) \/ Work(p) \/ Ask(p) \/ SessionEnds(p) \/ Fail(p) \/ Kill(p)
  \/ \E e \in Installations : UserUnlinks(e)

Spec == Init /\ [][Next]_vars

\* A process that can go on does, users answer what they are asked, and the
\* system gives a lock to each that keeps waiting for it; a session need not end.
LiveSpec == Spec /\ \A p \in Procs : WF_vars(Work(p)) /\ WF_vars(Ask(p)) /\ SF_vars(LockRunDir(p))
-----------------------------------------------------------------------------
(* Properties *)

SharedTypes ==
  /\ rundir \in [Harnesses -> [ vendor : Vendors \union {None}, pieces : SUBSET (Pieces \X Procs) ]]
  /\ links \subseteq Installations /\ log \subseteq Installations

ProcessTypes ==
  /\ lock \in [Harnesses -> Procs \union {None}]
  /\ pc \in [Procs -> {"idle", "wait", "empty", "artifacts", "config", "plant", "load", "record", "find", "unlink",
                       "forget", "check", "stale", "ask", "survey", "prune", "release", "spawn", "session"}]
  /\ job \in [Procs -> Jobs] /\ copy \in [Procs -> SUBSET Installations] /\ declined \subseteq Procs

HistoryTypes == overlap \in BOOLEAN /\ rough \in BOOLEAN /\ launches \in 0..MaxLaunches /\ faults \in 0..MaxFaults

LocksAreHeld ==
  \A h \in Harnesses, p \in Procs :
    lock[h] = p => job[p] # None /\ job[p].harness = h
                   /\ pc[p] \notin {"idle", "wait", "survey", "prune", "spawn", "session"}

\* Every variable has its type, and a lock is held by a launch of its harness, from
\* when it got it until its child is about to start.
TypeOK == SharedTypes /\ ProcessTypes /\ HistoryTypes /\ LocksAreHeld

\* From the end of assembly to the start of its child a launch has the run
\* directory as it wrote it, with nothing of anybody else's and for its own vendor,
\* whatever other launches do or have left (run.go:271-293, 509-513).
AssembledAlone ==
  \A p \in Procs :
    pc[p] \in {"plant", "load", "record", "find", "unlink", "forget", "check", "stale", "ask", "release"} => Own(p)

\* A session of a vendor that needs links starts with its links in the project,
\* and live, unless its user declined them (run.go:431-474).
StartsWithLinks ==
  \A p \in Procs :
    pc[p] = "release" /\ job[p].vendor \in Linked /\ p \notin declined => Live(Entry(p))

\* As long as no two processes have changed the log at once and nothing has
\* failed, it has every installation whose links are in place, save one
\* that is just being made (vendors.go:204-261, symlink/log.go:34-86).
LinksAreLogged ==
  ~overlap /\ ~rough =>
    \A e \in links \ log : \E p \in Procs : pc[p] \in {"load", "record"} /\ Entry(p) = e

\* Nobody waits for ever to assemble, however long the sessions of the harness
\* last (vendor/process.go:18-36, run.go:509-513).
NobodyStarves == \A p \in Procs : pc[p] = "wait" ~> pc[p] # "wait"

\* "Installations are tracked in `~/.ynh/symlinks.json`. Use `ynh status` to see
\* all installations" (docs/vendors.md:68): what no launch is busy with is in the log.
StatusShowsAll == (\A p \in Procs : pc[p] = "idle") /\ ~rough => links \subseteq log
=============================================================================

--------------------------- MODULE RunLaunchProofs ---------------------------
(* Theorems about RunLaunch, for any processes, harnesses, projects, vendors    *)
(* and bounds: a lock is held by one launch, from when it got it until its      *)
(* child is about to start; what was assembled under it is its own; a session   *)
(* starts with its links; and links are in the log. And about Resume, for any   *)
(* launches, tools, directories and names: which session a launch comes to.     *)
EXTENDS RunLaunch, Resume, FiniteSetTheorems, TLAPS

Assembled == {"plant", "load", "record", "find", "unlink", "forget", "check", "stale", "ask", "release"}
Holding == {"empty", "artifacts", "config"} \union Assembled

\* A process that is busy has a job, and one that prunes the log has no other.
JobsFit ==
  \A p \in Procs :
    /\ pc[p] # "idle" => job[p] # None
    /\ pc[p] \in Holding \union {"wait"} => job[p].act # "prune"
    /\ pc[p] \in Assembled \ {"release"} => job[p].vendor \in Linked

\* Whoever works in a run directory has its lock.
HasLock == \A p \in Procs : pc[p] \in Holding => lock[job[p].harness] = p

\* What a launch has done of its assembly is all there is in the run directory.
DirIsOwn ==
  \A p \in Procs :
    /\ pc[p] = "artifacts" => rundir[job[p].harness] = Emptied
    /\ pc[p] = "config" => rundir[job[p].harness] = [ vendor |-> job[p].vendor, pieces |-> {<<"artifacts", p>>} ]
    /\ pc[p] \in Assembled => Own(p)

\* The links of a launch are there from when they were made, or found.
LinksFit ==
  \A p \in Procs :
    /\ pc[p] \in {"load", "record"} => Entry(p) \in links
    /\ pc[p] = "release" /\ job[p].vendor \in Linked /\ p \notin declined => Entry(p) \in links
    /\ pc[p] \in {"stale", "forget"} => Entry(p) \notin links

Types == SharedTypes /\ ProcessTypes /\ HistoryTypes

LaunchInv == Types /\ LocksAreHeld /\ JobsFit /\ HasLock /\ DirIsOwn /\ LinksFit /\ LinksAreLogged

LEMMA NoneIsNobody ==
  /\ \A p \in Procs : p # None
  /\ \A j \in Jobs : j # None => /\ j.act \in {"run", "install", "clean", "prune"} /\ j.harness \in Harnesses
                                 /\ j.vendor \in Vendors /\ j.project \in Projects
BY LaunchAssumption DEF Jobs

\* A process that works in a run directory is alone in it.
LEMMA Alone ==
  ASSUME HasLock, NEW p \in Procs, NEW q \in Procs, pc[p] \in Holding, pc[q] \in Holding, p # q
  PROVE  job[p].harness # job[q].harness
BY DEF HasLock

\* A launch that writes nothing into its run directory finds it as it left it.
LEMMA DirKept ==
  ASSUME DirIsOwn, rundir' = rundir,
         \A q \in Procs :
           \/ pc'[q] = pc[q] /\ job'[q] = job[q]
           \/ pc'[q] \notin {"artifacts", "config"} \union Assembled
           \/ pc'[q] \in Assembled /\ pc[q] \in Assembled /\ job'[q] = job[q]
  PROVE  DirIsOwn'
<1> SUFFICES ASSUME NEW q \in Procs
             PROVE /\ pc'[q] = "artifacts" => rundir'[job'[q].harness] = Emptied
                   /\ pc'[q] = "config" => rundir'[job'[q].harness] =
                                             [ vendor |-> job'[q].vendor, pieces |-> {<<"artifacts", q>>} ]
                   /\ pc'[q] \in Assembled => Own(q)'
  BY DEF DirIsOwn, Emptied
<1>1. CASE pc'[q] = pc[q] /\ job'[q] = job[q]
  BY <1>1 DEF DirIsOwn, Own
<1>2. CASE pc'[q] \notin {"artifacts", "config"} \union Assembled
  BY <1>2
<1>3. CASE pc'[q] \in Assembled /\ pc[q] \in Assembled /\ job'[q] = job[q]
  BY <1>3 DEF DirIsOwn, Own, Assembled
<1> QED BY <1>1, <1>2, <1>3

\* A launch that writes into its run directory disturbs nobody else's.
LEMMA DirRewritten ==
  ASSUME DirIsOwn, NEW p \in Procs,
         \A q \in Procs : q # p =>
           /\ pc'[q] = pc[q] /\ job'[q] = job[q]
           /\ pc[q] \in Holding => rundir'[job[q].harness] = rundir[job[q].harness],
         pc'[p] = "artifacts" => rundir'[job'[p].harness] = Emptied,
         pc'[p] = "config" => rundir'[job'[p].harness] =
                                [ vendor |-> job'[p].vendor, pieces |-> {<<"artifacts", p>>} ],
         pc'[p] \in Assembled => Own(p)'
  PROVE  DirIsOwn'
<1> SUFFICES ASSUME NEW q \in Procs
             PROVE /\ pc'[q] = "artifacts" => rundir'[job'[q].harness] = Emptied
                   /\ pc'[q] = "config" => rundir'[job'[q].harness] =
                                             [ vendor |-> job'[q].vendor, pieces |-> {<<"artifacts", q>>} ]
                   /\ pc'[q] \in Assembled => Own(q)'
  BY DEF DirIsOwn, Emptied
<1>1. CASE q = p
  BY <1>1
<1>2. CASE q # p
  <2>1. /\ pc'[q] = pc[q] /\ job'[q] = job[q]
        /\ pc[q] \in Holding => rundir'[job[q].harness] = rundir[job[q].harness]
    BY <1>2
  <2>2. pc[q] \in {"artifacts", "config"} \union Assembled => rundir'[job[q].harness] = rundir[job[q].harness]
    BY ONLY <2>1 DEF Holding
  <2> QED BY <2>1, <2>2 DEF DirIsOwn, Own
<1> QED BY <1>1, <1>2

LEMMA ExitTyped ==
  ASSUME ProcessTypes, NEW p \in Procs, Exit(p)
  PROVE  ProcessTypes'
<1>1. lock' \in [Harnesses -> Procs \union {None}]
  BY DEF ProcessTypes, Exit, Unlock
<1>2. job' \in [Procs -> Jobs] /\ copy' \in [Procs -> SUBSET Installations]
  BY DEF ProcessTypes, Exit, Jobs
<1> QED BY <1>1, <1>2 DEF ProcessTypes, Exit, Go

LEMMA StepTyped ==
  ASSUME ProcessTypes, NEW p \in Procs, NEW to \in Assembled \union {"artifacts", "config", "empty", "spawn", "session"},
         Step(p, to)
  PROVE  ProcessTypes'
BY DEF ProcessTypes, Step, Go, Assembled

LEMMA WriteTyped ==
  ASSUME SharedTypes, ProcessTypes, NEW p \in Procs, job[p] # None, NEW piece \in Pieces,
         Write(p, piece), UNCHANGED <<links, log>>
  PROVE  SharedTypes'
<1>1. job[p].harness \in Harnesses /\ job[p].vendor \in Vendors
  BY NoneIsNobody DEF ProcessTypes
<1> DEFINE d == rundir[job[p].harness]
           e == [ vendor |-> job[p].vendor, pieces |-> d.pieces \union {<<piece, p>>} ]
<1>2. d.pieces \in SUBSET (Pieces \X Procs)
  BY <1>1 DEF SharedTypes
<1>3. e \in [ vendor : Vendors \union {None}, pieces : SUBSET (Pieces \X Procs) ]
  BY <1>1, <1>2
<1>4. rundir' = [rundir EXCEPT ![job[p].harness] = e]
  BY DEF Write
<1> HIDE DEF e
<1> QED BY <1>3, <1>4 DEF SharedTypes

\* What is installed or removed is an installation.
LEMMA EntryTyped ==
  ASSUME ProcessTypes, JobsFit, NEW p \in Procs, pc[p] \in Assembled \ {"release"}
  PROVE  Entry(p) \in Installations
<1>1. pc[p] # "idle" /\ job[p] \in Jobs
  BY DEF ProcessTypes, Assembled
<1>2. job[p].harness \in Harnesses /\ job[p].project \in Projects /\ job[p].vendor \in Linked
  BY <1>1, NoneIsNobody DEF JobsFit
<1> QED BY <1>2 DEF Entry, Installations

\* Before any launch nothing is held, linked or half assembled.
THEOREM LaunchBegins == Init => LaunchInv
<1> SUFFICES ASSUME Init PROVE LaunchInv
  OBVIOUS
<1>1. Types
  <2>1. rundir \in [Harnesses -> [ vendor : Vendors \union {None}, pieces : SUBSET (Pieces \X Procs) ]]
    BY DEF Init, Emptied
  <2>2. job \in [Procs -> Jobs]
    BY DEF Init, Jobs
  <2>3. launches \in 0..MaxLaunches /\ faults \in 0..MaxFaults
    BY LaunchAssumption DEF Init
  <2> QED BY <2>1, <2>2, <2>3 DEF Init, Types, SharedTypes, ProcessTypes, HistoryTypes
<1>2. LocksAreHeld
  BY NoneIsNobody DEF Init, LocksAreHeld
<1>3. JobsFit /\ HasLock /\ DirIsOwn /\ LinksFit /\ LinksAreLogged
  BY DEF Init, JobsFit, HasLock, DirIsOwn, LinksFit, LinksAreLogged, Holding, Assembled
<1> QED BY <1>1, <1>2, <1>3 DEF LaunchInv

\* No step of any launch, save of the log or fault breaks the invariant: one step per action of
\* run.go:236-513 and vendors.go:204-261.
THEOREM LaunchSteps == LaunchInv /\ [Next]_vars => LaunchInv'
<1> SUFFICES ASSUME LaunchInv, [Next]_vars PROVE LaunchInv'
  OBVIOUS
<1> USE NoneIsNobody
<1>0. Types /\ LocksAreHeld /\ JobsFit /\ HasLock /\ DirIsOwn /\ LinksFit /\ LinksAreLogged
  BY DEF LaunchInv
<1>1. ASSUME NEW p \in Procs, LockRunDir(p) PROVE LaunchInv'
  <2>1. Types'
    <3>1. SharedTypes'
      BY <1>0, <1>1, EntryTyped DEF LockRunDir, Go, history, Types, SharedTypes, ProcessTypes, Emptied, Assembled
    <3>2. ProcessTypes'
      BY <1>0, <1>1, StepTyped DEF LockRunDir, Go, history, Types, SharedTypes, ProcessTypes, Assembled
    <3>3. HistoryTypes'
      BY <1>0, <1>1 DEF LockRunDir, history, Types, HistoryTypes
    <3> QED BY <3>1, <3>2, <3>3 DEF Types
  <2>2. LocksAreHeld'
    BY <1>0, <1>1 DEF LockRunDir, Go, history, Types, ProcessTypes, LocksAreHeld, JobsFit, Holding, Assembled
  <2>3. JobsFit'
    BY <1>0, <1>1 DEF LockRunDir, Go, history, Types, ProcessTypes, JobsFit, Holding, Assembled
  <2>4. HasLock'
    BY <1>0, <1>1 DEF LockRunDir, Go, history, Types, ProcessTypes, JobsFit, HasLock, Holding, Assembled
  <2>5. DirIsOwn'
    <3>1. rundir' = rundir /\ \A q \in Procs :
             \/ pc'[q] = pc[q] /\ job'[q] = job[q]
             \/ pc'[q] \notin {"artifacts", "config"} \union Assembled
             \/ pc'[q] \in Assembled /\ pc[q] \in Assembled /\ job'[q] = job[q]
      BY <1>0, <1>1 DEF LockRunDir, Go, history, Types, ProcessTypes, Assembled
    <3> QED BY ONLY <1>0, <3>1, DirKept
  <2>6. LinksFit'
    BY <1>0, <1>1 DEF LockRunDir, Go, history, Types, SharedTypes, ProcessTypes, JobsFit, HasLock, DirIsOwn, LinksFit, Own, Live, Entry, Emptied, Holding, Assembled, Pieces, Installations
  <2>7. LinksAreLogged'
    BY <1>0, <1>1 DEF LockRunDir, Go, history, Types, SharedTypes, ProcessTypes, JobsFit, LinksFit, LinksAreLogged, Entry, Installations
  <2> QED BY <2>1, <2>2, <2>3, <2>4, <2>5, <2>6, <2>7 DEF LaunchInv
<1>2. ASSUME NEW p \in Procs, EmptyRunDir(p) PROVE LaunchInv'
  <2>1. Types'
    <3>1. SharedTypes'
      BY <1>0, <1>2, EntryTyped DEF EmptyRunDir, Go, history, Step, Types, SharedTypes, ProcessTypes, Emptied, Assembled
    <3>2. ProcessTypes'
      BY <1>0, <1>2, StepTyped DEF EmptyRunDir, Go, history, Step, Types, SharedTypes, ProcessTypes, Assembled
    <3>3. HistoryTypes'
      BY <1>0, <1>2 DEF EmptyRunDir, history, Types, HistoryTypes
    <3> QED BY <3>1, <3>2, <3>3 DEF Types
  <2>2. LocksAreHeld'
    BY <1>0, <1>2 DEF EmptyRunDir, Go, history, Step, Types, ProcessTypes, LocksAreHeld, JobsFit, Holding, Assembled
  <2>3. JobsFit'
    BY <1>0, <1>2 DEF EmptyRunDir, Go, history, Step, Types, ProcessTypes, JobsFit, Holding, Assembled
  <2>4. HasLock'
    BY <1>0, <1>2 DEF EmptyRunDir, Go, history, Step, Types, ProcessTypes, JobsFit, HasLock, Holding, Assembled
  <2>5. DirIsOwn'
    <3>1. \A q \in Procs : q # p =>
            /\ pc'[q] = pc[q] /\ job'[q] = job[q]
            /\ pc[q] \in Holding => rundir'[job[q].harness] = rundir[job[q].harness]
      BY <1>0, <1>2, Alone DEF EmptyRunDir, Step, Go, Types, SharedTypes, ProcessTypes, Holding
    <3>2. pc[p] # "idle" /\ job[p] \in Jobs /\ job[p] # None
      BY <1>0, <1>2 DEF EmptyRunDir, JobsFit, Types, ProcessTypes
    <3>3. job[p].harness \in Harnesses
      BY <3>2, NoneIsNobody
    <3>4. pc'[p] = "artifacts" /\ job' = job /\ rundir'[job[p].harness] = Emptied
      BY <1>0, <1>2, <3>3 DEF EmptyRunDir, Step, Go, Types, SharedTypes, ProcessTypes
    <3> QED BY ONLY <1>0, <3>1, <3>4, DirRewritten DEF Assembled
  <2>6. LinksFit'
    BY <1>0, <1>2 DEF EmptyRunDir, Go, history, Step, Types, SharedTypes, ProcessTypes, JobsFit, HasLock, DirIsOwn, LinksFit, Own, Live, Entry, Emptied, Holding, Assembled, Pieces, Installations
  <2>7. LinksAreLogged'
    BY <1>0, <1>2 DEF EmptyRunDir, Go, history, Step, Types, SharedTypes, ProcessTypes, JobsFit, LinksFit, LinksAreLogged, Entry, Installations
  <2> QED BY <2>1, <2>2, <2>3, <2>4, <2>5, <2>6, <2>7 DEF LaunchInv
<1>3. ASSUME NEW p \in Procs, AssembleArtifacts(p) PROVE LaunchInv'
  <2>1. Types'
    <3>1. SharedTypes'
      BY <1>0, <1>3, WriteTyped DEF AssembleArtifacts, Types, JobsFit, Pieces
    <3>2. ProcessTypes'
      BY <1>0, <1>3, StepTyped DEF AssembleArtifacts, Go, history, Step, Write, Types, SharedTypes, ProcessTypes, Assembled
    <3>3. HistoryTypes'
      BY <1>0, <1>3 DEF AssembleArtifacts, history, Types, HistoryTypes
    <3> QED BY <3>1, <3>2, <3>3 DEF Types
  <2>2. LocksAreHeld'
    BY <1>0, <1>3 DEF AssembleArtifacts, Go, history, Step, Write, Types, ProcessTypes, LocksAreHeld, JobsFit, Holding, Assembled
  <2>3. JobsFit'
    BY <1>0, <1>3 DEF AssembleArtifacts, Go, history, Step, Write, Types, ProcessTypes, JobsFit, Holding, Assembled
  <2>4. HasLock'
    BY <1>0, <1>3 DEF AssembleArtifacts, Go, history, Step, Write, Types, ProcessTypes, JobsFit, HasLock, Holding, Assembled
  <2>5. DirIsOwn'
    <3>1. \A q \in Procs : q # p =>
            /\ pc'[q] = pc[q] /\ job'[q] = job[q]
            /\ pc[q] \in Holding => rundir'[job[q].harness] = rundir[job[q].harness]
      BY <1>0, <1>3, Alone DEF AssembleArtifacts, Step, Write, Go, Types, SharedTypes, ProcessTypes, Holding
    <3>2. pc[p] # "idle" /\ job[p] \in Jobs /\ job[p] # None
      BY <1>0, <1>3 DEF AssembleArtifacts, JobsFit, Types, ProcessTypes
    <3>3. job[p].harness \in Harnesses
      BY <3>2, NoneIsNobody
    <3>4. rundir[job[p].harness].pieces = {}
      <4>1. rundir[job[p].harness] = Emptied
        BY <1>0, <1>3, Zenon DEF AssembleArtifacts, DirIsOwn
      <4> QED BY ONLY <4>1 DEF Emptied
    <3>5. rundir'[job[p].harness] =
            [ vendor |-> job[p].vendor, pieces |-> rundir[job[p].harness].pieces \union {<<"artifacts", p>>} ]
      BY <1>0, <1>3, <3>3 DEF AssembleArtifacts, Write, Types, SharedTypes
    <3>6. rundir'[job[p].harness] = [ vendor |-> job[p].vendor, pieces |-> {<<"artifacts", p>>} ]
      BY <3>4, <3>5
    <3>7. pc'[p] = "config" /\ job' = job
      BY <1>0, <1>3 DEF AssembleArtifacts, Step, Go, Types, ProcessTypes
    <3> QED BY ONLY <1>0, <3>1, <3>6, <3>7, DirRewritten DEF Assembled
  <2>6. LinksFit'
    BY <1>0, <1>3 DEF AssembleArtifacts, Go, history, Step, Write, Types, SharedTypes, ProcessTypes, JobsFit, HasLock, DirIsOwn, LinksFit, Own, Live, Entry, Emptied, Holding, Assembled, Pieces, Installations
  <2>7. LinksAreLogged'
    BY <1>0, <1>3 DEF AssembleArtifacts, Go, history, Step, Write, Types, SharedTypes, ProcessTypes, JobsFit, LinksFit, LinksAreLogged, Entry, Installations
  <2> QED BY <2>1, <2>2, <2>3, <2>4, <2>5, <2>6, <2>7 DEF LaunchInv
<1>4. ASSUME NEW p \in Procs, WriteConfig(p) PROVE LaunchInv'
  <2>1. Types'
    <3>1. SharedTypes'
      BY <1>0, <1>4, WriteTyped DEF WriteConfig, Types, JobsFit, Pieces
    <3>2. ProcessTypes'
      <4>1. job[p].act \in {"run", "install", "clean"}
        BY <1>0, <1>4, NoneIsNobody DEF WriteConfig, JobsFit, Types, ProcessTypes, Holding
      <4>2. Exit(p) \/ \E to \in Assembled : Step(p, to)
        BY <1>4, <4>1 DEF WriteConfig, Assembled
      <4> QED BY <1>0, <4>2, ExitTyped, StepTyped DEF Types
    <3>3. HistoryTypes'
      BY <1>0, <1>4 DEF WriteConfig, history, Types, HistoryTypes
    <3> QED BY <3>1, <3>2, <3>3 DEF Types
  <2>2. LocksAreHeld'
    BY <1>0, <1>4 DEF WriteConfig, Go, history, Step, Write, Exit, Unlock, Types, ProcessTypes, LocksAreHeld, JobsFit, Holding, Assembled
  <2>3. JobsFit'
    BY <1>0, <1>4 DEF WriteConfig, Go, history, Step, Write, Exit, Unlock, Types, ProcessTypes, JobsFit, Holding, Assembled
  <2>4. HasLock'
    BY <1>0, <1>4 DEF WriteConfig, Go, history, Step, Write, Exit, Unlock, Types, ProcessTypes, JobsFit, HasLock, Holding, Assembled
  <2>5. DirIsOwn'
    <3>1. \A q \in Procs : q # p =>
            /\ pc'[q] = pc[q] /\ job'[q] = job[q]
            /\ pc[q] \in Holding => rundir'[job[q].harness] = rundir[job[q].harness]
      BY <1>0, <1>4, Alone DEF WriteConfig, Step, Exit, Write, Go, Types, SharedTypes, ProcessTypes, Holding
    <3>2. pc[p] # "idle" /\ job[p] \in Jobs /\ job[p] # None
      BY <1>0, <1>4 DEF WriteConfig, JobsFit, Types, ProcessTypes
    <3>3. job[p].harness \in Harnesses
      BY <3>2, NoneIsNobody
    <3>4. rundir[job[p].harness].pieces = {<<"artifacts", p>>}
      <4>1. rundir[job[p].harness] = [ vendor |-> job[p].vendor, pieces |-> {<<"artifacts", p>>} ]
        BY <1>0, <1>4, Zenon DEF WriteConfig, DirIsOwn
      <4> QED BY ONLY <4>1
    <3>5. rundir'[job[p].harness] =
            [ vendor |-> job[p].vendor, pieces |-> rundir[job[p].harness].pieces \union {<<"config", p>>} ]
      BY <1>0, <1>4, <3>3 DEF WriteConfig, Write, Types, SharedTypes
    <3>6. {<<"artifacts", p>>} \union {<<"config", p>>} = Pieces \X {p}
      BY DEF Pieces
    <3>7. rundir'[job[p].harness] = [ vendor |-> job[p].vendor, pieces |-> Pieces \X {p} ]
      BY <3>4, <3>5, <3>6
    <3>8. pc'[p] \notin {"artifacts", "config"} /\ (pc'[p] \in Assembled => job'[p] = job[p])
      <4>1. job[p].act \in {"run", "install", "clean"}
        BY <1>0, <1>4, <3>2, NoneIsNobody DEF WriteConfig, JobsFit, Holding
      <4> QED BY <1>0, <1>4, <4>1 DEF WriteConfig, Step, Exit, Go, Types, ProcessTypes, Assembled
    <3>9. pc'[p] \in Assembled => Own(p)'
      BY <3>7, <3>8 DEF Own
    <3> QED BY ONLY <1>0, <3>1, <3>8, <3>9, DirRewritten
  <2>6. LinksFit'
    <3>1. links' = links /\ \A q \in Procs \ {p} :
             pc'[q] = pc[q] /\ job'[q] = job[q] /\ (q \in declined' <=> q \in declined)
      BY <1>0, <1>4 DEF WriteConfig, Step, Exit, Go, Types, ProcessTypes
    <3>2. pc'[p] \notin {"load", "record", "stale", "forget"} /\ (pc'[p] = "release" => job'[p].vendor \notin Linked)
      <4>1. job[p].act \in {"run", "install", "clean"}
        BY <1>0, <1>4, NoneIsNobody DEF WriteConfig, JobsFit, Types, ProcessTypes, Holding
      <4> QED BY <1>0, <1>4, <4>1 DEF WriteConfig, Step, Exit, Go, Types, ProcessTypes
    <3> QED BY <1>0, <3>1, <3>2 DEF LinksFit, Entry
  <2>7. LinksAreLogged'
    <3>1. links' = links /\ log' = log /\ overlap' = overlap /\ rough' = rough
      BY <1>4 DEF WriteConfig, history
    <3>2. \A q \in Procs : pc[q] \in {"load", "record"} => pc'[q] = pc[q] /\ job'[q] = job[q]
      BY <1>0, <1>4 DEF WriteConfig, Step, Exit, Go, Types, ProcessTypes
    <3> QED BY <1>0, <3>1, <3>2 DEF LinksAreLogged, Entry
  <2> QED BY <2>1, <2>2, <2>3, <2>4, <2>5, <2>6, <2>7 DEF LaunchInv
<1>5. ASSUME NEW p \in Procs, Plant(p) PROVE LaunchInv'
  <2>1. Types'
    <3>1. SharedTypes'
      BY <1>0, <1>5, EntryTyped DEF Plant, Go, history, Step, Types, SharedTypes, ProcessTypes, Emptied, Assembled
    <3>2. ProcessTypes'
      BY <1>0, <1>5, StepTyped DEF Plant, Go, history, Step, Types, SharedTypes, ProcessTypes, Assembled
    <3>3. HistoryTypes'
      BY <1>0, <1>5 DEF Plant, history, Types, HistoryTypes
    <3> QED BY <3>1, <3>2, <3>3 DEF Types
  <2>2. LocksAreHeld'
    BY <1>0, <1>5 DEF Plant, Go, history, Step, Types, ProcessTypes, LocksAreHeld, JobsFit, Holding, Assembled
  <2>3. JobsFit'
    BY <1>0, <1>5 DEF Plant, Go, history, Step, Types, ProcessTypes, JobsFit, Holding, Assembled
  <2>4. HasLock'
    BY <1>0, <1>5 DEF Plant, Go, history, Step, Types, ProcessTypes, JobsFit, HasLock, Holding, Assembled
  <2>5. DirIsOwn'
    <3>1. rundir' = rundir /\ \A q \in Procs :
             \/ pc'[q] = pc[q] /\ job'[q] = job[q]
             \/ pc'[q] \notin {"artifacts", "config"} \union Assembled
             \/ pc'[q] \in Assembled /\ pc[q] \in Assembled /\ job'[q] = job[q]
      BY <1>0, <1>5 DEF Plant, Go, history, Step, Types, ProcessTypes, Assembled
    <3> QED BY ONLY <1>0, <3>1, DirKept
  <2>6. LinksFit'
    BY <1>0, <1>5 DEF Plant, Go, history, Step, Types, SharedTypes, ProcessTypes, JobsFit, HasLock, DirIsOwn, LinksFit, Own, Live, Entry, Emptied, Holding, Assembled, Pieces, Installations
  <2>7. LinksAreLogged'
    BY <1>0, <1>5 DEF Plant, Go, history, Step, Types, SharedTypes, ProcessTypes, JobsFit, LinksFit, LinksAreLogged, Entry, Installations
  <2> QED BY <2>1, <2>2, <2>3, <2>4, <2>5, <2>6, <2>7 DEF LaunchInv
<1>6. ASSUME NEW p \in Procs, LoadLog(p) PROVE LaunchInv'
  <2>1. Types'
    <3>1. SharedTypes'
      BY <1>0, <1>6, EntryTyped DEF LoadLog, Go, history, Types, SharedTypes, ProcessTypes, Emptied, Assembled
    <3>2. ProcessTypes'
      BY <1>0, <1>6, StepTyped DEF LoadLog, Go, history, Types, SharedTypes, ProcessTypes, Assembled
    <3>3. HistoryTypes'
      BY <1>0, <1>6 DEF LoadLog, history, Types, HistoryTypes
    <3> QED BY <3>1, <3>2, <3>3 DEF Types
  <2>2. LocksAreHeld'
    BY <1>0, <1>6 DEF LoadLog, Go, history, Types, ProcessTypes, LocksAreHeld, JobsFit, Holding, Assembled
  <2>3. JobsFit'
    BY <1>0, <1>6 DEF LoadLog, Go, history, Types, ProcessTypes, JobsFit, Holding, Assembled
  <2>4. HasLock'
    BY <1>0, <1>6 DEF LoadLog, Go, history, Types, ProcessTypes, JobsFit, HasLock, Holding, Assembled
  <2>5. DirIsOwn'
    <3>1. rundir' = rundir /\ \A q \in Procs :
             \/ pc'[q] = pc[q] /\ job'[q] = job[q]
             \/ pc'[q] \notin {"artifacts", "config"} \union Assembled
             \/ pc'[q] \in Assembled /\ pc[q] \in Assembled /\ job'[q] = job[q]
      BY <1>0, <1>6 DEF LoadLog, Go, history, Types, ProcessTypes, Assembled
    <3> QED BY ONLY <1>0, <3>1, DirKept
  <2>6. LinksFit'
    BY <1>0, <1>6 DEF LoadLog, Go, history, Types, SharedTypes, ProcessTypes, JobsFit, HasLock, DirIsOwn, LinksFit, Own, Live, Entry, Emptied, Holding, Assembled, Pieces, Installations
  <2>7. LinksAreLogged'
    BY <1>0, <1>6 DEF LoadLog, Go, history, Types, SharedTypes, ProcessTypes, JobsFit, LinksFit, LinksAreLogged, Entry, Installations
  <2> QED BY <2>1, <2>2, <2>3, <2>4, <2>5, <2>6, <2>7 DEF LaunchInv
<1>7. ASSUME NEW p \in Procs, Record(p) PROVE LaunchInv'
  <2>1. Types'
    <3>1. SharedTypes'
      BY <1>0, <1>7, EntryTyped DEF Record, Go, history, Step, Save, Exit, Unlock, Types, SharedTypes, ProcessTypes, Emptied, Assembled
    <3>2. ProcessTypes'
      BY <1>0, <1>7, ExitTyped, StepTyped DEF Record, Go, history, Step, Save, Types, SharedTypes, ProcessTypes, Assembled
    <3>3. HistoryTypes'
      BY <1>0, <1>7 DEF Record, Save, history, Types, HistoryTypes
    <3> QED BY <3>1, <3>2, <3>3 DEF Types
  <2>2. LocksAreHeld'
    BY <1>0, <1>7 DEF Record, Go, history, Step, Save, Exit, Unlock, Types, ProcessTypes, LocksAreHeld, JobsFit, Holding, Assembled
  <2>3. JobsFit'
    BY <1>0, <1>7 DEF Record, Go, history, Step, Save, Exit, Unlock, Types, ProcessTypes, JobsFit, Holding, Assembled
  <2>4. HasLock'
    BY <1>0, <1>7 DEF Record, Go, history, Step, Save, Exit, Unlock, Types, ProcessTypes, JobsFit, HasLock, Holding, Assembled
  <2>5. DirIsOwn'
    <3>1. rundir' = rundir /\ \A q \in Procs :
             \/ pc'[q] = pc[q] /\ job'[q] = job[q]
             \/ pc'[q] \notin {"artifacts", "config"} \union Assembled
             \/ pc'[q] \in Assembled /\ pc[q] \in Assembled /\ job'[q] = job[q]
      BY <1>0, <1>7 DEF Record, Go, history, Step, Save, Exit, Unlock, Types, ProcessTypes, Assembled
    <3> QED BY ONLY <1>0, <3>1, DirKept
  <2>6. LinksFit'
    BY <1>0, <1>7 DEF Record, Go, history, Step, Save, Exit, Unlock, Types, SharedTypes, ProcessTypes, JobsFit, HasLock, DirIsOwn, LinksFit, Own, Live, Entry, Emptied, Holding, Assembled, Pieces, Installations
  <2>7. LinksAreLogged'
    <3> SUFFICES ASSUME ~overlap', ~rough', NEW e \in links' \ log'
                 PROVE \E q \in Procs : pc'[q] \in {"load", "record"} /\ Entry(q)' = e
      BY DEF LinksAreLogged
    <3>1. ~overlap /\ ~rough /\ copy[p] = log /\ e \in links \ log /\ e # Entry(p)
      BY <1>7 DEF Record, Save
    <3>2. PICK q \in Procs : pc[q] \in {"load", "record"} /\ Entry(q) = e
      BY <1>0, <3>1 DEF LinksAreLogged
    <3>3. q # p
      BY <3>1, <3>2
    <3>4. pc'[q] = pc[q] /\ job'[q] = job[q]
      BY <1>0, <1>7, <3>3 DEF Record, Step, Exit, Go, Types, ProcessTypes
    <3> QED BY <3>2, <3>4 DEF Entry
  <2> QED BY <2>1, <2>2, <2>3, <2>4, <2>5, <2>6, <2>7 DEF LaunchInv
<1>8. ASSUME NEW p \in Procs, FindInstallation(p) PROVE LaunchInv'
  <2>1. Types'
    <3>1. SharedTypes'
      BY <1>0, <1>8, EntryTyped DEF FindInstallation, Go, history, Exit, Unlock, Types, SharedTypes, ProcessTypes, Emptied, Assembled
    <3>2. ProcessTypes'
      BY <1>0, <1>8, ExitTyped, StepTyped DEF FindInstallation, Go, history, Types, SharedTypes, ProcessTypes, Assembled
    <3>3. HistoryTypes'
      BY <1>0, <1>8 DEF FindInstallation, history, Types, HistoryTypes
    <3> QED BY <3>1, <3>2, <3>3 DEF Types
  <2>2. LocksAreHeld'
    BY <1>0, <1>8 DEF FindInstallation, Go, history, Exit, Unlock, Types, ProcessTypes, LocksAreHeld, JobsFit, Holding, Assembled
  <2>3. JobsFit'
    BY <1>0, <1>8 DEF FindInstallation, Go, history, Exit, Unlock, Types, ProcessTypes, JobsFit, Holding, Assembled
  <2>4. HasLock'
    BY <1>0, <1>8 DEF FindInstallation, Go, history, Exit, Unlock, Types, ProcessTypes, JobsFit, HasLock, Holding, Assembled
  <2>5. DirIsOwn'
    <3>1. rundir' = rundir /\ \A q \in Procs :
             \/ pc'[q] = pc[q] /\ job'[q] = job[q]
             \/ pc'[q] \notin {"artifacts", "config"} \union Assembled
             \/ pc'[q] \in Assembled /\ pc[q] \in Assembled /\ job'[q] = job[q]
      BY <1>0, <1>8 DEF FindInstallation, Go, history, Exit, Unlock, Types, ProcessTypes, Assembled
    <3> QED BY ONLY <1>0, <3>1, DirKept
  <2>6. LinksFit'
    <3>1. links' = links /\ pc'[p] \in {"unlink", "idle"}
      BY <1>0, <1>8 DEF FindInstallation, Exit, Go, Types, ProcessTypes
    <3>2. \A q \in Procs \ {p} : pc'[q] = pc[q] /\ job'[q] = job[q] /\ (q \in declined' <=> q \in declined)
      BY <1>0, <1>8 DEF FindInstallation, Exit, Go, Types, ProcessTypes
    <3> QED BY <1>0, <3>1, <3>2 DEF LinksFit, Entry
  <2>7. LinksAreLogged'
    BY <1>0, <1>8 DEF FindInstallation, Go, history, Exit, Unlock, Types, SharedTypes, ProcessTypes, JobsFit, LinksFit, LinksAreLogged, Entry, Installations
  <2> QED BY <2>1, <2>2, <2>3, <2>4, <2>5, <2>6, <2>7 DEF LaunchInv
<1>9. ASSUME NEW p \in Procs, CleanLinks(p) PROVE LaunchInv'
  <2>1. Types'
    <3>1. SharedTypes'
      BY <1>0, <1>9, EntryTyped DEF CleanLinks, Go, history, Step, Types, SharedTypes, ProcessTypes, Emptied, Assembled
    <3>2. ProcessTypes'
      BY <1>0, <1>9, StepTyped DEF CleanLinks, Go, history, Step, Types, SharedTypes, ProcessTypes, Assembled
    <3>3. HistoryTypes'
      BY <1>0, <1>9 DEF CleanLinks, history, Types, HistoryTypes
    <3> QED BY <3>1, <3>2, <3>3 DEF Types
  <2>2. LocksAreHeld'
    BY <1>0, <1>9 DEF CleanLinks, Go, history, Step, Types, ProcessTypes, LocksAreHeld, JobsFit, Holding, Assembled
  <2>3. JobsFit'
    BY <1>0, <1>9 DEF CleanLinks, Go, history, Step, Types, ProcessTypes, JobsFit, Holding, Assembled
  <2>4. HasLock'
    BY <1>0, <1>9 DEF CleanLinks, Go, history, Step, Types, ProcessTypes, JobsFit, HasLock, Holding, Assembled
  <2>5. DirIsOwn'
    <3>1. rundir' = rundir /\ \A q \in Procs :
             \/ pc'[q] = pc[q] /\ job'[q] = job[q]
             \/ pc'[q] \notin {"artifacts", "config"} \union Assembled
             \/ pc'[q] \in Assembled /\ pc[q] \in Assembled /\ job'[q] = job[q]
      BY <1>0, <1>9 DEF CleanLinks, Go, history, Step, Types, ProcessTypes, Assembled
    <3> QED BY ONLY <1>0, <3>1, DirKept
  <2>6. LinksFit'
    BY <1>0, <1>9 DEF CleanLinks, Go, history, Step, Types, SharedTypes, ProcessTypes, JobsFit, HasLock, DirIsOwn, LinksFit, Own, Live, Entry, Emptied, Holding, Assembled, Pieces, Installations
  <2>7. LinksAreLogged'
    BY <1>0, <1>9 DEF CleanLinks, Go, history, Step, Types, SharedTypes, ProcessTypes, JobsFit, LinksFit, LinksAreLogged, Entry, Installations
  <2> QED BY <2>1, <2>2, <2>3, <2>4, <2>5, <2>6, <2>7 DEF LaunchInv
<1>10. ASSUME NEW p \in Procs, RemoveInstallation(p) PROVE LaunchInv'
  <2>1. Types'
    <3>1. SharedTypes'
      BY <1>0, <1>10, EntryTyped DEF RemoveInstallation, Go, history, Save, Exit, Unlock, Types, SharedTypes, ProcessTypes, Emptied, Assembled
    <3>2. ProcessTypes'
      BY <1>0, <1>10, ExitTyped, StepTyped DEF RemoveInstallation, Go, history, Save, Types, SharedTypes, ProcessTypes, Assembled
    <3>3. HistoryTypes'
      BY <1>0, <1>10 DEF RemoveInstallation, Save, history, Types, HistoryTypes
    <3> QED BY <3>1, <3>2, <3>3 DEF Types
  <2>2. LocksAreHeld'
    BY <1>0, <1>10 DEF RemoveInstallation, Go, history, Save, Exit, Unlock, Types, ProcessTypes, LocksAreHeld, JobsFit, Holding, Assembled
  <2>3. JobsFit'
    BY <1>0, <1>10 DEF RemoveInstallation, Go, history, Save, Exit, Unlock, Types, ProcessTypes, JobsFit, Holding, Assembled
  <2>4. HasLock'
    BY <1>0, <1>10 DEF RemoveInstallation, Go, history, Save, Exit, Unlock, Types, ProcessTypes, JobsFit, HasLock, Holding, Assembled
  <2>5. DirIsOwn'
    <3>1. rundir' = rundir /\ \A q \in Procs :
             \/ pc'[q] = pc[q] /\ job'[q] = job[q]
             \/ pc'[q] \notin {"artifacts", "config"} \union Assembled
             \/ pc'[q] \in Assembled /\ pc[q] \in Assembled /\ job'[q] = job[q]
      BY <1>0, <1>10 DEF RemoveInstallation, Go, history, Save, Exit, Unlock, Types, ProcessTypes, Assembled
    <3> QED BY ONLY <1>0, <3>1, DirKept
  <2>6. LinksFit'
    BY <1>0, <1>10 DEF RemoveInstallation, Go, history, Save, Exit, Unlock, Types, SharedTypes, ProcessTypes, JobsFit, HasLock, DirIsOwn, LinksFit, Own, Live, Entry, Emptied, Holding, Assembled, Pieces, Installations
  <2>7. LinksAreLogged'
    BY <1>0, <1>10 DEF RemoveInstallation, Go, history, Save, Exit, Unlock, Types, SharedTypes, ProcessTypes, JobsFit, LinksFit, LinksAreLogged, Entry, Installations
  <2> QED BY <2>1, <2>2, <2>3, <2>4, <2>5, <2>6, <2>7 DEF LaunchInv
<1>11. ASSUME NEW p \in Procs, CheckLinks(p) PROVE LaunchInv'
  <2>1. Types'
    <3>1. SharedTypes'
      BY <1>0, <1>11, EntryTyped DEF CheckLinks, Go, history, Types, SharedTypes, ProcessTypes, Emptied, Assembled
    <3>2. ProcessTypes'
      BY <1>0, <1>11, StepTyped DEF CheckLinks, Go, history, Types, SharedTypes, ProcessTypes, Assembled
    <3>3. HistoryTypes'
      BY <1>0, <1>11 DEF CheckLinks, history, Types, HistoryTypes
    <3> QED BY <3>1, <3>2, <3>3 DEF Types
  <2>2. LocksAreHeld'
    BY <1>0, <1>11 DEF CheckLinks, Go, history, Types, ProcessTypes, LocksAreHeld, JobsFit, Holding, Assembled
  <2>3. JobsFit'
    BY <1>0, <1>11 DEF CheckLinks, Go, history, Types, ProcessTypes, JobsFit, Holding, Assembled
  <2>4. HasLock'
    BY <1>0, <1>11 DEF CheckLinks, Go, history, Types, ProcessTypes, JobsFit, HasLock, Holding, Assembled
  <2>5. DirIsOwn'
    <3>1. rundir' = rundir /\ \A q \in Procs :
             \/ pc'[q] = pc[q] /\ job'[q] = job[q]
             \/ pc'[q] \notin {"artifacts", "config"} \union Assembled
             \/ pc'[q] \in Assembled /\ pc[q] \in Assembled /\ job'[q] = job[q]
      BY <1>0, <1>11 DEF CheckLinks, Go, history, Types, ProcessTypes, Assembled
    <3> QED BY ONLY <1>0, <3>1, DirKept
  <2>6. LinksFit'
    <3>1. links' = links /\ job' = job /\ declined' = declined /\ \A q \in Procs \ {p} : pc'[q] = pc[q]
      BY <1>0, <1>11 DEF CheckLinks, Go, Types, ProcessTypes
    <3>2. Own(p)
      BY <1>0, <1>11 DEF CheckLinks, DirIsOwn, Assembled
    <3>3. Live(Entry(p)) <=> Entry(p) \in links
      BY <3>2 DEF Own, Live, Entry, Pieces
    <3>4. /\ pc'[p] \in {"ask", "release", "stale"}
          /\ pc'[p] = "release" => Live(Entry(p))
          /\ pc'[p] = "stale" => ~Live(Entry(p))
      BY <1>0, <1>11 DEF CheckLinks, Go, Types, ProcessTypes
    <3> QED BY <1>0, <3>1, <3>3, <3>4 DEF LinksFit, Entry
  <2>7. LinksAreLogged'
    BY <1>0, <1>11 DEF CheckLinks, Go, history, Types, SharedTypes, ProcessTypes, JobsFit, LinksFit, LinksAreLogged, Entry, Installations
  <2> QED BY <2>1, <2>2, <2>3, <2>4, <2>5, <2>6, <2>7 DEF LaunchInv
<1>12. ASSUME NEW p \in Procs, DropStale(p) PROVE LaunchInv'
  <2>1. Types'
    <3>1. SharedTypes'
      BY <1>0, <1>12, EntryTyped DEF DropStale, Go, history, Save, Step, Types, SharedTypes, ProcessTypes, Emptied, Assembled
    <3>2. ProcessTypes'
      BY <1>0, <1>12, StepTyped DEF DropStale, Go, history, Save, Step, Types, SharedTypes, ProcessTypes, Assembled
    <3>3. HistoryTypes'
      BY <1>0, <1>12 DEF DropStale, Save, history, Types, HistoryTypes
    <3> QED BY <3>1, <3>2, <3>3 DEF Types
  <2>2. LocksAreHeld'
    BY <1>0, <1>12 DEF DropStale, Go, history, Save, Step, Types, ProcessTypes, LocksAreHeld, JobsFit, Holding, Assembled
  <2>3. JobsFit'
    BY <1>0, <1>12 DEF DropStale, Go, history, Save, Step, Types, ProcessTypes, JobsFit, Holding, Assembled
  <2>4. HasLock'
    BY <1>0, <1>12 DEF DropStale, Go, history, Save, Step, Types, ProcessTypes, JobsFit, HasLock, Holding, Assembled
  <2>5. DirIsOwn'
    <3>1. rundir' = rundir /\ \A q \in Procs :
             \/ pc'[q] = pc[q] /\ job'[q] = job[q]
             \/ pc'[q] \notin {"artifacts", "config"} \union Assembled
             \/ pc'[q] \in Assembled /\ pc[q] \in Assembled /\ job'[q] = job[q]
      BY <1>0, <1>12 DEF DropStale, Go, history, Save, Step, Types, ProcessTypes, Assembled
    <3> QED BY ONLY <1>0, <3>1, DirKept
  <2>6. LinksFit'
    BY <1>0, <1>12 DEF DropStale, Go, history, Save, Step, Types, SharedTypes, ProcessTypes, JobsFit, HasLock, DirIsOwn, LinksFit, Own, Live, Entry, Emptied, Holding, Assembled, Pieces, Installations
  <2>7. LinksAreLogged'
    <3> SUFFICES ASSUME ~overlap', ~rough', NEW e \in links' \ log'
                 PROVE  \E q \in Procs : pc'[q] \in {"load", "record"} /\ Entry(q)' = e
      BY DEF LinksAreLogged
    <3>1. links' = links /\ log' = log \ {Entry(p)} /\ ~overlap /\ ~rough
      BY <1>12 DEF DropStale, Save
    <3>2. e \in links \ log
      BY <1>0, <1>12, <3>1 DEF DropStale, LinksFit
    <3>3. PICK q \in Procs : pc[q] \in {"load", "record"} /\ Entry(q) = e
      BY <1>0, <3>1, <3>2 DEF LinksAreLogged
    <3>4. pc'[q] = pc[q] /\ job' = job
      BY <1>0, <1>12, <3>3 DEF DropStale, Step, Go, Types, ProcessTypes
    <3> QED BY <3>3, <3>4 DEF Entry
  <2> QED BY <2>1, <2>2, <2>3, <2>4, <2>5, <2>6, <2>7 DEF LaunchInv
<1>13. ASSUME NEW p \in Procs, Ask(p) PROVE LaunchInv'
  <2>1. Types'
    <3>1. SharedTypes'
      BY <1>0, <1>13, EntryTyped DEF Ask, Go, history, Step, Exit, Unlock, Types, SharedTypes, ProcessTypes, Emptied, Assembled
    <3>2. ProcessTypes'
      BY <1>0, <1>13, ExitTyped, StepTyped DEF Ask, Go, history, Step, Types, SharedTypes, ProcessTypes, Assembled
    <3>3. HistoryTypes'
      BY <1>0, <1>13 DEF Ask, history, Types, HistoryTypes
    <3> QED BY <3>1, <3>2, <3>3 DEF Types
  <2>2. LocksAreHeld'
    BY <1>0, <1>13 DEF Ask, Go, history, Step, Exit, Unlock, Types, ProcessTypes, LocksAreHeld, JobsFit, Holding, Assembled
  <2>3. JobsFit'
    BY <1>0, <1>13 DEF Ask, Go, history, Step, Exit, Unlock, Types, ProcessTypes, JobsFit, Holding, Assembled
  <2>4. HasLock'
    BY <1>0, <1>13 DEF Ask, Go, history, Step, Exit, Unlock, Types, ProcessTypes, JobsFit, HasLock, Holding, Assembled
  <2>5. DirIsOwn'
    <3>1. rundir' = rundir /\ \A q \in Procs :
             \/ pc'[q] = pc[q] /\ job'[q] = job[q]
             \/ pc'[q] \notin {"artifacts", "config"} \union Assembled
             \/ pc'[q] \in Assembled /\ pc[q] \in Assembled /\ job'[q] = job[q]
      BY <1>0, <1>13 DEF Ask, Go, history, Step, Exit, Unlock, Types, ProcessTypes, Assembled
    <3> QED BY ONLY <1>0, <3>1, DirKept
  <2>6. LinksFit'
    BY <1>0, <1>13 DEF Ask, Go, history, Step, Exit, Unlock, Types, SharedTypes, ProcessTypes, JobsFit, HasLock, DirIsOwn, LinksFit, Own, Live, Entry, Emptied, Holding, Assembled, Pieces, Installations
  <2>7. LinksAreLogged'
    BY <1>0, <1>13 DEF Ask, Go, history, Step, Exit, Unlock, Types, SharedTypes, ProcessTypes, JobsFit, LinksFit, LinksAreLogged, Entry, Installations
  <2> QED BY <2>1, <2>2, <2>3, <2>4, <2>5, <2>6, <2>7 DEF LaunchInv
<1>14. ASSUME NEW p \in Procs, Survey(p) PROVE LaunchInv'
  <2>1. Types'
    <3>1. SharedTypes'
      BY <1>0, <1>14, EntryTyped DEF Survey, Go, history, Exit, Unlock, Types, SharedTypes, ProcessTypes, Emptied, Assembled
    <3>2. ProcessTypes'
      BY <1>0, <1>14, ExitTyped, StepTyped DEF Survey, Go, history, Types, SharedTypes, ProcessTypes, Assembled
    <3>3. HistoryTypes'
      BY <1>0, <1>14 DEF Survey, history, Types, HistoryTypes
    <3> QED BY <3>1, <3>2, <3>3 DEF Types
  <2>2. LocksAreHeld'
    BY <1>0, <1>14 DEF Survey, Go, history, Exit, Unlock, Types, ProcessTypes, LocksAreHeld, JobsFit, Holding, Assembled
  <2>3. JobsFit'
    BY <1>0, <1>14 DEF Survey, Go, history, Exit, Unlock, Types, ProcessTypes, JobsFit, Holding, Assembled
  <2>4. HasLock'
    BY <1>0, <1>14 DEF Survey, Go, history, Exit, Unlock, Types, ProcessTypes, JobsFit, HasLock, Holding, Assembled
  <2>5. DirIsOwn'
    <3>1. rundir' = rundir /\ \A q \in Procs :
             \/ pc'[q] = pc[q] /\ job'[q] = job[q]
             \/ pc'[q] \notin {"artifacts", "config"} \union Assembled
             \/ pc'[q] \in Assembled /\ pc[q] \in Assembled /\ job'[q] = job[q]
      BY <1>0, <1>14 DEF Survey, Go, history, Exit, Unlock, Types, ProcessTypes, Assembled
    <3> QED BY ONLY <1>0, <3>1, DirKept
  <2>6. LinksFit'
    BY <1>0, <1>14 DEF Survey, Go, history, Exit, Unlock, Types, SharedTypes, ProcessTypes, JobsFit, HasLock, DirIsOwn, LinksFit, Own, Live, Entry, Emptied, Holding, Assembled, Pieces, Installations
  <2>7. LinksAreLogged'
    BY <1>0, <1>14 DEF Survey, Go, history, Exit, Unlock, Types, SharedTypes, ProcessTypes, JobsFit, LinksFit, LinksAreLogged, Entry, Installations
  <2> QED BY <2>1, <2>2, <2>3, <2>4, <2>5, <2>6, <2>7 DEF LaunchInv
<1>15. ASSUME NEW p \in Procs, RemoveOrphans(p) PROVE LaunchInv'
  <2>1. Types'
    <3>1. SharedTypes'
      BY <1>0, <1>15, EntryTyped DEF RemoveOrphans, Go, history, Save, Exit, Unlock, Types, SharedTypes, ProcessTypes, Emptied, Assembled
    <3>2. ProcessTypes'
      BY <1>0, <1>15, ExitTyped, StepTyped DEF RemoveOrphans, Go, history, Save, Types, SharedTypes, ProcessTypes, Assembled
    <3>3. HistoryTypes'
      BY <1>0, <1>15 DEF RemoveOrphans, Save, history, Types, HistoryTypes
    <3> QED BY <3>1, <3>2, <3>3 DEF Types
  <2>2. LocksAreHeld'
    BY <1>0, <1>15 DEF RemoveOrphans, Go, history, Save, Exit, Unlock, Types, ProcessTypes, LocksAreHeld, JobsFit, Holding, Assembled
  <2>3. JobsFit'
    BY <1>0, <1>15 DEF RemoveOrphans, Go, history, Save, Exit, Unlock, Types, ProcessTypes, JobsFit, Holding, Assembled
  <2>4. HasLock'
    BY <1>0, <1>15 DEF RemoveOrphans, Go, history, Save, Exit, Unlock, Types, ProcessTypes, JobsFit, HasLock, Holding, Assembled
  <2>5. DirIsOwn'
    <3>1. rundir' = rundir /\ \A q \in Procs :
             \/ pc'[q] = pc[q] /\ job'[q] = job[q]
             \/ pc'[q] \notin {"artifacts", "config"} \union Assembled
             \/ pc'[q] \in Assembled /\ pc[q] \in Assembled /\ job'[q] = job[q]
      BY <1>0, <1>15 DEF RemoveOrphans, Go, history, Save, Exit, Unlock, Types, ProcessTypes, Assembled
    <3> QED BY ONLY <1>0, <3>1, DirKept
  <2>6. LinksFit'
    BY <1>0, <1>15 DEF RemoveOrphans, Go, history, Save, Exit, Unlock, Types, SharedTypes, ProcessTypes, JobsFit, HasLock, DirIsOwn, LinksFit, Own, Live, Entry, Emptied, Holding, Assembled, Pieces, Installations
  <2>7. LinksAreLogged'
    BY <1>0, <1>15 DEF RemoveOrphans, Go, history, Save, Exit, Unlock, Types, SharedTypes, ProcessTypes, JobsFit, LinksFit, LinksAreLogged, Entry, Installations
  <2> QED BY <2>1, <2>2, <2>3, <2>4, <2>5, <2>6, <2>7 DEF LaunchInv
<1>16. ASSUME NEW p \in Procs, ChildStart(p) PROVE LaunchInv'
  <2>1. Types'
    <3>1. SharedTypes'
      BY <1>0, <1>16, EntryTyped DEF ChildStart, Go, history, Unlock, Types, SharedTypes, ProcessTypes, Emptied, Assembled
    <3>2. ProcessTypes'
      BY <1>0, <1>16 DEF ChildStart, Unlock, Go, Types, ProcessTypes
    <3>3. HistoryTypes'
      BY <1>0, <1>16 DEF ChildStart, history, Types, HistoryTypes
    <3> QED BY <3>1, <3>2, <3>3 DEF Types
  <2>2. LocksAreHeld'
    BY <1>0, <1>16 DEF ChildStart, Go, history, Unlock, Types, ProcessTypes, LocksAreHeld, JobsFit, Holding, Assembled
  <2>3. JobsFit'
    BY <1>0, <1>16 DEF ChildStart, Go, history, Unlock, Types, ProcessTypes, JobsFit, Holding, Assembled
  <2>4. HasLock'
    BY <1>0, <1>16 DEF ChildStart, Go, history, Unlock, Types, ProcessTypes, JobsFit, HasLock, Holding, Assembled
  <2>5. DirIsOwn'
    <3>1. rundir' = rundir /\ \A q \in Procs :
             \/ pc'[q] = pc[q] /\ job'[q] = job[q]
             \/ pc'[q] \notin {"artifacts", "config"} \union Assembled
             \/ pc'[q] \in Assembled /\ pc[q] \in Assembled /\ job'[q] = job[q]
      BY <1>0, <1>16 DEF ChildStart, Go, history, Unlock, Types, ProcessTypes, Assembled
    <3> QED BY ONLY <1>0, <3>1, DirKept
  <2>6. LinksFit'
    BY <1>0, <1>16 DEF ChildStart, Go, history, Unlock, Types, SharedTypes, ProcessTypes, JobsFit, HasLock, DirIsOwn, LinksFit, Own, Live, Entry, Emptied, Holding, Assembled, Pieces, Installations
  <2>7. LinksAreLogged'
    BY <1>0, <1>16 DEF ChildStart, Go, history, Unlock, Types, SharedTypes, ProcessTypes, JobsFit, LinksFit, LinksAreLogged, Entry, Installations
  <2> QED BY <2>1, <2>2, <2>3, <2>4, <2>5, <2>6, <2>7 DEF LaunchInv
<1>17. ASSUME NEW p \in Procs, Spawn(p) PROVE LaunchInv'
  <2>1. Types'
    <3>1. SharedTypes'
      BY <1>0, <1>17, EntryTyped DEF Spawn, Go, history, Step, Types, SharedTypes, ProcessTypes, Emptied, Assembled
    <3>2. ProcessTypes'
      BY <1>0, <1>17, StepTyped DEF Spawn, Go, history, Step, Types, SharedTypes, ProcessTypes, Assembled
    <3>3. HistoryTypes'
      BY <1>0, <1>17 DEF Spawn, history, Types, HistoryTypes
    <3> QED BY <3>1, <3>2, <3>3 DEF Types
  <2>2. LocksAreHeld'
    BY <1>0, <1>17 DEF Spawn, Go, history, Step, Types, ProcessTypes, LocksAreHeld, JobsFit, Holding, Assembled
  <2>3. JobsFit'
    BY <1>0, <1>17 DEF Spawn, Go, history, Step, Types, ProcessTypes, JobsFit, Holding, Assembled
  <2>4. HasLock'
    BY <1>0, <1>17 DEF Spawn, Go, history, Step, Types, ProcessTypes, JobsFit, HasLock, Holding, Assembled
  <2>5. DirIsOwn'
    <3>1. rundir' = rundir /\ \A q \in Procs :
             \/ pc'[q] = pc[q] /\ job'[q] = job[q]
             \/ pc'[q] \notin {"artifacts", "config"} \union Assembled
             \/ pc'[q] \in Assembled /\ pc[q] \in Assembled /\ job'[q] = job[q]
      BY <1>0, <1>17 DEF Spawn, Go, history, Step, Types, ProcessTypes, Assembled
    <3> QED BY ONLY <1>0, <3>1, DirKept
  <2>6. LinksFit'
    BY <1>0, <1>17 DEF Spawn, Go, history, Step, Types, SharedTypes, ProcessTypes, JobsFit, HasLock, DirIsOwn, LinksFit, Own, Live, Entry, Emptied, Holding, Assembled, Pieces, Installations
  <2>7. LinksAreLogged'
    BY <1>0, <1>17 DEF Spawn, Go, history, Step, Types, SharedTypes, ProcessTypes, JobsFit, LinksFit, LinksAreLogged, Entry, Installations
  <2> QED BY <2>1, <2>2, <2>3, <2>4, <2>5, <2>6, <2>7 DEF LaunchInv
<1>18. ASSUME NEW p \in Procs, SessionEnds(p) PROVE LaunchInv'
  <2>1. Types'
    <3>1. SharedTypes'
      BY <1>0, <1>18, EntryTyped DEF SessionEnds, Go, history, Exit, Unlock, Types, SharedTypes, ProcessTypes, Emptied, Assembled
    <3>2. ProcessTypes'
      BY <1>0, <1>18, ExitTyped, StepTyped DEF SessionEnds, Go, history, Types, SharedTypes, ProcessTypes, Assembled
    <3>3. HistoryTypes'
      BY <1>0, <1>18 DEF SessionEnds, history, Types, HistoryTypes
    <3> QED BY <3>1, <3>2, <3>3 DEF Types
  <2>2. LocksAreHeld'
    BY <1>0, <1>18 DEF SessionEnds, Go, history, Exit, Unlock, Types, ProcessTypes, LocksAreHeld, JobsFit, Holding, Assembled
  <2>3. JobsFit'
    BY <1>0, <1>18 DEF SessionEnds, Go, history, Exit, Unlock, Types, ProcessTypes, JobsFit, Holding, Assembled
  <2>4. HasLock'
    BY <1>0, <1>18 DEF SessionEnds, Go, history, Exit, Unlock, Types, ProcessTypes, JobsFit, HasLock, Holding, Assembled
  <2>5. DirIsOwn'
    <3>1. rundir' = rundir /\ \A q \in Procs :
             \/ pc'[q] = pc[q] /\ job'[q] = job[q]
             \/ pc'[q] \notin {"artifacts", "config"} \union Assembled
             \/ pc'[q] \in Assembled /\ pc[q] \in Assembled /\ job'[q] = job[q]
      BY <1>0, <1>18 DEF SessionEnds, Go, history, Exit, Unlock, Types, ProcessTypes, Assembled
    <3> QED BY ONLY <1>0, <3>1, DirKept
  <2>6. LinksFit'
    BY <1>0, <1>18 DEF SessionEnds, Go, history, Exit, Unlock, Types, SharedTypes, ProcessTypes, JobsFit, HasLock, DirIsOwn, LinksFit, Own, Live, Entry, Emptied, Holding, Assembled, Pieces, Installations
  <2>7. LinksAreLogged'
    BY <1>0, <1>18 DEF SessionEnds, Go, history, Exit, Unlock, Types, SharedTypes, ProcessTypes, JobsFit, LinksFit, LinksAreLogged, Entry, Installations
  <2> QED BY <2>1, <2>2, <2>3, <2>4, <2>5, <2>6, <2>7 DEF LaunchInv
<1>19. ASSUME NEW p \in Procs, Fail(p) PROVE LaunchInv'
  <2>1. Types'
    <3>1. SharedTypes'
      BY <1>0, <1>19, EntryTyped DEF Fail, Go, history, Step, Exit, Unlock, Happens, Types, SharedTypes, ProcessTypes, Emptied, Assembled
    <3>2. ProcessTypes'
      BY <1>0, <1>19, ExitTyped, StepTyped DEF Fail, Go, history, Step, Happens, Types, SharedTypes, ProcessTypes, Assembled
    <3>3. HistoryTypes'
      BY <1>0, <1>19, LaunchAssumption DEF Fail, Happens, history, Types, HistoryTypes
    <3> QED BY <3>1, <3>2, <3>3 DEF Types
  <2>2. LocksAreHeld'
    BY <1>0, <1>19 DEF Fail, Go, history, Step, Exit, Unlock, Happens, Types, ProcessTypes, LocksAreHeld, JobsFit, Holding, Assembled
  <2>3. JobsFit'
    BY <1>0, <1>19 DEF Fail, Go, history, Step, Exit, Unlock, Happens, Types, ProcessTypes, JobsFit, Holding, Assembled
  <2>4. HasLock'
    BY <1>0, <1>19 DEF Fail, Go, history, Step, Exit, Unlock, Happens, Types, ProcessTypes, JobsFit, HasLock, Holding, Assembled
  <2>5. DirIsOwn'
    <3>1. rundir' = rundir /\ \A q \in Procs :
             \/ pc'[q] = pc[q] /\ job'[q] = job[q]
             \/ pc'[q] \notin {"artifacts", "config"} \union Assembled
             \/ pc'[q] \in Assembled /\ pc[q] \in Assembled /\ job'[q] = job[q]
      BY <1>0, <1>19 DEF Fail, Go, history, Step, Exit, Unlock, Happens, Types, ProcessTypes, Assembled
    <3> QED BY ONLY <1>0, <3>1, DirKept
  <2>6. LinksFit'
    <3>1. \A q \in Procs \ {p} : pc'[q] = pc[q] /\ job'[q] = job[q] /\ (q \in declined' <=> q \in declined)
      BY <1>0, <1>19 DEF Fail, Step, Exit, Go, Types, ProcessTypes
    <3>2. pc'[p] \in {"idle", "ask"}
      BY <1>0, <1>19 DEF Fail, Step, Exit, Go, Types, ProcessTypes
    <3>3. links' = links \/ (pc[p] = "plant" /\ links' = links \union {Entry(p)})
      BY <1>19 DEF Fail
    <3>4. ASSUME NEW q \in Procs \ {p}, pc[q] \in {"stale", "forget"}, pc[p] = "plant" PROVE Entry(q) # Entry(p)
      BY <1>0, <3>4, Alone DEF Entry, Holding, Assembled
    <3> QED BY <1>0, <3>1, <3>2, <3>3, <3>4 DEF LinksFit, Entry
  <2>7. LinksAreLogged'
    BY <1>0, <1>19 DEF Fail, Go, history, Step, Exit, Unlock, Happens, Types, SharedTypes, ProcessTypes, JobsFit, LinksFit, LinksAreLogged, Entry, Installations
  <2> QED BY <2>1, <2>2, <2>3, <2>4, <2>5, <2>6, <2>7 DEF LaunchInv
<1>20. ASSUME NEW p \in Procs, Kill(p) PROVE LaunchInv'
  <2>1. Types'
    <3>1. SharedTypes'
      BY <1>0, <1>20, EntryTyped DEF Kill, Go, history, Exit, Unlock, Happens, Types, SharedTypes, ProcessTypes, Emptied, Assembled
    <3>2. ProcessTypes'
      BY <1>0, <1>20, ExitTyped, StepTyped DEF Kill, Go, history, Happens, Types, SharedTypes, ProcessTypes, Assembled
    <3>3. HistoryTypes'
      BY <1>0, <1>20, LaunchAssumption DEF Kill, Happens, history, Types, HistoryTypes
    <3> QED BY <3>1, <3>2, <3>3 DEF Types
  <2>2. LocksAreHeld'
    BY <1>0, <1>20 DEF Kill, Go, history, Exit, Unlock, Happens, Types, ProcessTypes, LocksAreHeld, JobsFit, Holding, Assembled
  <2>3. JobsFit'
    BY <1>0, <1>20 DEF Kill, Go, history, Exit, Unlock, Happens, Types, ProcessTypes, JobsFit, Holding, Assembled
  <2>4. HasLock'
    BY <1>0, <1>20 DEF Kill, Go, history, Exit, Unlock, Happens, Types, ProcessTypes, JobsFit, HasLock, Holding, Assembled
  <2>5. DirIsOwn'
    <3>1. rundir' = rundir /\ \A q \in Procs :
             \/ pc'[q] = pc[q] /\ job'[q] = job[q]
             \/ pc'[q] \notin {"artifacts", "config"} \union Assembled
             \/ pc'[q] \in Assembled /\ pc[q] \in Assembled /\ job'[q] = job[q]
      BY <1>0, <1>20 DEF Kill, Go, history, Exit, Unlock, Happens, Types, ProcessTypes, Assembled
    <3> QED BY ONLY <1>0, <3>1, DirKept
  <2>6. LinksFit'
    BY <1>0, <1>20 DEF Kill, Go, history, Exit, Unlock, Happens, Types, SharedTypes, ProcessTypes, JobsFit, HasLock, DirIsOwn, LinksFit, Own, Live, Entry, Emptied, Holding, Assembled, Pieces, Installations
  <2>7. LinksAreLogged'
    BY <1>0, <1>20 DEF Kill, Go, history, Exit, Unlock, Happens, Types, SharedTypes, ProcessTypes, JobsFit, LinksFit, LinksAreLogged, Entry, Installations
  <2> QED BY <2>1, <2>2, <2>3, <2>4, <2>5, <2>6, <2>7 DEF LaunchInv
<1>21. ASSUME NEW p \in Procs, NEW j \in Jobs, Start(p, j) PROVE LaunchInv'
  <2>1. Types'
    BY <1>0, <1>21, LaunchAssumption DEF Start, Go, Types, SharedTypes, ProcessTypes, HistoryTypes
  <2>2. LocksAreHeld' /\ JobsFit' /\ HasLock'
    BY <1>0, <1>21 DEF Start, Go, Types, ProcessTypes, LocksAreHeld, JobsFit, HasLock, Holding, Assembled
  <2>3. DirIsOwn'
    <3>1. rundir' = rundir /\ \A q \in Procs :
             \/ pc'[q] = pc[q] /\ job'[q] = job[q]
             \/ pc'[q] \notin {"artifacts", "config"} \union Assembled
      BY <1>0, <1>21 DEF Start, Go, Types, ProcessTypes, Assembled
    <3> QED BY ONLY <1>0, <3>1, DirKept
  <2>4. LinksFit' /\ LinksAreLogged'
    BY <1>0, <1>21 DEF Start, Go, Types, ProcessTypes, LinksFit, LinksAreLogged, Entry
  <2> QED BY <2>1, <2>2, <2>3, <2>4 DEF LaunchInv
<1>22. ASSUME NEW e \in Installations, UserUnlinks(e) PROVE LaunchInv'
  <2>1. Types'
    BY <1>0, <1>22 DEF UserUnlinks, process, history, Types, SharedTypes, ProcessTypes, HistoryTypes
  <2>2. LocksAreHeld' /\ JobsFit' /\ HasLock'
    BY <1>0, <1>22 DEF UserUnlinks, process, history, LocksAreHeld, JobsFit, HasLock
  <2>3. DirIsOwn'
    BY <1>0, <1>22, DirKept DEF UserUnlinks, process
  <2>4. LinksFit'
    <3>1. \A q \in Procs : pc[q] # "idle" => Entry(q) # e
      BY <1>0, <1>22 DEF UserUnlinks, JobsFit, Entry
    <3> QED BY <1>0, <1>22, <3>1 DEF UserUnlinks, process, LinksFit, Entry
  <2>5. LinksAreLogged'
    BY <1>0, <1>22 DEF UserUnlinks, process, history, LinksAreLogged, Entry
  <2> QED BY <2>1, <2>2, <2>3, <2>4, <2>5 DEF LaunchInv
<1>23. ASSUME UNCHANGED vars PROVE LaunchInv'
  <2>1. Types' /\ LocksAreHeld' /\ JobsFit' /\ HasLock'
    BY <1>0, <1>23 DEF vars, process, history, Types, SharedTypes, ProcessTypes, HistoryTypes, LocksAreHeld, JobsFit, HasLock
  <2>2. DirIsOwn'
    BY <1>0, <1>23, DirKept DEF vars, process
  <2>3. LinksFit' /\ LinksAreLogged'
    BY <1>0, <1>23 DEF vars, process, history, LinksFit, LinksAreLogged, Entry
  <2> QED BY <2>1, <2>2, <2>3 DEF LaunchInv
<1> QED
  BY <1>1, <1>2, <1>3, <1>4, <1>5, <1>6, <1>7, <1>8, <1>9, <1>10, <1>11, <1>12, <1>13, <1>14, <1>15, <1>16, <1>17, <1>18, <1>19, <1>20, <1>21, <1>22, <1>23 DEF Next, Work

\* The invariant is one.
THEOREM LaunchInvariant == Spec => []LaunchInv
BY LaunchBegins, LaunchSteps, PTL DEF Spec

\* Every variable has its type, and a lock is held by a launch of its harness.
THEOREM LaunchTyping == Spec => []TypeOK
<1>1. LaunchInv => TypeOK
  BY DEF LaunchInv, Types, TypeOK
<1> QED BY <1>1, LaunchInvariant, PTL

\* What a launch hands to the vendor is what it assembled, with nothing of any
\* other launch's (run.go:271-293, 509-513).
THEOREM EachAssemblesAlone == Spec => []AssembledAlone
<1>1. LaunchInv => AssembledAlone
  BY DEF LaunchInv, DirIsOwn, Assembled, AssembledAlone
<1> QED BY <1>1, LaunchInvariant, PTL

\* A session of a vendor that needs links has live ones (run.go:431-474).
THEOREM LinksAreThere == Spec => []StartsWithLinks
<1>1. LaunchInv => StartsWithLinks
  <2> SUFFICES ASSUME LaunchInv, NEW p \in Procs, pc[p] = "release", job[p].vendor \in Linked, p \notin declined
               PROVE  Live(Entry(p))
    BY DEF StartsWithLinks
  <2>1. Entry(p) \in links /\ Own(p)
    BY DEF LaunchInv, LinksFit, DirIsOwn, Assembled
  <2> QED BY <2>1 DEF Live, Own, Entry, Pieces
<1> QED BY <1>1, LaunchInvariant, PTL

\* Until two processes have saved the log at once, or something failed, it has
\* every link that is in place (vendors.go:204-261, symlink/log.go:34-86).
THEOREM LogIsWhole == Spec => []LinksAreLogged
<1>1. LaunchInv => LinksAreLogged
  BY DEF LaunchInv
<1> QED BY <1>1, LaunchInvariant, PTL

------------------------------------------------------------------------------
(* The session a launch comes to *)

Steps == {"idle", "search", "load", "verify", "choose", "adopt", "start", "resume", "in", "failed"}

SessionTypes ==
  /\ bound \in [Keys -> 0..made] /\ owner \in [Sessions -> (Tools \X Dirs) \union {NoName}]
  /\ stored \subseteq 1..made /\ made \in Nat
  /\ keysOf \in [Sessions -> SUBSET Keys] /\ heard \in [Sessions -> SUBSET ({"typed", "focus"} \X Nat)]
  /\ began \in [Sessions -> Nat] /\ unsaved \subseteq Keys

LauncherTypes ==
  /\ at \in [Launchers -> Steps] /\ asked \in [Launchers -> Requests \union {NoName}]
  /\ chosen \in [Launchers -> 0..made] /\ ordinal \in [Launchers -> Nat] /\ lapsed \subseteq Launchers
  /\ starts \in 0..MaxStarts /\ troubles \in 0..MaxTroubles

\* The launches that may still make a session.
Makers == { p \in Launchers : at[p] \in {"search", "load", "verify", "choose"} \/ (at[p] = "start" /\ chosen[p] = 0) }

\* Each launch makes one session at most: their number is bounded by that of the launches.
EachMakesOne == IsFiniteSet(Makers) /\ made + Cardinality(Makers) <= starts

\* A key is bound to a session that was started for it, or given to it.
BoundToItsOwn == \A k \in Keys : bound[k] # 0 => k \in keysOf[bound[k]]

\* A session that is not begun has heard nothing, and a focus prompt is its first.
FocusIsFirst ==
  /\ \A s \in Sessions, n \in Nat : <<"focus", n>> \in heard[s] => began[s] = n
  /\ \A s \in Sessions : s > made => heard[s] = {}

\* A session that is to be started is one launch's.
StartersDiffer ==
  \A p, r \in Launchers : at[p] = "start" /\ at[r] = "start" /\ chosen[p] # 0 /\ chosen[p] = chosen[r] => p = r

\* What a launch was asked goes with where it is.
Routed(p) ==
  /\ at[p] # "idle" => asked[p] \in Requests
  /\ at[p] = "search" => ~Binding(asked[p]) /\ asked[p].resume = "newest" /\ asked[p].tool.looksUp
  /\ at[p] \in {"load", "verify", "choose"} => Binding(asked[p]) /\ asked[p].resume # "this"
  /\ at[p] = "adopt" => Binding(asked[p]) /\ asked[p].resume = "this"
  /\ at[p] = "start" => asked[p].resume # "this" /\ (Binding(asked[p]) => chosen[p] # 0)

\* What it has come to is the session it was asked for.
ChosenFits(p) ==
  /\ at[p] = "verify" => chosen[p] # 0 /\ Key(p) \in keysOf[chosen[p]]
  /\ at[p] = "start" /\ chosen[p] # 0 =>
       /\ owner[chosen[p]] = Owner(p) /\ Key(p) \in keysOf[chosen[p]]
       /\ chosen[p] \notin stored /\ heard[chosen[p]] = {}
  /\ at[p] = "resume" /\ asked[p].resume # "this" =>
       /\ Binding(asked[p]) => Key(p) \in keysOf[chosen[p]]
       /\ asked[p].tool.looksUp =>
            chosen[p] # 0 /\ owner[chosen[p]] = Owner(p) /\ (chosen[p] \in stored \/ p \in lapsed)
  /\ at[p] = "in" /\ ~asked[p].selector =>
       /\ chosen[p] # 0
       /\ Binding(asked[p]) /\ asked[p].resume # "this" => Key(p) \in keysOf[chosen[p]]
       /\ asked[p].tool.looksUp /\ asked[p].resume # "this" => owner[chosen[p]] = Owner(p)
       /\ asked[p].prompt = "typed" => <<"typed", ordinal[p]>> \in heard[chosen[p]]
  /\ at[p] = "failed" => Refused(p) \/ asked[p].resume = "this" \/ ~asked[p].tool.looksUp \/ p \in lapsed

ResumeInv ==
  /\ SessionTypes /\ LauncherTypes /\ EachMakesOne /\ BoundToItsOwn /\ FocusIsFirst /\ StartersDiffer
  /\ \A p \in Launchers : Routed(p) /\ ChosenFits(p)

\* What was asked of a launch, and what may be recorded for it.
LEMMA AskedFits ==
  ASSUME NEW r \in Requests
  PROVE  /\ r.tool \in Tools /\ r.dir \in Dirs /\ r.selector \in BOOLEAN
         /\ r.resume \in {"no", "newest", "this"} /\ r.prompt \in {"typed", "focus", "none"}
         /\ Binding(r) => r.name \in Names /\ r.tool.looksUp /\ r.tool.binds /\ ~r.selector
         /\ r.selector => r.tool.binds
         /\ r.tool.binds => r.tool.looksUp
BY SessionsAssumption DEF SessionsAssumption, Binding

LEMMA Comes ==
  ASSUME LauncherTypes, NEW p \in Launchers, NEW to \in Steps, NEW s, Come(p, to, s)
  PROVE  /\ at' \in [Launchers -> Steps] /\ at'[p] = to /\ chosen'[p] = s
         /\ \A q \in Launchers : q # p => at'[q] = at[q] /\ chosen'[q] = chosen[q]
         /\ \A m \in Nat : m >= made /\ made \in Nat /\ s \in 0..m => chosen' \in [Launchers -> 0..m]
<1>1. at' = [at EXCEPT ![p] = to] /\ chosen' = [chosen EXCEPT ![p] = s]
  BY DEF Come
<1>2. at \in [Launchers -> Steps] /\ chosen \in [Launchers -> 0..made]
  BY DEF LauncherTypes
<1>3. ASSUME NEW m \in Nat, m >= made, made \in Nat, s \in 0..m
      PROVE  chosen' \in [Launchers -> 0..m]
  <2>1. \A q \in Launchers : chosen[q] \in 0..m
    BY <1>2, <1>3
  <2> QED BY <1>1, <1>2, <1>3, <2>1
<1> QED BY <1>1, <1>2, <1>3

\* The sessions made, and those that may yet be, are no more than the launches.
LEMMA Counted ==
  ASSUME EachMakesOne, NEW p, made \in Nat, starts \in Nat,
         \/ Makers' \subseteq Makers /\ made' = made /\ starts' = starts
         \/ Makers' \subseteq Makers \union {p} /\ made' = made /\ starts' = starts + 1
         \/ p \in Makers /\ Makers' \subseteq Makers \ {p} /\ made' = made + 1 /\ starts' = starts
  PROVE  EachMakesOne'
<1>1. IsFiniteSet(Makers) /\ Cardinality(Makers) \in Nat /\ made + Cardinality(Makers) <= starts
  BY FS_CardinalityType DEF EachMakesOne
<1>2. CASE Makers' \subseteq Makers /\ made' = made /\ starts' = starts
  <2>1. IsFiniteSet(Makers') /\ Cardinality(Makers') <= Cardinality(Makers) /\ Cardinality(Makers') \in Nat
    BY <1>1, <1>2, FS_Subset, FS_CardinalityType
  <2> QED BY <1>1, <1>2, <2>1 DEF EachMakesOne
<1>3. CASE Makers' \subseteq Makers \union {p} /\ made' = made /\ starts' = starts + 1
  <2>1. /\ IsFiniteSet(Makers \union {p}) /\ Cardinality(Makers \union {p}) \in Nat
        /\ Cardinality(Makers \union {p}) <= Cardinality(Makers) + 1
    <3>1. /\ IsFiniteSet(Makers \union {p})
          /\ Cardinality(Makers \union {p}) = IF p \in Makers THEN Cardinality(Makers) ELSE Cardinality(Makers) + 1
      BY <1>1, FS_AddElement
    <3> QED BY <1>1, <3>1
  <2>2. IsFiniteSet(Makers') /\ Cardinality(Makers') <= Cardinality(Makers \union {p}) /\ Cardinality(Makers') \in Nat
    BY <1>3, <2>1, FS_Subset, FS_CardinalityType
  <2> QED BY <1>1, <1>3, <2>1, <2>2 DEF EachMakesOne
<1>4. CASE p \in Makers /\ Makers' \subseteq Makers \ {p} /\ made' = made + 1 /\ starts' = starts
  <2>1. /\ IsFiniteSet(Makers \ {p}) /\ Cardinality(Makers \ {p}) \in Nat
        /\ Cardinality(Makers \ {p}) = Cardinality(Makers) - 1
    BY <1>1, <1>4, FS_RemoveElement, FS_CardinalityType
  <2>2. IsFiniteSet(Makers') /\ Cardinality(Makers') <= Cardinality(Makers \ {p}) /\ Cardinality(Makers') \in Nat
    BY <1>4, <2>1, FS_Subset, FS_CardinalityType
  <2> QED BY <1>1, <1>4, <2>1, <2>2 DEF EachMakesOne
<1> QED BY <1>2, <1>3, <1>4

\* There is room for the session a launch may yet make.
LEMMA RoomForOne ==
  ASSUME SessionTypes, LauncherTypes, EachMakesOne, NEW p \in Makers
  PROVE  made + 1 \in Sessions /\ made + 1 \in Nat
<1>1. IsFiniteSet(Makers) /\ Cardinality(Makers) \in Nat /\ Cardinality(Makers) # 0
  BY FS_CardinalityType, FS_EmptySet DEF EachMakesOne
<1> QED BY <1>1, SessionsAssumption DEF EachMakesOne, SessionTypes, LauncherTypes, Sessions, SessionsAssumption

LEMMA MadeAreSessions ==
  ASSUME SessionTypes, LauncherTypes, EachMakesOne
  PROVE  made \in Nat /\ made <= MaxStarts /\ 1..made \subseteq Sessions
<1>1. IsFiniteSet(Makers) /\ Cardinality(Makers) \in Nat
  BY FS_CardinalityType DEF EachMakesOne
<1> QED BY <1>1, SessionsAssumption DEF EachMakesOne, SessionTypes, LauncherTypes, Sessions, SessionsAssumption

------------------------------------------------------------------------------
(* A step of one launch *)

OnlyStep(p) ==
  \A q \in Launchers \ {p} :
    /\ at'[q] = at[q] /\ asked'[q] = asked[q] /\ chosen'[q] = chosen[q] /\ ordinal'[q] = ordinal[q]
    /\ q \in lapsed => q \in lapsed'

StoreGrows ==
  /\ \A s \in 1..made : owner'[s] = owner[s] /\ keysOf[s] \subseteq keysOf'[s] /\ heard[s] \subseteq heard'[s]
  /\ stored \subseteq stored'

StartersKept(p) ==
  \A q \in Launchers \ {p} :
    at[q] = "start" /\ chosen[q] # 0 => chosen[q] \notin stored' /\ heard'[chosen[q]] = {}

StartsAlone(p) ==
  at'[p] = "start" /\ chosen'[p] # 0 =>
    \A q \in Launchers \ {p} : at[q] = "start" => chosen[q] # chosen'[p]

LEMMA OthersFit ==
  ASSUME ResumeInv, NEW p \in Launchers, NEW q \in Launchers \ {p}, OnlyStep(p), StoreGrows, StartersKept(p)
  PROVE  Routed(q)' /\ ChosenFits(q)'
<1>1. /\ at'[q] = at[q] /\ asked'[q] = asked[q] /\ chosen'[q] = chosen[q] /\ ordinal'[q] = ordinal[q]
      /\ q \in lapsed => q \in lapsed'
      /\ at[q] = "start" /\ chosen[q] # 0 => chosen[q] \notin stored' /\ heard'[chosen[q]] = {}
  BY DEF OnlyStep, StartersKept
<1>2. Routed(q) /\ ChosenFits(q) /\ made \in Nat /\ chosen[q] \in 0..made
  BY DEF ResumeInv, SessionTypes, LauncherTypes
<1>3. chosen[q] # 0 =>
        /\ owner'[chosen[q]] = owner[chosen[q]] /\ keysOf[chosen[q]] \subseteq keysOf'[chosen[q]]
        /\ heard[chosen[q]] \subseteq heard'[chosen[q]] /\ (chosen[q] \in stored => chosen[q] \in stored')
  BY <1>2 DEF StoreGrows
<1>4. Routed(q)'
  BY <1>1, <1>2 DEF Routed
<1>5. (Owner(q) = Owner(q)') /\ (Key(q) = Key(q)') /\ (Refused(q) <=> Refused(q)')
  BY <1>1 DEF Owner, Key, Refused
<1>6. ChosenFits(q)'
  <2>1. (at[q] = "verify" => chosen[q] # 0 /\ Key(q) \in keysOf[chosen[q]])'
    BY <1>1, <1>2, <1>3, <1>5 DEF ChosenFits
  <2>2. (at[q] = "start" /\ chosen[q] # 0 =>
           /\ owner[chosen[q]] = Owner(q) /\ Key(q) \in keysOf[chosen[q]]
           /\ chosen[q] \notin stored /\ heard[chosen[q]] = {})'
    BY <1>1, <1>2, <1>3, <1>5 DEF ChosenFits
  <2>3. (at[q] = "resume" /\ asked[q].resume # "this" =>
           /\ Binding(asked[q]) => Key(q) \in keysOf[chosen[q]]
           /\ asked[q].tool.looksUp =>
                chosen[q] # 0 /\ owner[chosen[q]] = Owner(q) /\ (chosen[q] \in stored \/ q \in lapsed))'
    <3>1. Routed(q) /\ at[q] = "resume" => asked[q] \in Requests
      BY DEF Routed
    <3>2. Binding(asked[q]) /\ at[q] = "resume" => asked[q].tool.looksUp
      BY <1>2, <3>1, AskedFits
    <3> QED BY <1>1, <1>2, <1>3, <1>5, <3>2 DEF ChosenFits
  <2>4. (at[q] = "in" /\ ~asked[q].selector =>
           /\ chosen[q] # 0
           /\ Binding(asked[q]) /\ asked[q].resume # "this" => Key(q) \in keysOf[chosen[q]]
           /\ asked[q].tool.looksUp /\ asked[q].resume # "this" => owner[chosen[q]] = Owner(q)
           /\ asked[q].prompt = "typed" => <<"typed", ordinal[q]>> \in heard[chosen[q]])'
    BY <1>1, <1>2, <1>3, <1>5 DEF ChosenFits
  <2>5. (at[q] = "failed" => Refused(q) \/ asked[q].resume = "this" \/ ~asked[q].tool.looksUp \/ q \in lapsed)'
    BY <1>1, <1>2, <1>5 DEF ChosenFits
  <2> QED BY <2>1, <2>2, <2>3, <2>4, <2>5 DEF ChosenFits
<1> QED BY <1>4, <1>6

\* A step keeps the invariant if it does for the launch whose step it is, and adds to
\* what is stored only.
LEMMA StepOf ==
  ASSUME ResumeInv, NEW p \in Launchers, OnlyStep(p), StoreGrows, StartersKept(p), StartsAlone(p),
         SessionTypes', LauncherTypes', EachMakesOne', BoundToItsOwn', FocusIsFirst', Routed(p)', ChosenFits(p)'
  PROVE  ResumeInv'
<1>1. \A q \in Launchers : (Routed(q) /\ ChosenFits(q))'
  BY OthersFit
<1>2. StartersDiffer'
  <2> SUFFICES ASSUME NEW q \in Launchers, NEW r \in Launchers, at'[q] = "start", at'[r] = "start",
                      chosen'[q] # 0, chosen'[q] = chosen'[r]
               PROVE  q = r
    BY DEF StartersDiffer
  <2>1. CASE q # p /\ r # p
    BY <2>1 DEF OnlyStep, ResumeInv, StartersDiffer
  <2>2. CASE q = p /\ r # p
    BY <2>2 DEF OnlyStep, StartsAlone
  <2>3. CASE r = p /\ q # p
    BY <2>3 DEF OnlyStep, StartsAlone
  <2> QED BY <2>1, <2>2, <2>3
<1> QED BY <1>1, <1>2 DEF ResumeInv

\* One that leaves what is stored alone.
LEMMA QuietStep ==
  ASSUME ResumeInv, NEW p \in Launchers, OnlyStep(p), UNCHANGED Store, LauncherTypes',
         \/ Makers' \subseteq Makers /\ starts' = starts
         \/ Makers' \subseteq Makers \union {p} /\ starts' = starts + 1,
         at'[p] = "start" => chosen'[p] = 0, Routed(p)', ChosenFits(p)'
  PROVE  ResumeInv'
<1>1. UNCHANGED <<bound, owner, stored, made, keysOf, heard, began, unsaved>>
  BY DEF Store
<1>2. SessionTypes' /\ BoundToItsOwn' /\ FocusIsFirst'
  BY <1>1 DEF ResumeInv, SessionTypes, BoundToItsOwn, FocusIsFirst
<1>3. EachMakesOne'
  <2>1. EachMakesOne /\ made \in Nat /\ starts \in Nat
    BY SessionsAssumption DEF ResumeInv, SessionTypes, LauncherTypes, SessionsAssumption
  <2> QED BY <1>1, <2>1, Counted
<1>4. StoreGrows /\ StartsAlone(p)
  BY <1>1 DEF StoreGrows, StartsAlone
<1>5. StartersKept(p)
  BY <1>1 DEF ResumeInv, ChosenFits, StartersKept
<1> QED BY <1>2, <1>3, <1>4, <1>5, StepOf

\* Who may make a session, once p has gone on.
LEMMA MakersAfter ==
  ASSUME NEW p \in Launchers,
         \A q \in Launchers : q # p => at'[q] = at[q] /\ chosen'[q] = chosen[q]
  PROVE  /\ Makers' \subseteq Makers \union {p}
         /\ ~(at'[p] \in {"search", "load", "verify", "choose"} \/ (at'[p] = "start" /\ chosen'[p] = 0))
              => Makers' \subseteq Makers \ {p}
BY DEF Makers

\* The invariant of the launches holds at the start.
THEOREM ResumeBegins == ResumeInit => ResumeInv
<1> SUFFICES ASSUME ResumeInit PROVE ResumeInv
  OBVIOUS
<1>1. MaxStarts \in Nat /\ MaxTroubles \in Nat
  BY SessionsAssumption DEF SessionsAssumption
<1>2. SessionTypes
  BY DEF ResumeInit, SessionTypes
<1>3. LauncherTypes
  BY <1>1 DEF ResumeInit, LauncherTypes, Steps
<1>4. EachMakesOne
  <2>1. Makers = {}
    BY DEF ResumeInit, Makers
  <2> QED BY <2>1, FS_EmptySet DEF EachMakesOne, ResumeInit
<1>5. BoundToItsOwn /\ FocusIsFirst /\ StartersDiffer
  BY DEF ResumeInit, BoundToItsOwn, FocusIsFirst, StartersDiffer
<1>6. \A p \in Launchers : Routed(p) /\ ChosenFits(p)
  BY DEF ResumeInit, Routed, ChosenFits
<1> QED BY <1>2, <1>3, <1>4, <1>5, <1>6 DEF ResumeInv

LEMMA TroubleTyped == ASSUME LauncherTypes, Trouble PROVE troubles' \in 0..MaxTroubles
BY SessionsAssumption DEF LauncherTypes, Trouble, SessionsAssumption

LEMMA LaunchFits ==
  ASSUME ResumeInv, NEW p \in Launchers, NEW r \in Requests, NEW s \in 0..made, Launch(p, r, s)
  PROVE  ResumeInv'
<1>0. SessionTypes /\ LauncherTypes
  BY DEF ResumeInv
<1>1. /\ at[p] = "idle" /\ starts < MaxStarts /\ starts' = starts + 1
      /\ asked' = [asked EXCEPT ![p] = r] /\ ordinal' = [ordinal EXCEPT ![p] = starts']
      /\ Come(p, Route(r), s) /\ UNCHANGED Store /\ lapsed' = lapsed /\ troubles' = troubles
      /\ r.resume # "this" => s = 0
  BY DEF Launch
<1>2. Route(r) \in Steps
  BY DEF Route, Steps
<1>3. /\ at' \in [Launchers -> Steps] /\ at'[p] = Route(r) /\ chosen'[p] = s
      /\ \A q \in Launchers : q # p => at'[q] = at[q] /\ chosen'[q] = chosen[q]
      /\ chosen' \in [Launchers -> 0..made]
  BY <1>0, <1>1, <1>2, Comes DEF SessionTypes
<1>4. /\ asked' \in [Launchers -> Requests \union {NoName}] /\ asked'[p] = r
      /\ \A q \in Launchers : q # p => asked'[q] = asked[q]
  BY <1>0, <1>1 DEF LauncherTypes
<1>5. /\ starts' \in 0..MaxStarts /\ ordinal' \in [Launchers -> Nat]
      /\ \A q \in Launchers : q # p => ordinal'[q] = ordinal[q]
  BY <1>0, <1>1, SessionsAssumption DEF LauncherTypes, SessionsAssumption
<1>6. LauncherTypes'
  BY <1>0, <1>1, <1>3, <1>4, <1>5 DEF LauncherTypes, Store
<1>7. OnlyStep(p)
  BY <1>1, <1>3, <1>4, <1>5 DEF OnlyStep
<1>8. Makers' \subseteq Makers \union {p}
  BY <1>3, MakersAfter
<1>9. Routed(p)' /\ ChosenFits(p)' /\ (at'[p] = "start" => chosen'[p] = 0)
  <2>1. \/ at'[p] = "choose" /\ Binding(r) /\ r.resume = "no"
        \/ at'[p] = "adopt" /\ Binding(r) /\ r.resume = "this"
        \/ at'[p] = "load" /\ Binding(r) /\ r.resume = "newest"
        \/ at'[p] = "start" /\ ~Binding(r) /\ r.resume = "no"
        \/ at'[p] = "search" /\ ~Binding(r) /\ r.resume = "newest" /\ r.tool.looksUp
        \/ /\ at'[p] = "resume" /\ ~Binding(r)
           /\ r.resume = "this" \/ (r.resume = "newest" /\ ~r.tool.looksUp)
    BY <1>3, AskedFits DEF Route
  <2> QED BY <1>1, <1>3, <1>4, <2>1 DEF Routed, ChosenFits
<1> QED BY <1>1, <1>6, <1>7, <1>8, <1>9, QuietStep

\* Steps by which a launch comes to something, without storing anything.
LEMMA LooksOn ==
  ASSUME ResumeInv, NEW p \in Launchers, NEW to \in Steps, NEW s \in 0..made, Come(p, to, s),
         UNCHANGED <<Store, asked, ordinal, lapsed, starts>>, troubles' \in 0..MaxTroubles,
         to \in {"search", "load", "verify", "choose"} \/ (to = "start" /\ s = 0) => p \in Makers,
         to = "start" => s = 0, Routed(p)', ChosenFits(p)'
  PROVE  ResumeInv'
<1>0. SessionTypes /\ LauncherTypes
  BY DEF ResumeInv
<1>1. /\ at' \in [Launchers -> Steps] /\ at'[p] = to /\ chosen'[p] = s
      /\ \A q \in Launchers : q # p => at'[q] = at[q] /\ chosen'[q] = chosen[q]
      /\ chosen' \in [Launchers -> 0..made]
  BY <1>0, Comes DEF SessionTypes
<1>2. LauncherTypes'
  BY <1>0, <1>1 DEF LauncherTypes, Store
<1>3. OnlyStep(p)
  BY <1>1 DEF OnlyStep
<1>4. Makers' \subseteq Makers
  BY <1>1, MakersAfter
<1> QED BY <1>1, <1>2, <1>3, <1>4, QuietStep

LEMMA LookupFits ==
  ASSUME ResumeInv, NEW p \in Launchers,
         ResolveLastSession(p) \/ LookupFails(p) \/ Load(p) \/ Verify(p)
  PROVE  ResumeInv'
<1>0. SessionTypes /\ LauncherTypes /\ Routed(p) /\ ChosenFits(p) /\ BoundToItsOwn
  BY DEF ResumeInv
<1>1. /\ UNCHANGED <<Store, asked, ordinal, lapsed, starts>>
      /\ at[p] \in {"search", "load", "verify"} /\ p \in Makers /\ asked[p] \in Requests
  BY <1>0 DEF ResolveLastSession, LookupFails, Load, Verify, Makers, Routed
<1>2. troubles' \in 0..MaxTroubles
  BY <1>0, TroubleTyped DEF ResolveLastSession, LookupFails, Load, Verify, LauncherTypes
<1>3. UNCHANGED <<Key(p), Owner(p), Refused(p), Binding(asked[p])>>
  BY <1>1 DEF Key, Owner, Refused
<1>4. UNCHANGED <<bound, owner, stored, made, keysOf, heard>> /\ made \in Nat /\ stored \subseteq 1..made
  BY <1>0, <1>1 DEF Store, SessionTypes
<1>5. ASSUME NEW to \in Steps, NEW s \in 0..made, Come(p, to, s), to = "start" => s = 0,
             (at[p] = "search" /\ to = "start")
             \/ (at[p] \in {"load", "verify"} /\ to = "choose")
             \/ (at[p] = "load" /\ to = "verify" /\ s = bound[Key(p)] /\ s # 0)
             \/ (at[p] \in {"search", "verify"} /\ to = "resume" /\ s # 0 /\ s \in stored /\ owner[s] = Owner(p)
                   /\ (at[p] = "verify" => s = chosen[p]))
      PROVE  ResumeInv'
  <2>1. at'[p] = to /\ chosen'[p] = s
    BY <1>0, <1>5, Comes
  <2>2. Routed(p)'
    BY <1>0, <1>1, <1>3, <1>5, <2>1 DEF Routed
  <2>3. ChosenFits(p)'
    <3>1. CASE to \in {"start", "choose"}
      BY <1>5, <2>1, <3>1 DEF ChosenFits
    <3>2. CASE to = "verify"
      <4>1. Binding(asked[p]) /\ Key(p) \in Keys
        BY <1>0, <1>1, <1>5, <3>2, AskedFits DEF Routed, Key, Keys
      <4>2. Key(p) \in keysOf[s]
        BY <1>0, <1>5, <3>2, <4>1 DEF BoundToItsOwn
      <4> QED BY <1>3, <1>4, <1>5, <2>1, <3>2, <4>2 DEF ChosenFits
    <3>3. CASE to = "resume"
      <4>1. Binding(asked[p]) => Key(p) \in keysOf[s]
        BY <1>0, <1>5, <3>3 DEF Routed, ChosenFits
      <4> QED BY <1>1, <1>3, <1>4, <1>5, <2>1, <3>3, <4>1 DEF ChosenFits
    <3> QED BY <1>5, <3>1, <3>2, <3>3
  <2> QED BY <1>1, <1>2, <1>5, <2>2, <2>3, LooksOn
<1>6. {"start", "choose", "verify", "resume"} \subseteq Steps /\ 0 \in 0..made
  BY <1>4 DEF Steps
<1>7. chosen[p] \in 0..made
  BY <1>0 DEF LauncherTypes
<1>8. CASE ResolveLastSession(p)
  <2>1. CASE Come(p, "start", 0)
    BY <1>5, <1>6, <1>8, <2>1 DEF ResolveLastSession
  <2>2. ASSUME NEW s \in Here(p), Come(p, "resume", s) PROVE ResumeInv'
    <3>1. s \in 0..made /\ s # 0 /\ s \in stored /\ owner[s] = Owner(p)
      BY <1>4, <2>2 DEF Here
    <3> QED BY <1>5, <1>6, <1>8, <2>2, <3>1 DEF ResolveLastSession
  <2> QED BY <1>8, <2>1, <2>2 DEF ResolveLastSession
<1>9. CASE LookupFails(p)
  <2>1. CASE at[p] = "search"
    BY <1>5, <1>6, <1>9, <2>1 DEF LookupFails
  <2>2. CASE at[p] # "search"
    BY <1>1, <1>5, <1>6, <1>9, <2>2 DEF LookupFails
  <2> QED BY <2>1, <2>2
<1>10. CASE Load(p)
  <2>1. bound[Key(p)] \in 0..made
    <3>1. Binding(asked[p]) /\ Key(p) \in Keys
      BY <1>0, <1>1, <1>10, AskedFits DEF Load, Routed, Key, Keys
    <3> QED BY <1>0, <3>1 DEF SessionTypes
  <2>2. CASE bound[Key(p)] = 0
    BY <1>5, <1>6, <1>10, <2>2 DEF Load
  <2>3. CASE bound[Key(p)] # 0
    BY <1>5, <1>6, <1>10, <2>1, <2>3 DEF Load
  <2> QED BY <2>2, <2>3
<1>11. CASE Verify(p)
  <2>1. CASE SessionExists(p, chosen[p])
    <3>1. chosen[p] \in stored /\ owner[chosen[p]] = Owner(p) /\ chosen[p] # 0
      BY <1>4, <2>1 DEF SessionExists
    <3> QED BY <1>5, <1>6, <1>7, <1>11, <2>1, <3>1 DEF Verify
  <2>2. CASE ~SessionExists(p, chosen[p])
    BY <1>5, <1>6, <1>11, <2>2 DEF Verify
  <2> QED BY <2>1, <2>2
<1> QED BY <1>8, <1>9, <1>10, <1>11

\* The key of a launch whose name binds, or that takes what was given it by id.
LEMMA BindFits ==
  ASSUME SessionTypes, LauncherTypes, BoundToItsOwn, NEW p \in Launchers, NEW s \in Sessions,
         NEW m \in Nat, s \in 1..m, m >= made, Key(p) \in Keys, Bind(p, s)
  PROVE  /\ keysOf' \in [Sessions -> SUBSET Keys] /\ Key(p) \in keysOf'[s]
         /\ \A t \in Sessions : keysOf[t] \subseteq keysOf'[t]
         /\ bound' \in [Keys -> 0..m] /\ unsaved' \subseteq Keys
         /\ troubles' \in 0..MaxTroubles
         /\ 1..made \subseteq Sessions => BoundToItsOwn'
<1>0. made \in Nat /\ bound \in [Keys -> 0..made] /\ keysOf \in [Sessions -> SUBSET Keys]
  BY DEF SessionTypes
<1>1. /\ keysOf' = [keysOf EXCEPT ![s] = @ \union {Key(p)}]
      /\ \/ bound' = [bound EXCEPT ![Key(p)] = s] /\ unsaved' = unsaved \ {Key(p)} /\ UNCHANGED troubles
         \/ Trouble /\ unsaved' = unsaved \union {Key(p)} /\ UNCHANGED bound
  BY DEF Bind
<1>2. /\ keysOf' \in [Sessions -> SUBSET Keys] /\ Key(p) \in keysOf'[s]
      /\ \A t \in Sessions : keysOf[t] \subseteq keysOf'[t]
  BY <1>0, <1>1
<1>3. \A k \in Keys : bound[k] \in 0..m
  BY <1>0
<1>4. bound' \in [Keys -> 0..m]
  BY <1>0, <1>1, <1>3
<1>5. unsaved' \subseteq Keys
  BY <1>1 DEF SessionTypes
<1>6. troubles' \in 0..MaxTroubles
  BY <1>1, TroubleTyped DEF LauncherTypes
<1>7. ASSUME 1..made \subseteq Sessions PROVE BoundToItsOwn'
  <2> SUFFICES ASSUME NEW k \in Keys, bound'[k] # 0 PROVE k \in keysOf'[bound'[k]]
    BY DEF BoundToItsOwn
  <2>1. CASE bound'[k] = bound[k]
    <3>1. bound[k] \in Sessions /\ k \in keysOf[bound[k]]
      BY <1>0, <1>7, <2>1 DEF BoundToItsOwn
    <3> QED BY <1>2, <2>1, <3>1
  <2>2. CASE bound'[k] # bound[k]
    <3>1. k = Key(p) /\ bound'[k] = s
      BY <1>0, <1>1, <2>2
    <3> QED BY <1>2, <3>1
  <2> QED BY <2>1, <2>2
<1> QED BY <1>2, <1>4, <1>5, <1>6, <1>7

LEMMA ChooseFits ==
  ASSUME ResumeInv, NEW p \in Launchers, Choose(p)
  PROVE  ResumeInv'
<1>0. SessionTypes /\ LauncherTypes /\ EachMakesOne /\ BoundToItsOwn /\ FocusIsFirst /\ Routed(p)
  BY DEF ResumeInv
<1> DEFINE s == made + 1
<1>1. /\ at[p] = "choose" /\ made' = s /\ owner' = [owner EXCEPT ![s] = Owner(p)]
      /\ Bind(p, s) /\ Come(p, "start", s)
      /\ UNCHANGED <<stored, heard, began, asked, ordinal, lapsed, starts>>
  BY DEF Choose
<1>2. p \in Makers /\ Binding(asked[p]) /\ asked[p].resume # "this" /\ asked[p] \in Requests
  BY <1>0, <1>1 DEF Makers, Routed
<1>3. s \in Sessions /\ s \in Nat /\ s # 0 /\ made \in Nat /\ 1..made \subseteq Sessions
  BY <1>0, <1>2, RoomForOne, MadeAreSessions
<1>4. Key(p) \in Keys /\ Owner(p) \in Tools \X Dirs
  BY <1>2, AskedFits DEF Key, Keys, Owner
<1>5. UNCHANGED <<Key(p), Owner(p), Binding(asked[p])>>
  BY <1>1 DEF Key, Owner
<1>6. /\ keysOf' \in [Sessions -> SUBSET Keys] /\ Key(p) \in keysOf'[s]
      /\ \A t \in Sessions : keysOf[t] \subseteq keysOf'[t]
      /\ bound' \in [Keys -> 0..s] /\ unsaved' \subseteq Keys /\ troubles' \in 0..MaxTroubles /\ BoundToItsOwn'
  <2>1. s \in 1..s /\ s >= made
    BY <1>3
  <2> QED BY <1>0, <1>1, <1>3, <1>4, <2>1, BindFits
<1>7. "start" \in Steps /\ s \in 0..s /\ s >= made
  BY <1>3 DEF Steps
<1>8. /\ at' \in [Launchers -> Steps] /\ at'[p] = "start" /\ chosen'[p] = s
      /\ \A q \in Launchers : q # p => at'[q] = at[q] /\ chosen'[q] = chosen[q]
      /\ chosen' \in [Launchers -> 0..s]
  BY <1>0, <1>1, <1>3, <1>7, Comes
<1>9. /\ owner' \in [Sessions -> (Tools \X Dirs) \union {NoName}] /\ owner'[s] = Owner(p)
      /\ \A t \in Sessions : t # s => owner'[t] = owner[t]
  BY <1>0, <1>1, <1>3, <1>4 DEF SessionTypes
<1> HIDE DEF s
<1>10. s = made + 1
  BY DEF s
<1>11. SessionTypes'
  <2>1. stored \subseteq 1..s
    BY <1>0, <1>3, <1>10 DEF SessionTypes
  <2> QED BY <1>0, <1>1, <1>3, <1>6, <1>9, <2>1 DEF SessionTypes
<1>12. LauncherTypes'
  BY <1>0, <1>1, <1>6, <1>8 DEF LauncherTypes
<1>13. OnlyStep(p)
  BY <1>1, <1>8 DEF OnlyStep
<1>14. StoreGrows
  <2>1. \A t \in 1..made : t \in Sessions /\ t # s
    BY <1>3, <1>10
  <2> QED BY <1>1, <1>6, <1>9, <2>1 DEF StoreGrows
<1>15. StartersKept(p)
  BY <1>1 DEF ResumeInv, ChosenFits, StartersKept
<1>16. StartsAlone(p)
  <2>1. \A q \in Launchers : chosen[q] # s
    BY <1>0, <1>3, <1>10 DEF LauncherTypes
  <2> QED BY <1>8, <2>1 DEF StartsAlone
<1>17. EachMakesOne'
  <2>1. Makers' \subseteq Makers \ {p}
    BY <1>3, <1>8, MakersAfter
  <2>2. starts \in Nat
    BY <1>0, SessionsAssumption DEF LauncherTypes, SessionsAssumption
  <2> QED BY <1>0, <1>1, <1>2, <1>3, <1>10, <2>1, <2>2, Counted
<1>18. FocusIsFirst'
  BY <1>0, <1>1, <1>3, <1>10 DEF FocusIsFirst, Sessions
<1>19. Routed(p)'
  BY <1>1, <1>2, <1>3, <1>8 DEF Routed
<1>20. ChosenFits(p)'
  <2>1. s \notin stored /\ heard[s] = {}
    BY <1>0, <1>3, <1>10 DEF SessionTypes, FocusIsFirst
  <2> QED BY <1>1, <1>5, <1>6, <1>8, <1>9, <2>1 DEF ChosenFits
<1> QED BY <1>6, <1>11, <1>12, <1>13, <1>14, <1>15, <1>16, <1>17, <1>18, <1>19, <1>20, StepOf

LEMMA AdoptFits ==
  ASSUME ResumeInv, NEW p \in Launchers, Adopt(p)
  PROVE  ResumeInv'
<1>0. SessionTypes /\ LauncherTypes /\ EachMakesOne /\ BoundToItsOwn /\ FocusIsFirst /\ Routed(p)
  BY DEF ResumeInv
<1>1. /\ at[p] = "adopt" /\ Come(p, "resume", chosen[p])
      /\ IF SessionExists(p, chosen[p]) THEN Bind(p, chosen[p]) ELSE UNCHANGED <<bound, keysOf, unsaved, troubles>>
      /\ UNCHANGED <<owner, stored, made, heard, began, asked, ordinal, lapsed, starts>>
  BY DEF Adopt
<1>2. Binding(asked[p]) /\ asked[p].resume = "this" /\ asked[p] \in Requests
  BY <1>0, <1>1 DEF Routed
<1>3. made \in Nat /\ 1..made \subseteq Sessions /\ made >= made /\ starts \in Nat
  BY <1>0, MadeAreSessions, SessionsAssumption DEF LauncherTypes, SessionsAssumption
<1>4. Key(p) \in Keys
  BY <1>2, AskedFits DEF Key, Keys
<1>5. /\ keysOf' \in [Sessions -> SUBSET Keys] /\ \A t \in Sessions : keysOf[t] \subseteq keysOf'[t]
      /\ bound' \in [Keys -> 0..made] /\ unsaved' \subseteq Keys /\ troubles' \in 0..MaxTroubles /\ BoundToItsOwn'
  <2>1. CASE SessionExists(p, chosen[p])
    <3>1. chosen[p] \in 1..made /\ chosen[p] \in Sessions
      BY <1>0, <1>3, <2>1 DEF SessionExists, SessionTypes
    <3> QED BY <1>0, <1>1, <1>3, <1>4, <2>1, <3>1, BindFits
  <2>2. CASE ~SessionExists(p, chosen[p])
    BY <1>0, <1>1, <2>2 DEF SessionTypes, LauncherTypes, BoundToItsOwn
  <2> QED BY <2>1, <2>2
<1>6. "resume" \in Steps /\ chosen[p] \in 0..made
  BY <1>0 DEF Steps, LauncherTypes
<1>7. /\ at' \in [Launchers -> Steps] /\ at'[p] = "resume"
      /\ \A q \in Launchers : q # p => at'[q] = at[q] /\ chosen'[q] = chosen[q]
      /\ chosen' \in [Launchers -> 0..made]
  BY <1>0, <1>1, <1>3, <1>6, Comes
<1>8. SessionTypes' /\ LauncherTypes' /\ FocusIsFirst'
  BY <1>0, <1>1, <1>5, <1>7 DEF SessionTypes, LauncherTypes, FocusIsFirst
<1>9. OnlyStep(p) /\ StoreGrows /\ StartsAlone(p)
  BY <1>1, <1>3, <1>5, <1>7 DEF OnlyStep, StoreGrows, StartsAlone
<1>10. StartersKept(p)
  BY <1>1 DEF ResumeInv, ChosenFits, StartersKept
<1>11. EachMakesOne'
  <2>1. Makers' \subseteq Makers
    BY <1>7, MakersAfter
  <2> QED BY <1>0, <1>1, <1>3, <2>1, Counted
<1>12. Routed(p)' /\ ChosenFits(p)'
  BY <1>1, <1>2, <1>7 DEF Routed, ChosenFits
<1> QED BY <1>5, <1>8, <1>9, <1>10, <1>11, <1>12, StepOf

\* A session is sent no prompt but one of its launch.
LEMMA SaidFits ==
  ASSUME SessionTypes, LauncherTypes, NEW p \in Launchers, NEW s \in Sessions, NEW prompts \in SUBSET {"typed", "focus"},
         Said(p, s, prompts)
  PROVE  /\ heard' \in [Sessions -> SUBSET ({"typed", "focus"} \X Nat)]
         /\ \A t \in Sessions : heard[t] \subseteq heard'[t] /\ (t # s => heard'[t] = heard[t])
         /\ heard'[s] \subseteq heard[s] \union (prompts \X {ordinal[p]})
         /\ asked[p].prompt \in prompts => <<asked[p].prompt, ordinal[p]>> \in heard'[s]
<1> DEFINE new == IF asked[p].prompt \in prompts THEN {<<asked[p].prompt, ordinal[p]>>} ELSE {}
<1>1. heard' = [heard EXCEPT ![s] = @ \union new]
  BY DEF Said
<1>2. ordinal[p] \in Nat /\ heard \in [Sessions -> SUBSET ({"typed", "focus"} \X Nat)]
  BY DEF LauncherTypes, SessionTypes
<1>3. /\ new \subseteq {"typed", "focus"} \X Nat /\ new \subseteq prompts \X {ordinal[p]}
      /\ asked[p].prompt \in prompts => <<asked[p].prompt, ordinal[p]>> \in new
  <2>1. CASE asked[p].prompt \in prompts
    <3>1. new = {<<asked[p].prompt, ordinal[p]>>} /\ asked[p].prompt \in {"typed", "focus"}
      BY <2>1
    <3> QED BY <1>2, <2>1, <3>1
  <2>2. CASE asked[p].prompt \notin prompts
    BY <2>2
  <2> QED BY <2>1, <2>2
<1> HIDE DEF new
<1>4. heard'[s] = heard[s] \union new /\ \A t \in Sessions : t # s => heard'[t] = heard[t]
  BY <1>1, <1>2
<1> QED BY <1>1, <1>2, <1>3, <1>4

LEMMA StartFits ==
  ASSUME ResumeInv, NEW p \in Launchers, StartSession(p)
  PROVE  ResumeInv'
<1>0. SessionTypes /\ LauncherTypes /\ EachMakesOne /\ BoundToItsOwn /\ FocusIsFirst /\ Routed(p) /\ ChosenFits(p)
  BY DEF ResumeInv
<1> DEFINE s == IF chosen[p] = 0 THEN made + 1 ELSE chosen[p]
           m == IF s > made THEN s ELSE made
<1>1. /\ at[p] = "start" /\ ~asked[p].selector /\ Come(p, "in", s)
      /\ made' = m /\ owner' = [owner EXCEPT ![s] = Owner(p)] /\ began' = [began EXCEPT ![s] = ordinal[p]]
      /\ Said(p, s, {"typed", "focus"})
      /\ stored \subseteq stored' /\ stored' \subseteq stored \union {s}
      /\ UNCHANGED <<bound, keysOf, unsaved, asked, ordinal, lapsed, starts, troubles>>
  BY DEF StartSession
<1>2. asked[p] \in Requests /\ asked[p].resume # "this" /\ (Binding(asked[p]) => chosen[p] # 0)
  BY <1>0, <1>1 DEF Routed
<1>3. /\ made \in Nat /\ 1..made \subseteq Sessions /\ starts \in Nat /\ chosen[p] \in 0..made
      /\ bound \in [Keys -> 0..made]
  BY <1>0, MadeAreSessions, SessionsAssumption DEF LauncherTypes, SessionTypes, SessionsAssumption
<1>4. \/ chosen[p] = 0 /\ p \in Makers /\ s = made + 1 /\ m = made + 1
      \/ /\ chosen[p] # 0 /\ s = chosen[p] /\ m = made /\ s \in 1..made
         /\ owner[s] = Owner(p) /\ Key(p) \in keysOf[s]
  BY <1>0, <1>1, <1>3 DEF Makers, ChosenFits
<1>5. s \in Sessions /\ heard[s] = {} /\ s \notin stored /\ m \in Nat /\ m >= made /\ s \in 1..m /\ s # 0
  <2>1. CASE chosen[p] = 0
    <3>1. made + 1 \in Sessions /\ made + 1 > made /\ made + 1 \notin stored
      BY <1>0, <1>3, <1>4, <2>1, RoomForOne DEF SessionTypes
    <3> QED BY <1>0, <1>3, <1>4, <2>1, <3>1 DEF FocusIsFirst
  <2>2. CASE chosen[p] # 0
    BY <1>0, <1>1, <1>3, <1>4, <2>2 DEF ChosenFits
  <2> QED BY <2>1, <2>2
<1> HIDE DEF s, m
<1>6. "in" \in Steps /\ s \in 0..m /\ {"typed", "focus"} \in SUBSET {"typed", "focus"} /\ Owner(p) \in Tools \X Dirs
  BY <1>2, <1>5, AskedFits DEF Steps, Owner
<1>7. /\ at' \in [Launchers -> Steps] /\ at'[p] = "in" /\ chosen'[p] = s
      /\ \A q \in Launchers : q # p => at'[q] = at[q] /\ chosen'[q] = chosen[q]
      /\ chosen' \in [Launchers -> 0..m]
  BY <1>0, <1>1, <1>3, <1>5, <1>6, Comes
<1>8. /\ heard' \in [Sessions -> SUBSET ({"typed", "focus"} \X Nat)]
      /\ \A t \in Sessions : heard[t] \subseteq heard'[t] /\ (t # s => heard'[t] = heard[t])
      /\ heard'[s] \subseteq heard[s] \union ({"typed", "focus"} \X {ordinal[p]})
      /\ asked[p].prompt \in {"typed", "focus"} => <<asked[p].prompt, ordinal[p]>> \in heard'[s]
  BY <1>0, <1>1, <1>5, <1>6, SaidFits
<1>9. /\ owner' \in [Sessions -> (Tools \X Dirs) \union {NoName}] /\ owner'[s] = Owner(p)
      /\ \A t \in Sessions : t # s => owner'[t] = owner[t]
  BY <1>0, <1>1, <1>5, <1>6 DEF SessionTypes
<1>10. /\ began' \in [Sessions -> Nat] /\ began'[s] = ordinal[p]
       /\ \A t \in Sessions : t # s => began'[t] = began[t]
  BY <1>0, <1>1, <1>5 DEF SessionTypes, LauncherTypes
<1>11. SessionTypes'
  <2>1. stored' \subseteq 1..m
    <3>1. stored \subseteq 1..made /\ 1..made \subseteq 1..m
      BY <1>0, <1>3, <1>5 DEF SessionTypes
    <3> QED BY <1>1, <1>5, <3>1
  <2>2. bound' \in [Keys -> 0..m]
    <3>1. \A k \in Keys : bound[k] \in 0..m
      BY <1>3, <1>5
    <3> QED BY <1>1, <1>3, <3>1
  <2> QED BY <1>0, <1>1, <1>5, <1>8, <1>9, <1>10, <2>1, <2>2 DEF SessionTypes
<1>12. LauncherTypes'
  BY <1>0, <1>1, <1>7 DEF LauncherTypes
<1>13. OnlyStep(p)
  BY <1>1, <1>7 DEF OnlyStep
<1>14. StoreGrows
  <2>1. \A t \in 1..made : t \in Sessions /\ (t # s \/ owner[t] = Owner(p))
    BY <1>3, <1>4
  <2> QED BY <1>1, <1>8, <1>9, <2>1 DEF StoreGrows
<1>15. StartersKept(p)
  <2> SUFFICES ASSUME NEW q \in Launchers \ {p}, at[q] = "start", chosen[q] # 0
               PROVE  chosen[q] \notin stored' /\ heard'[chosen[q]] = {}
    BY DEF StartersKept
  <2>1. chosen[q] \notin stored /\ heard[chosen[q]] = {} /\ chosen[q] \in 1..made /\ chosen[q] \in Sessions
    <3>1. ChosenFits(q) /\ chosen[q] \in 0..made
      BY <1>0 DEF ResumeInv, LauncherTypes
    <3>2. chosen[q] \in 1..made
      BY <1>3, <3>1
    <3> QED BY <1>3, <3>1, <3>2 DEF ChosenFits
  <2>2. chosen[q] # s
    <3>1. CASE chosen[p] = 0
      BY <1>3, <1>4, <2>1, <3>1
    <3>2. CASE chosen[p] # 0
      BY <1>1, <1>4, <3>2 DEF ResumeInv, StartersDiffer
    <3> QED BY <3>1, <3>2
  <2> QED BY <1>1, <1>8, <2>1, <2>2
<1>16. StartsAlone(p)
  BY <1>7 DEF StartsAlone
<1>17. EachMakesOne'
  <2>1. Makers' \subseteq Makers \ {p}
    BY <1>7, MakersAfter
  <2> QED BY <1>0, <1>1, <1>3, <1>4, <2>1, Counted
<1>18. FocusIsFirst'
  <2>1. ASSUME NEW t \in Sessions, NEW n \in Nat, <<"focus", n>> \in heard'[t]
        PROVE  began'[t] = n
    <3>1. CASE t = s
      <4>1. <<"focus", n>> \in {"typed", "focus"} \X {ordinal[p]}
        BY <1>5, <1>8, <2>1, <3>1
      <4> QED BY <1>10, <3>1, <4>1
    <3>2. CASE t # s
      BY <1>0, <1>8, <1>10, <2>1, <3>2 DEF FocusIsFirst
    <3> QED BY <3>1, <3>2
  <2>2. ASSUME NEW t \in Sessions, t > m PROVE heard'[t] = {}
    <3>1. t # s /\ t > made
      BY <1>3, <1>5, <2>2 DEF Sessions
    <3> QED BY <1>0, <1>8, <3>1 DEF FocusIsFirst
  <2> QED BY <1>1, <2>1, <2>2 DEF FocusIsFirst
<1>19. BoundToItsOwn' /\ Routed(p)'
  BY <1>0, <1>1, <1>2, <1>7 DEF BoundToItsOwn, Routed
<1>20. ChosenFits(p)'
  <2>1. UNCHANGED <<Key(p), Owner(p), Binding(asked[p])>>
    BY <1>1 DEF Key, Owner
  <2>2. Binding(asked[p]) => Key(p) \in keysOf[s]
    BY <1>2, <1>4
  <2> QED BY <1>1, <1>2, <1>5, <1>7, <1>8, <1>9, <2>1, <2>2 DEF ChosenFits
<1> QED BY <1>11, <1>12, <1>13, <1>14, <1>15, <1>16, <1>17, <1>18, <1>19, <1>20, StepOf

LEMMA ResumeFits ==
  ASSUME ResumeInv, NEW p \in Launchers, ResumeSession(p)
  PROVE  ResumeInv'
<1>0. SessionTypes /\ LauncherTypes /\ EachMakesOne /\ BoundToItsOwn /\ FocusIsFirst /\ Routed(p) /\ ChosenFits(p)
  BY DEF ResumeInv
<1>1. /\ at[p] = "resume" /\ ~asked[p].selector
      /\ UNCHANGED <<bound, owner, stored, made, keysOf, began, unsaved, asked, ordinal, lapsed, starts, troubles>>
  BY DEF ResumeSession
<1>2. /\ asked[p] \in Requests /\ made \in Nat /\ 1..made \subseteq Sessions /\ chosen[p] \in 0..made
      /\ stored \subseteq 1..made
  BY <1>0, <1>1, MadeAreSessions DEF Routed, LauncherTypes, SessionTypes
<1>3. Binding(asked[p]) => asked[p].tool.looksUp
  BY <1>2, AskedFits
<1>4. CASE (Refused(p) \/ Resumable(p) = {}) /\ Come(p, "failed", chosen[p]) /\ UNCHANGED heard
  <2>1. "failed" \in Steps /\ UNCHANGED <<Store, asked, ordinal, lapsed, starts>> /\ troubles' \in 0..MaxTroubles
    BY <1>0, <1>1, <1>4 DEF Steps, Store, LauncherTypes
  <2>2. at'[p] = "failed"
    BY <1>0, <1>2, <1>4, <2>1, Comes
  <2>3. Refused(p) \/ asked[p].resume = "this" \/ ~asked[p].tool.looksUp \/ p \in lapsed
    <3> SUFFICES ASSUME ~Refused(p), asked[p].resume # "this", asked[p].tool.looksUp, p \notin lapsed
                 PROVE  FALSE
      OBVIOUS
    <3>1. chosen[p] # 0 /\ owner[chosen[p]] = Owner(p) /\ chosen[p] \in stored
      BY <1>0, <1>1 DEF ChosenFits
    <3>2. chosen[p] \in Resumable(p)
      BY <3>1 DEF Resumable, Owner
    <3> QED BY <1>4, <3>2
  <2>4. Routed(p)' /\ ChosenFits(p)'
    BY <1>1, <1>2, <2>2, <2>3 DEF Routed, ChosenFits, Refused
  <2> QED BY <1>2, <1>4, <2>1, <2>4, LooksOn
<1>5. ASSUME NEW s \in Resumable(p), Come(p, "in", s), Said(p, s, {"typed"})
      PROVE  ResumeInv'
  <2>1. s \in stored /\ s \in 1..made /\ s \in 0..made /\ s # 0 /\ s \in Sessions /\ chosen[p] \in {0, s}
    <3>1. s \in stored /\ chosen[p] \in {0, s}
      BY DEF Resumable
    <3>2. s \in 1..made
      BY <1>2, <3>1
    <3> QED BY <1>2, <3>1, <3>2
  <2>2. "in" \in Steps /\ {"typed"} \in SUBSET {"typed", "focus"}
    BY DEF Steps
  <2>3. /\ at' \in [Launchers -> Steps] /\ at'[p] = "in" /\ chosen'[p] = s
        /\ \A q \in Launchers : q # p => at'[q] = at[q] /\ chosen'[q] = chosen[q]
        /\ chosen' \in [Launchers -> 0..made]
    BY <1>0, <1>2, <1>5, <2>1, <2>2, Comes
  <2>4. /\ heard' \in [Sessions -> SUBSET ({"typed", "focus"} \X Nat)]
        /\ \A t \in Sessions : heard[t] \subseteq heard'[t] /\ (t # s => heard'[t] = heard[t])
        /\ heard'[s] \subseteq heard[s] \union ({"typed"} \X {ordinal[p]})
        /\ asked[p].prompt \in {"typed"} => <<asked[p].prompt, ordinal[p]>> \in heard'[s]
    BY <1>0, <1>5, <2>1, <2>2, SaidFits
  <2>5. SessionTypes' /\ LauncherTypes' /\ BoundToItsOwn'
    BY <1>0, <1>1, <2>3, <2>4 DEF SessionTypes, LauncherTypes, BoundToItsOwn
  <2>6. OnlyStep(p) /\ StoreGrows /\ StartsAlone(p)
    BY <1>1, <1>2, <2>3, <2>4 DEF OnlyStep, StoreGrows, StartsAlone
  <2>7. StartersKept(p)
    <3> SUFFICES ASSUME NEW q \in Launchers \ {p}, at[q] = "start", chosen[q] # 0
                 PROVE  chosen[q] \notin stored' /\ heard'[chosen[q]] = {}
      BY DEF StartersKept
    <3>1. chosen[q] \notin stored /\ heard[chosen[q]] = {} /\ chosen[q] \in Sessions
      <4>1. ChosenFits(q) /\ chosen[q] \in 0..made
        BY <1>0 DEF ResumeInv, LauncherTypes
      <4>2. chosen[q] \in 1..made
        BY <1>2, <4>1
      <4> QED BY <1>2, <4>1, <4>2 DEF ChosenFits
    <3> QED BY <1>1, <2>1, <2>4, <3>1
  <2>8. EachMakesOne'
    <3>1. Makers' \subseteq Makers
      BY <2>3, MakersAfter
    <3>2. starts \in Nat
      BY <1>0, SessionsAssumption DEF LauncherTypes, SessionsAssumption
    <3> QED BY <1>0, <1>1, <1>2, <3>1, <3>2, Counted
  <2>9. FocusIsFirst'
    <3>1. ASSUME NEW t \in Sessions, NEW n \in Nat, <<"focus", n>> \in heard'[t]
          PROVE  <<"focus", n>> \in heard[t]
      <4>1. <<"focus", n>> \notin {"typed"} \X {ordinal[p]}
        OBVIOUS
      <4> QED BY <2>4, <3>1, <4>1
    <3>2. ASSUME NEW t \in Sessions, t > made PROVE t # s
      BY <1>2, <2>1, <3>2 DEF Sessions
    <3> QED BY <1>0, <1>1, <2>4, <3>1, <3>2 DEF FocusIsFirst
  <2>10. Routed(p)'
    BY <1>1, <1>2, <2>3 DEF Routed
  <2>11. ChosenFits(p)'
    <3>1. UNCHANGED <<Key(p), Owner(p), Binding(asked[p])>>
      BY <1>1 DEF Key, Owner
    <3>2. asked[p].resume # "this" /\ asked[p].tool.looksUp =>
            s = chosen[p] /\ owner[s] = Owner(p) /\ (Binding(asked[p]) => Key(p) \in keysOf[s])
      BY <1>0, <1>1, <2>1 DEF ChosenFits
    <3> QED BY <1>1, <1>3, <2>1, <2>3, <2>4, <3>1, <3>2 DEF ChosenFits
  <2> QED BY <2>5, <2>6, <2>7, <2>8, <2>9, <2>10, <2>11, StepOf
<1> QED BY <1>4, <1>5 DEF ResumeSession

LEMMA ToolFits ==
  ASSUME ResumeInv, NEW p \in Launchers, ToolSelects(p)
  PROVE  ResumeInv'
<1>0. SessionTypes /\ LauncherTypes /\ Routed(p)
  BY DEF ResumeInv
<1>1. /\ at[p] \in {"start", "resume"} /\ asked[p].selector /\ Come(p, "in", 0)
      /\ UNCHANGED <<Store, asked, ordinal, lapsed, starts, troubles>>
  BY DEF ToolSelects
<1>2. "in" \in Steps /\ 0 \in 0..made /\ troubles' \in 0..MaxTroubles /\ asked[p] \in Requests
  BY <1>0, <1>1 DEF Steps, SessionTypes, LauncherTypes, Routed
<1>3. at'[p] = "in"
  BY <1>0, <1>1, <1>2, Comes
<1>4. Routed(p)' /\ ChosenFits(p)'
  BY <1>1, <1>2, <1>3 DEF Routed, ChosenFits
<1> QED BY <1>1, <1>2, <1>4, LooksOn

LEMMA LeaveFits ==
  ASSUME ResumeInv, NEW p \in Launchers, SessionOver(p) \/ KillLauncher(p)
  PROVE  ResumeInv'
<1>0. SessionTypes /\ LauncherTypes
  BY DEF ResumeInv
<1>1. /\ Come(p, "idle", 0) /\ asked' = [asked EXCEPT ![p] = NoName] /\ ordinal' = [ordinal EXCEPT ![p] = 0]
      /\ lapsed' = lapsed \ {p} /\ UNCHANGED <<Store, starts>>
  BY DEF SessionOver, KillLauncher, Leave
<1>2. troubles' \in 0..MaxTroubles
  BY <1>0, TroubleTyped DEF SessionOver, KillLauncher, LauncherTypes
<1>3. "idle" \in Steps /\ 0 \in 0..made /\ made \in Nat
  BY <1>0 DEF Steps, SessionTypes
<1>4. /\ at' \in [Launchers -> Steps] /\ at'[p] = "idle" /\ chosen'[p] = 0
      /\ \A q \in Launchers : q # p => at'[q] = at[q] /\ chosen'[q] = chosen[q]
      /\ chosen' \in [Launchers -> 0..made]
  BY <1>0, <1>1, <1>3, Comes
<1>5. LauncherTypes'
  BY <1>0, <1>1, <1>2, <1>4 DEF LauncherTypes, Store
<1>6. OnlyStep(p)
  BY <1>0, <1>1, <1>4 DEF OnlyStep, LauncherTypes
<1>7. Makers' \subseteq Makers
  BY <1>4, MakersAfter
<1>8. Routed(p)' /\ ChosenFits(p)'
  BY <1>4 DEF Routed, ChosenFits
<1> QED BY <1>1, <1>4, <1>5, <1>6, <1>7, <1>8, QuietStep

LEMMA DropFits ==
  ASSUME ResumeInv, NEW s \in Sessions, DropHistory(s)
  PROVE  ResumeInv'
<1>0. SessionTypes /\ LauncherTypes /\ EachMakesOne /\ BoundToItsOwn /\ FocusIsFirst /\ StartersDiffer
  BY DEF ResumeInv
<1>1. /\ stored' = stored \ {s}
      /\ lapsed' = lapsed \union { p \in Launchers : at[p] \in {"adopt", "resume"} /\ chosen[p] \in {0, s} }
      /\ UNCHANGED <<at, asked, chosen, bound, owner, made, keysOf, heard, began, ordinal, unsaved, starts, troubles>>
  BY DEF DropHistory
<1>2. SessionTypes' /\ LauncherTypes' /\ BoundToItsOwn' /\ FocusIsFirst' /\ StartersDiffer'
  BY <1>0, <1>1 DEF SessionTypes, LauncherTypes, BoundToItsOwn, FocusIsFirst, StartersDiffer
<1>3. EachMakesOne'
  BY <1>0, <1>1 DEF EachMakesOne, Makers
<1>4. ASSUME NEW p \in Launchers PROVE Routed(p)' /\ ChosenFits(p)'
  <2>1. Routed(p) /\ ChosenFits(p)
    BY DEF ResumeInv
  <2>2. UNCHANGED <<Key(p), Owner(p), Refused(p), Binding(asked[p])>>
    BY <1>1 DEF Key, Owner, Refused
  <2>3. at[p] = "resume" /\ chosen[p] \in stored => chosen[p] \in stored' \/ p \in lapsed'
    BY <1>1
  <2> QED BY <1>1, <2>1, <2>2, <2>3 DEF Routed, ChosenFits
<1> QED BY <1>2, <1>3, <1>4 DEF ResumeInv

\* Every step keeps the invariant.
THEOREM ResumeSteps == ResumeInv /\ [ResumeNext]_resumeVars => ResumeInv'
<1> SUFFICES ASSUME ResumeInv, [ResumeNext]_resumeVars PROVE ResumeInv'
  OBVIOUS
<1>1. ASSUME NEW p \in Launchers, ResumeStep(p) PROVE ResumeInv'
  <2>1. CASE \E r \in Requests, s \in 0..made : Launch(p, r, s)
    BY <2>1, LaunchFits
  <2>2. CASE ResolveLastSession(p) \/ LookupFails(p) \/ Load(p) \/ Verify(p)
    BY <2>2, LookupFits
  <2>3. CASE Choose(p)
    BY <2>3, ChooseFits
  <2>4. CASE Adopt(p)
    BY <2>4, AdoptFits
  <2>5. CASE StartSession(p)
    BY <2>5, StartFits
  <2>6. CASE ResumeSession(p)
    BY <2>6, ResumeFits
  <2>7. CASE ToolSelects(p)
    BY <2>7, ToolFits
  <2>8. CASE SessionOver(p) \/ KillLauncher(p)
    BY <2>8, LeaveFits
  <2> QED BY <1>1, <2>1, <2>2, <2>3, <2>4, <2>5, <2>6, <2>7, <2>8 DEF ResumeStep
<1>2. CASE UNCHANGED resumeVars
  <2>1. SessionTypes' /\ LauncherTypes' /\ BoundToItsOwn' /\ FocusIsFirst' /\ StartersDiffer'
    BY <1>2 DEF resumeVars, ResumeInv, SessionTypes, LauncherTypes, BoundToItsOwn, FocusIsFirst, StartersDiffer
  <2>2. EachMakesOne'
    BY <1>2 DEF resumeVars, ResumeInv, EachMakesOne, Makers
  <2>3. \A p \in Launchers : Routed(p)' /\ ChosenFits(p)'
    BY <1>2 DEF resumeVars, ResumeInv, Routed, ChosenFits, Key, Owner, Refused
  <2> QED BY <2>1, <2>2, <2>3 DEF ResumeInv
<1> QED BY <1>1, <1>2, DropFits DEF ResumeNext

\* The invariant of the launches holds throughout.
THEOREM ResumeInvariant == ResumeSpec => []ResumeInv
BY ResumeBegins, ResumeSteps, PTL DEF ResumeSpec

\* A launch with a session name is in a session that was started for the name or given to
\* it, one without a name in its own directory's; a focus prompt begins its session; and a
\* launch comes to nothing only for reasons of its own: for any number of launches at
\* once, tools and histories (run.go:575-587, 669-765).
THEOREM LaunchesComeToTheirs == ResumeSpec => []LaunchesArrive
<1>1. ResumeInv => LaunchesArrive
  <2> SUFFICES ASSUME ResumeInv PROVE LaunchesArrive
    OBVIOUS
  <2>1. ResumesItsOwn
    <3>1. \A p \in Launchers :
       at[p] = "in" /\ ~asked[p].selector =>
         /\ Binding(asked[p]) /\ asked[p].resume # "this" => Key(p) \in keysOf[chosen[p]]
         /\ asked[p].tool.looksUp /\ asked[p].resume # "this" => owner[chosen[p]] = Owner(p)
         /\ asked[p].prompt = "typed" => <<"typed", ordinal[p]>> \in heard[chosen[p]]
      BY DEF ResumeInv, ChosenFits
    <3>2. \A s \in Sessions, n \in 1..MaxStarts : n \in Nat /\ (<<"focus", n>> \in heard[s] => began[s] = n)
      <4>1. \A n \in 1..MaxStarts : n \in Nat
        BY SessionsAssumption DEF SessionsAssumption
      <4> QED BY <4>1 DEF ResumeInv, FocusIsFirst
    <3> QED BY <3>1, <3>2 DEF ResumesItsOwn
  <2>2. ResumeStarts
    BY DEF ResumeInv, ChosenFits, ResumeStarts
  <2> QED BY <2>1, <2>2 DEF LaunchesArrive
<1> QED BY <1>1, ResumeInvariant, PTL
==============================================================================

----------------------------- MODULE RepoCache -----------------------------
(* The cache of git clones that installs, updates and runs share: one         *)
(* directory for each source and ref, brought up to date by EnsureRepo under a *)
(* lock of its own, looked up and read without it, purged without it           *)
(* (internal/resolver/resolver.go, lock_unix.go). git is known by what the     *)
(* code relies on: each command ends well or with an error, and a command that *)
(* is cut short leaves what it had done.                                       *)
EXTENDS Naturals, FiniteSets

CONSTANTS
    Callers,     \* the processes of ynh
    Entries,     \* the directories of the cache: a source and a ref each
    Tracks,      \* [Entries -> {"default", "branch", "sha"}], what the ref is
    Commits,     \* the commits upstream may have; a tree is the commit it checks out
    MaxCalls,    \* bound: calls and purges begun
    MaxFaults,   \* bound: commands that fail, processes that die
    MaxMoves     \* bound: moves of a branch upstream

CONSTANTS None,     \* no commit; no process; no entry
          Mixed     \* files of more than one tree, or half of one

ASSUME CacheAssumption ==
  /\ Tracks \in [Entries -> {"default", "branch", "sha"}]
  /\ None \notin Callers \union Entries \union Commits /\ Mixed \notin Commits \union {None}
  /\ MaxCalls \in Nat /\ MaxFaults \in Nat /\ MaxMoves \in Nat

\* A directory: what there is of .git (one half made or half removed is
\* "corrupt"), its HEAD, the tree, where the tree's manifest directory is
\* (as upstream has it, renamed by ynh, both, or gone), git's own lock files, and
\* whether origin/HEAD is known.
Directories ==
  [ git : {"absent", "litter", "init", "origin", "cloned", "corrupt"},
    head : Commits \union {None}, tree : Commits \union {None, Mixed},
    manifest : {"none", "asis", "moved", "both", "gone"},
    locks : SUBSET {"shallow", "index"}, remoteHead : BOOLEAN ]

Empty == [ git |-> "absent", head |-> None, tree |-> None, manifest |-> "none",
           locks |-> {}, remoteHead |-> FALSE ]
Checkout(c) == [ git |-> "cloned", head |-> c, tree |-> c, manifest |-> "asis",
                 locks |-> {}, remoteHead |-> TRUE ]

VARIABLES
    upstream,   \* the commit each entry's ref names
    dir,        \* the cache
    holder,     \* who holds each entry's lock
    pc, call,   \* what each process is at, and on which entry
    fetched,    \* the commit its fetch brought
    before,     \* HEAD as it found it
    answer,     \* what its last call returned
    tips,       \* history: the commits its ref named during its last call
    calm,       \* history: nothing failed and nobody else wrote during that call
    delivered,  \* history: the commit an entry's last call delivered, None since disturbed
    kept,       \* history: an entry was delivered, and nobody has purged it since
    strikes,    \* history: calls in a row that failed though nothing was in their way
    begun, faults, moves

process == <<pc, call, fetched, before, answer>>
history == <<tips, calm, delivered, kept, strikes>>
bounds == <<begun, faults, moves>>
vars == <<upstream, dir, holder, process, history, bounds>>
-----------------------------------------------------------------------------
(* A call of EnsureRepo *)

HasGit(e) == dir[e].git \in {"init", "origin", "cloned", "corrupt"}

\* A call asks for the lock. CacheOnlyRepo only calls when its lookup misses; a
\* lookup that hits changes nothing.
EnsureRepo(p, e) ==
  /\ pc[p] = "idle" /\ begun < MaxCalls /\ begun' = begun + 1
  /\ pc' = [pc EXCEPT ![p] = "waiting"]
  /\ call' = [call EXCEPT ![p] = e]
  /\ tips' = [tips EXCEPT ![p] = {upstream[e]}]
  /\ calm' = [calm EXCEPT ![p] = TRUE]
  /\ answer' = [answer EXCEPT ![p] = None]
  /\ UNCHANGED <<upstream, dir, holder, fetched, before, delivered, kept, strikes, faults, moves>>

\* Mutant of Lock: nobody is waited for.
LockAtOnce(p) ==
  /\ pc[p] = "waiting"
  /\ holder' = [holder EXCEPT ![call[p]] = p]
  /\ delivered' = [delivered EXCEPT ![call[p]] = None]

\* The lock is taken, and .git is looked for.
Lock(p) ==
  /\ pc[p] = "waiting" /\ holder[call[p]] = None
  /\ holder' = [holder EXCEPT ![call[p]] = p]
  /\ delivered' = [delivered EXCEPT ![call[p]] = None]

Unlock(p) == holder' = [holder EXCEPT ![call[p]] = IF @ = p THEN None ELSE @]

\* Mutant of Begin: what is left of the directory is not removed.
BeginOver(p) ==
  /\ Lock(p) /\ ~HasGit(call[p])
  /\ IF Tracks[call[p]] = "sha"
     THEN /\ pc' = [pc EXCEPT ![p] = "init"]
          /\ dir' = [dir EXCEPT ![call[p]] = [Empty EXCEPT !.git = "litter"]]
     ELSE /\ pc' = [pc EXCEPT ![p] = "clone"]
          /\ dir' = [dir EXCEPT ![call[p]].git = IF @ = "litter" THEN @ ELSE "origin"]
  /\ before' = [before EXCEPT ![p] = None]
  /\ UNCHANGED <<upstream, call, fetched, answer, tips, calm, kept, strikes, bounds>>

\* RemoveAll, then a clone of the ref begins, or of a commit: git init.
Begin(p) ==
  /\ Lock(p) /\ ~HasGit(call[p])
  /\ IF Tracks[call[p]] = "sha"
     THEN /\ pc' = [pc EXCEPT ![p] = "init"]
          /\ dir' = [dir EXCEPT ![call[p]] = [Empty EXCEPT !.git = "litter"]]
     ELSE /\ pc' = [pc EXCEPT ![p] = "clone"]
          /\ dir' = [dir EXCEPT ![call[p]] = [Empty EXCEPT !.git = "origin"]]
  /\ before' = [before EXCEPT ![p] = None]
  /\ UNCHANGED <<upstream, call, fetched, answer, tips, calm, kept, strikes, bounds>>

Refresh(p) ==
  /\ Lock(p) /\ HasGit(call[p])
  /\ pc' = [pc EXCEPT ![p] = "fetch"]
  /\ before' = [before EXCEPT ![p] = dir[call[p]].head]
  /\ UNCHANGED <<upstream, dir, call, fetched, answer, tips, calm, kept, strikes, bounds>>

\* The call returns: the lock is released and the caller has its answer.
Answer(p, ok) ==
  LET e == call[p] IN
  /\ pc' = [pc EXCEPT ![p] = "idle"]
  /\ call' = [call EXCEPT ![p] = None]
  /\ Unlock(p)
  /\ answer' = [answer EXCEPT ![p] =
       [entry |-> e, ok |-> ok, sha |-> IF ok THEN dir'[e].head ELSE None,
        changed |-> ok /\ before[p] # dir'[e].head]]
  /\ delivered' = [delivered EXCEPT ![e] = IF ok /\ calm'[p] THEN dir'[e].head ELSE None]
  /\ kept' = [kept EXCEPT ![e] = @ \/ (ok /\ calm'[p])]
  /\ strikes' = [strikes EXCEPT ![e] = IF ~ok /\ calm'[p] THEN @ + 1 ELSE 0]
  /\ fetched' = [fetched EXCEPT ![p] = None]
  /\ before' = [before EXCEPT ![p] = None]

\* The command that p is at ends well and another one begins.
Go(p, next) ==
  /\ pc' = [pc EXCEPT ![p] = next]
  /\ UNCHANGED <<upstream, holder, call, fetched, before, answer, history, bounds>>

InitRepo(p) ==
  /\ pc[p] = "init" /\ dir[call[p]].git # "absent"
  /\ dir' = [dir EXCEPT ![call[p]].git = "init"]
  /\ Go(p, "remote")

AddOrigin(p) ==
  /\ pc[p] = "remote" /\ dir[call[p]].git = "init"
  /\ dir' = [dir EXCEPT ![call[p]].git = "origin"]
  /\ Go(p, "fetchSHA")

FetchSHA(p) ==
  /\ pc[p] = "fetchSHA" /\ dir[call[p]].git = "origin" /\ "shallow" \notin dir[call[p]].locks
  /\ UNCHANGED dir
  /\ Go(p, "checkoutSHA")

CheckoutSHA(p) ==
  /\ pc[p] = "checkoutSHA" /\ dir[call[p]].git = "origin"
  /\ dir' = [dir EXCEPT ![call[p]] = [Checkout(upstream[call[p]]) EXCEPT !.remoteHead = FALSE]]
  /\ UNCHANGED <<upstream, tips, calm, bounds>>
  /\ Answer(p, TRUE)

\* git refuses to clone --branch a commit, and into a directory that is not empty.
Clones(e) == dir[e].git = "origin" /\ dir[e].head = None /\ Tracks[e] # "sha"

Clone(p) ==
  /\ pc[p] = "clone" /\ Clones(call[p])
  /\ dir' = [dir EXCEPT ![call[p]] = Checkout(upstream[call[p]])]
  /\ UNCHANGED <<upstream, tips, calm, bounds>>
  /\ Answer(p, TRUE)

Fetches(e) == dir[e].git \in {"origin", "cloned"} /\ "shallow" \notin dir[e].locks

Fetch(p) ==
  /\ pc[p] \in {"fetch", "refetch"} /\ Fetches(call[p])
  /\ fetched' = [fetched EXCEPT ![p] = upstream[call[p]]]
  /\ pc' = [pc EXCEPT ![p] = "reset"]
  /\ UNCHANGED <<upstream, dir, holder, call, before, answer, history, bounds>>

\* Mutant of ClearLocks: tried again as it is.
RetryForever(p) ==
  /\ pc[p] = "fetch" /\ dir[call[p]].git \in {"origin", "cloned"} /\ "shallow" \in dir[call[p]].locks
  /\ UNCHANGED dir
  /\ Go(p, "fetch")

\* A fetch that git's own stale lock stops is tried once more without it.
ClearLocks(p) ==
  /\ pc[p] = "fetch" /\ dir[call[p]].git \in {"origin", "cloned"} /\ "shallow" \in dir[call[p]].locks
  /\ dir' = [dir EXCEPT ![call[p]].locks = {}]
  /\ Go(p, "refetch")

\* Any other failure of a fetch: the entry is removed and cloned again.
Reclone(p) ==
  /\ pc' = [pc EXCEPT ![p] = "clone"]
  /\ dir' = [dir EXCEPT ![call[p]] = [Empty EXCEPT !.git = "origin"]]
  /\ before' = [before EXCEPT ![p] = None]
  /\ UNCHANGED <<upstream, holder, call, fetched, answer, tips, delivered, kept, strikes, begun, moves>>

CannotFetch(p) ==
  /\ pc[p] \in {"fetch", "refetch"} /\ dir[call[p]].git \notin {"origin", "cloned"}
  /\ UNCHANGED <<calm, faults>>
  /\ Reclone(p)

\* checkout --force FETCH_HEAD, or reset --hard origin/HEAD. Files that upstream
\* does not have stay until git clean.
Resets(e) ==
  /\ dir[e].git \in {"origin", "cloned"} /\ "index" \notin dir[e].locks
  /\ Tracks[e] = "default" => dir[e].remoteHead

Reset(p) ==
  /\ pc[p] = "reset" /\ Resets(call[p])
  /\ dir' = [dir EXCEPT ![call[p]] =
       [Checkout(fetched[p]) EXCEPT !.remoteHead = dir[call[p]].remoteHead, !.locks = dir[call[p]].locks,
          !.manifest = IF dir[call[p]].manifest \in {"moved", "both"} THEN "both" ELSE "asis"]]
  /\ Go(p, "clean")

Cleaned == [none |-> "none", asis |-> "asis", both |-> "asis", moved |-> "gone", gone |-> "gone"]

Clean(p) ==
  /\ pc[p] = "clean" /\ dir[call[p]].git = "cloned"
  /\ dir' = [dir EXCEPT ![call[p]].manifest = Cleaned[@]]
  /\ UNCHANGED <<upstream, tips, calm, bounds>>
  /\ Answer(p, TRUE)
-----------------------------------------------------------------------------
(* Failures *)

\* What a command that fails, or is cut short, may leave of the entry; git
\* removes what a failed clone has made unless it had only the tree left to do.
Partly(p) ==
  LET d == dir[call[p]] IN
  {d} \union
  CASE pc[p] = "clone" /\ Clones(call[p]) ->
         {Empty} \union { [Checkout(upstream[call[p]]) EXCEPT !.tree = Mixed, !.manifest = "none", !.locks = l] :
                            l \in {{}, {"index"}} }
    [] pc[p] = "clone" /\ ~Clones(call[p]) /\ d.git = "origin" -> {Empty}
    [] pc[p] \in {"checkoutSHA", "reset"} /\ d.git \in {"origin", "cloned"} -> {[d EXCEPT !.tree = Mixed]}
    [] OTHER -> {}

\* The end of a call in which a command failed.
Fail(p, d) ==
  /\ dir' = [dir EXCEPT ![call[p]] = d]
  /\ UNCHANGED <<upstream, tips, begun, moves>>

\* A command that finds the entry not as it needs it.
Cannot(p) ==
  LET e == call[p] IN
  CASE pc[p] = "init" -> dir[e].git = "absent"
    [] pc[p] = "remote" -> dir[e].git # "init"
    [] pc[p] = "fetchSHA" -> dir[e].git # "origin" \/ "shallow" \in dir[e].locks
    [] pc[p] = "checkoutSHA" -> dir[e].git # "origin"
    [] pc[p] = "clone" -> ~Clones(e)
    [] pc[p] = "reset" -> ~Resets(e)
    [] pc[p] = "clean" -> dir[e].git # "cloned"
    [] OTHER -> FALSE

Error(p) ==
  /\ Cannot(p)
  /\ Fail(p, IF pc[p] = "clone" /\ dir[call[p]].git = "origin" THEN Empty ELSE dir[call[p]])
  /\ UNCHANGED <<calm, faults>>
  /\ Answer(p, FALSE)

Happens == faults < MaxFaults /\ faults' = faults + 1

\* A command fails by itself: no network, a full disk.
Fault(p) ==
  /\ Happens
  /\ calm' = [calm EXCEPT ![p] = FALSE]
  /\ \/ pc[p] \in {"fetch", "refetch"} /\ Reclone(p)
     \/ /\ pc[p] \in {"init", "remote", "fetchSHA", "checkoutSHA", "clone", "reset", "clean"}
        /\ \E d \in Partly(p) : Fail(p, d)
        /\ Answer(p, FALSE)

\* ynh and its git die: the lock goes with the process, what git's locks name
\* stays locked, and of a clone, or of the directory being removed for one,
\* there may be anything.
Wrecks(p) ==
  LET d == dir[call[p]] IN
  CASE pc[p] = "init" -> {d, [d EXCEPT !.git = "corrupt"]}
    [] pc[p] = "clone" /\ Clones(call[p]) ->
         Partly(p) \union { [Empty EXCEPT !.git = "litter"], [Empty EXCEPT !.git = "init"],
                            [Empty EXCEPT !.git = "corrupt", !.tree = Mixed],
                            [Empty EXCEPT !.git = "origin", !.remoteHead = TRUE] }
    [] pc[p] \in {"fetch", "refetch", "fetchSHA"} /\ d.git \in {"origin", "cloned"} ->
         {d, [d EXCEPT !.locks = @ \union {"shallow"}]}
    [] pc[p] \in {"reset", "checkoutSHA"} /\ d.git \in {"origin", "cloned"} ->
         {d, [d EXCEPT !.tree = Mixed], [d EXCEPT !.tree = Mixed, !.locks = @ \union {"index"}]}
    [] OTHER -> {d}

Die(p) ==
  /\ Happens
  /\ pc[p] # "idle"
  /\ \E d \in Wrecks(p) : dir' = [dir EXCEPT ![call[p]] = d]
  /\ pc' = [pc EXCEPT ![p] = "idle"]
  /\ call' = [call EXCEPT ![p] = None]
  /\ Unlock(p)
  /\ answer' = [answer EXCEPT ![p] = None]
  /\ fetched' = [fetched EXCEPT ![p] = None]
  /\ before' = [before EXCEPT ![p] = None]
  /\ IF pc[p] = "waiting" THEN UNCHANGED <<delivered, kept, strikes>>
     ELSE /\ delivered' = [delivered EXCEPT ![call[p]] = None]
          /\ kept' = [kept EXCEPT ![call[p]] = FALSE]
          /\ strikes' = [strikes EXCEPT ![call[p]] = 0]
  /\ UNCHANGED <<upstream, tips, calm, begun, moves>>
-----------------------------------------------------------------------------
(* Those who do not take the lock *)

\* Loading a tree renames its manifest directory; it refuses one that has both.
Load(e) ==
  /\ dir[e].tree \in Commits /\ dir[e].manifest = "asis"
  /\ dir' = [dir EXCEPT ![e].manifest = "moved"]
  /\ calm' = [p \in Callers |-> calm[p] /\ ~(call[p] = e /\ pc[p] = "clean")]
  /\ UNCHANGED <<upstream, holder, process, tips, delivered, kept, strikes, bounds>>

Disturb(e) ==
  /\ calm' = [p \in Callers |-> calm[p] /\ call[p] # e]
  /\ delivered' = [delivered EXCEPT ![e] = None]
  /\ kept' = [kept EXCEPT ![e] = FALSE]
  /\ strikes' = [strikes EXCEPT ![e] = 0]

\* A purge removes a directory file by file.
StartPurge(p, e) ==
  /\ pc[p] = "idle" /\ dir[e].git # "absent"
  /\ begun < MaxCalls /\ begun' = begun + 1
  /\ pc' = [pc EXCEPT ![p] = "purge"]
  /\ call' = [call EXCEPT ![p] = e]
  /\ \E g \in {"litter", "corrupt", dir[e].git} : dir' = [dir EXCEPT ![e].git = g, ![e].tree = Mixed]
  /\ Disturb(e)
  /\ UNCHANGED <<upstream, holder, fetched, before, answer, tips, faults, moves>>

EndPurge(p) ==
  /\ pc[p] = "purge"
  /\ dir' = [dir EXCEPT ![call[p]] = Empty]
  /\ pc' = [pc EXCEPT ![p] = "idle"]
  /\ call' = [call EXCEPT ![p] = None]
  /\ Disturb(call[p])
  /\ UNCHANGED <<upstream, holder, fetched, before, answer, tips, bounds>>

\* Somebody pushes, or moves the branch back; a commit does not move.
Push(e, c) ==
  /\ Tracks[e] # "sha" /\ c # upstream[e]
  /\ moves < MaxMoves /\ moves' = moves + 1
  /\ upstream' = [upstream EXCEPT ![e] = c]
  /\ tips' = [p \in Callers |-> tips[p] \union IF call[p] = e THEN {c} ELSE {}]
  /\ UNCHANGED <<dir, holder, process, calm, delivered, kept, strikes, begun, faults>>
-----------------------------------------------------------------------------
Init ==
  /\ upstream \in [Entries -> Commits]
  /\ dir = [e \in Entries |-> Empty]
  /\ holder = [e \in Entries |-> None]
  /\ pc = [p \in Callers |-> "idle"]
  /\ call = [p \in Callers |-> None]
  /\ fetched = [p \in Callers |-> None]
  /\ before = [p \in Callers |-> None]
  /\ answer = [p \in Callers |-> None]
  /\ tips = [p \in Callers |-> {}]
  /\ calm = [p \in Callers |-> TRUE]
  /\ delivered = [e \in Entries |-> None]
  /\ kept = [e \in Entries |-> FALSE]
  /\ strikes = [e \in Entries |-> 0]
  /\ begun = 0 /\ faults = 0 /\ moves = 0

\* What a process that has called does next.
Step(p) ==
  \/ Begin(p) \/ Refresh(p)
  \/ InitRepo(p) \/ AddOrigin(p) \/ FetchSHA(p) \/ CheckoutSHA(p) \/ Clone(p)
  \/ Fetch(p) \/ ClearLocks(p) \/ CannotFetch(p) \/ Reset(p) \/ Clean(p)
  \/ Error(p) \/ EndPurge(p)

Next ==
  \/ \E p \in Callers : Step(p) \/ Fault(p) \/ Die(p)
  \/ \E p \in Callers, e \in Entries : EnsureRepo(p, e) \/ StartPurge(p, e)
  \/ \E e \in Entries : Load(e) \/ \E c \in Commits : Push(e, c)

\* git ends its commands, one way or the other, and flock wakes who waits.
Spec == Init /\ [][Next]_vars /\ \A p \in Callers : WF_vars(Step(p))
-----------------------------------------------------------------------------
(* Properties *)

Working == {"init", "remote", "fetchSHA", "checkoutSHA", "clone", "fetch", "refetch", "reset", "clean"}

CacheTypes ==
  /\ upstream \in [Entries -> Commits]
  /\ dir \in [Entries -> Directories]
  /\ holder \in [Entries -> Callers \union {None}]

CallTypes ==
  /\ pc \in [Callers -> Working \union {"idle", "waiting", "purge"}]
  /\ call \in [Callers -> Entries \union {None}]
  /\ fetched \in [Callers -> Commits \union {None}]
  /\ before \in [Callers -> Commits \union {None}]
  /\ answer \in [Callers -> {None} \union
       [entry : Entries, ok : BOOLEAN, sha : Commits \union {None}, changed : BOOLEAN]]

HistoryTypes ==
  /\ tips \in [Callers -> SUBSET Commits] /\ calm \in [Callers -> BOOLEAN]
  /\ delivered \in [Entries -> Commits \union {None}]
  /\ kept \in [Entries -> BOOLEAN] /\ strikes \in [Entries -> Nat]
  /\ begun \in 0..MaxCalls /\ faults \in 0..MaxFaults /\ moves \in 0..MaxMoves

LocksAreHeld ==
  /\ \A p \in Callers : call[p] = None <=> pc[p] = "idle"
  /\ \A p \in Callers, e \in Entries : holder[e] = p <=> call[p] = e /\ pc[p] \in Working

\* Every variable keeps to its type, and an entry's lock is held by the one
\* process that is at work on it (EnsureRepo, withRepoLock).
TypeOK == CacheTypes /\ CallTypes /\ HistoryTypes /\ LocksAreHeld

Whole(d) == d.git = "cloned" /\ d.head # None /\ d.tree = d.head /\ d.manifest \in {"asis", "moved"}

\* Whatever earlier calls left behind, failed, killed or purged half way, and
\* whoever else is calling: an entry that EnsureRepo answered for is the whole
\* checkout it named, manifest included, until somebody calls or purges again,
\* unless a purge or a load of the tree came between reset and clean.  And the
\* commit it answers with is one its ref named at some time during the call: never
\* one of an earlier call, nor another process's, and a pinned commit always itself.
EnsureDelivers ==
  /\ \A e \in Entries : delivered[e] # None => Whole(dir[e]) /\ dir[e].head = delivered[e]
  /\ \A p \in Callers : answer[p] # None /\ answer[p].ok => answer[p].sha \in tips[p]

\* git's index.lock is only removed when it is the fetch that fails, and a
\* clone of the default branch that was killed early knows no origin/HEAD.
Stuck(e) ==
  \/ "index" \in dir[e].locks
  \/ Tracks[e] = "default" /\ dir[e].git \in {"init", "origin", "cloned"} /\ ~dir[e].remoteHead

\* "The cache is disposable": of two calls in a row that nothing is in the way
\* of, the second succeeds, whatever was left of the entry, but for the two
\* wrecks that Stuck names; between calls there is no other that has failed twice
\* (resolver.go:870-953).
HealsInTwo == \A e \in Entries : holder[e] = None => strikes[e] <= 1 \/ Stuck(e)

\* Who asks for an entry gets an answer: a process that dies does not keep the
\* lock, and no retry goes on for ever.
CallsReturn == \A p \in Callers : pc[p] = "waiting" ~> pc[p] = "idle"

\* "ynh run works offline - no network access needed unless the cache is
\* cleared" (docs/getting-started.md:106): a lookup finds an entry that was once
\* delivered, until it is purged or a process dies at work on it.
StaysCached == \A e \in Entries : kept[e] /\ holder[e] = None => HasGit(e)
=============================================================================

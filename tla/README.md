# A TLA+ model of ynh

ynh packages, installs and runs *harnesses* for AI coding tools: trees of
instructions, hooks, MCP servers, sensors and focuses, composed from other trees
by includes. This directory holds TLA+ modules that model the parts of it with the
hardest behaviour, TLC configurations that check them on small instances, and
theorems that TLAPS checks for every instance. Modules are translated from the
source under `src/`; comments in them name the lines, and `PROJECT.json` maps each
definition to the code it stands for.

To check a module: `tlc -workers 2 -config AgentLoopSafety.cfg MCAgentLoop`. To check
proofs: `tlapm AgentLoopProofs.tla`.

## 1. The system and its parts

| component | its state | its operations | who it talks to | what is hard |
|---|---|---|---|---|
| **Agent loop** `internal/agent` | a session directory with `checkpoint.json`; in memory the budget, the watchdog, the pending message | `ynh agent run`, `--resume`, a turn, a gate, an approval, a signal | the worker process (a vendor CLI), the check gate, the operator over a control channel, the worktree | crashes between a send and a save, caps across launches, signals while blocked, a worktree the worker can edit |
| **Include graph** `internal/resolver` | the walk's chain, what is contributed, the routes recorded | resolve an include, a pick, a package; decide hook consent and MCP removals | the repository cache (a tree for each include), the assembler (the ordered result) | cycles, diamonds, several routes with different permissions, two versions of one source |
| **Check gate** `cmd/ynh/check.go`, `internal/baseline`, `internal/gate` | `.ynh/baseline/<harness>/<sensor>.json`, one file a sensor | `ynh check`, `--update-baseline`, the fingerprint | sensors (commands, artifacts), the agent loop, git (the files are committed) | no lock, files written in place, broken gates, counts against findings |
| **Repository cache** `internal/resolver` | a clone for each source and ref; a lock file beside each | `EnsureRepo`, `CacheOnlyRepo`, `LookupCache`, purge | git, install, update, run, the migration of manifest directories | concurrent processes, failing and killed git, readers and purges without the lock |
| **Harness store** `cmd/ynh/install.go` … | installed trees with their records, pointers, launchers, run aliases, sources, run directories | install, uninstall, update, fork, prune, and what run leaves | repository cache, migration, run launch | several files for one fact, one bare name for several installs, failures and kills in between |
| **Migration** `internal/migration` | the schema of a ynh home, its quarantine | three passes to schema 2, two to 3; quarantine, restore, drop | before almost every command | half migrated homes, two processes at once, no lock |
| **Run launch** `cmd/ynh/run.go`, `internal/assembler`, `internal/symlink`, `internal/sessions` | run directories, their locks, links in projects, `symlinks.json`, the vendor sessions recorded for names | assemble, link, clean, launch, resume | resolver, vendor adapters, trust records | two runs of one harness, a log without a lock, sessions found by guess |
| **Worker processes** `internal/agent/worker.go`, `claude.go` … | a process group, pipes, timers | start, send, read, interrupt, close, reap | agent loop | exits racing signals, children that outlive their leader |
| **Telemetry** `internal/telemetry` | the providers, a spool that may appear at any time, a relay process | begin, record, tell children, flush, finish, shut down; start and stop the relay | agent loop, run launch | a goroutine that switches telemetry on beside the run, flushes that time out |
| **Manifests and their editing** `internal/plugin`, `internal/harness/editor.go`, `cmd/ynh/include.go` … | `.agents/harness/plugin.json` | add, remove, update of includes, delegates, focuses, profiles, hooks, MCP servers | trust, resolver | read, change and write without a lock or a rename |
| **Trust and session composition** `cmd/ynh/trust.go`, `internal/harness`, `internal/assembler/hooks.go` | the digest of what was accepted | compose hooks and servers for a profile; list, accept, check | manifests, include graph, run launch | what is listed is not what is run |
| **Assembly** `internal/assembler`, `internal/resolver/delegate_graph.go` | the run directory | clean, copy, convert, compose, delegates, scripts | run launch, vendor adapters | what an earlier launch left, name clashes, several sources for one file |
| **Export, marketplace, agent plugins** `internal/exporter`, `internal/marketplace`, `internal/agentplugin` | an output directory, its git repository | `ynd export` in three layouts, `ynd marketplace build`, `--clean` | assembly, vendor adapters, git | manifests that name files, leftovers, somebody else's directory |
| **Configuration, registries, sources** `internal/config`, `internal/registry`, `internal/sources`, `cmd/ynh/registry.go` … | `config.json`, the clones of the registries | edits by commands and by hand; search; the resolution of an install's argument | harness store, repository cache | a file written whole without a lock or a rename; one name in several places |
| Freshness, labels, workspaces, schemas, the rest of `ynd` | none that outlives a call | parse, validate, lint, format | | little: sequential passes over data |

How they interact: a run, an install and an update walk the **include graph**; the
walk asks the **repository cache** for each git source; the composition decides what
hooks and servers a session carries, **trust** whether they were accepted, and the
result is **assembled** into a run directory under the lock of the **run launch**, or
**exported**. The **agent loop** starts a **worker** on the assembled harness and
asks the **check gate** after each turn; the gate runs the harness's sensors and
compares them with the **baseline**, whose fingerprint the loop keeps, to notice if it
moved. **Telemetry** is beside all that, and must stay there. An install asks the
**configuration** what its argument means before it asks for the clone.

What makes each correct:

- *Agent loop*: what was counted is not forgotten by a crash; caps bound the session,
  not each launch; a message answers the turn before it; only evidence of the last
  turn, against an unmoved baseline, makes a run converged; a run ends.
- *Include graph*: terminates; each harness once, after what it includes; permissions
  come out as the least generous of the routes, whatever order they are listed in.
- *Check gate*: a pass was green or was accepted by a deliberate update; a broken gate
  is neither; nothing another sensor or harness recorded is disturbed.
- *Repository cache*: a delivered entry is one whole commit that its ref named during
  the call; any wreck heals; nobody waits for ever.
- *Harness store*: the record, the tree and the launcher agree, or a retry makes them.
- *Migration*: no install and no provenance is lost; the stamp means what it says.
- *Run launch*: a tool never reads a directory of which half is another run's, and a
  resume is in the session it was meant for.
- *Worker*: nothing of a closed worker lives on, and stopping it takes a bounded time.
- *Telemetry*: what a crash leaves is told apart from what a run leaves.
- *Manifests, trust*: edits leave a valid manifest; no run carries what was not accepted.
- *Configuration, registries*: an edit is lost only to a race it had no lock against; what is
  looked up by a name, an id or a search result is what that name meant, and is allowed.
- *Assembly, export, marketplace*: what is there in the end is the harness as it is now,
  and nothing else, whatever was there before.

## 2. Modules

| module | models | built on |
|---|---|---|
| `AgentLoop` | one durable session of `ynh agent run` over its launches | |
| `IncludeGraph` | the walk over includes | |
| `IncludeConsent` | the walk, then hook consent and MCP removal decided from its routes | `IncludeGraph` |
| `IncludeOrder` | one graph walked in two orders | `IncludeConsent` |
| `CheckGate` | checks and updates over the shared baseline | |
| `GateFingerprint` | the agent loop's hold on the baseline's fingerprint | `CheckGate` |
| `RepoCache` | the cache of clones | |
| `HarnessStore` | the installs of one bare name | |
| `Migration` | the schema migrations of a home | |
| `RunLaunch` | launches side by side: run directories, links, their log | |
| `Resume` | which session a launch is in | |
| `Worker` | a worker's process group, with a clock | |
| `Telemetry` | what a run records of itself, and its relay | |
| `Manifest` | a manifest and the commands that edit it | |
| `Session` | what a session carries, and what was accepted | `Manifest` |
| `DelegateGraph` | delegates flattened into agents | |
| `Assembly` | the run directory's content | `DelegateGraph` |
| `Export` | `ynd export` | `Assembly` |
| `Marketplace` | `ynd marketplace build` | |
| `Settings` | `config.json`, and what is looked up through it | |
| `*Proofs` | theorems; see below | each with `TLAPS` |
| `MC*` | finite instances of the above | |

`MCWorker`, `MCSession` and `MCMarketplace` each hold two systems that share nothing
(`Worker` and `Telemetry`; `Session` and `Resume`; `Marketplace` and `Settings`): a
behaviour is of the one or of the other (`part`), so that one run checks both. Some
modules of proofs are about two systems in the same way: `AgentLoopProofs` about
`AgentLoop` and about `Export` with `DelegateGraph`, `StoreProofs` about `HarnessStore`,
`Marketplace` and `Settings`, `IncludeGraphProofs` about `IncludeGraph` and about `Session` with
`Manifest`, `RunLaunchProofs` about `RunLaunch` and `Resume`, `WorkerProofs` about `Worker`
and `Telemetry`. `CheckGateProofs`, `RepoCacheProofs` and `MigrationProofs` are about one each.

### AgentLoop

`pc` is where RunLoop stands (loop.go): `boot`, the plan phase (`sendPlan`,
`planTurn`, `planAsk`), `actEntry`, `sendFirst`, `loopTop`, `actTurn`, the judgement of
a turn (`gate`, `judge`, `verify`, `feedback`, `turnAsk`), `sendFeedback`, `save`, and
`down` between launches. `disk` is `checkpoint.json`. Each handler of the loop is an
action; `Crash` is possible at every stage, a checkpoint write may fail (`Save`,
`faults`), a `Signal` cancels the context at any time, the worker answers, dies or
edits the baseline while it has a turn.

Messages are what they stand for (the first act message of plan *i*, the feedback of
turn *n*), not text. Time passes only where the loop is blocked; tokens and time
saturate at their caps, which is all the code compares them with.

Things the code does that a reader may not expect, and the model does as it does:
the baseline's fingerprint is taken again by every launch (loop.go:1049), so a change
between two launches is not noticed; when the turn cap and the wall clock are both
spent, the verifiers of a passed gate still run (loop.go:1087); only sensors whose
kind is `command` make a gate that can decide; an interactive resume sends the
feedback that was pending without asking for it again; a rejected turn is
fed back as an approved one is; a run that converged is not checkpointed; a worker
that hangs in a turn is not interrupted by the wall-clock cap.

Left out: the trajectory, the protocols of the individual workers, sessions without
a directory, caps from the harness manifest, orphaned workers.

### IncludeGraph, IncludeConsent, IncludeOrder

The recursion of `includeResolver.resolve` is its `chain`: a harness and the position
of the include it is at. One action for each way an include may go (`CannotLoad`,
`TwoVersions`, `IncludesItself`, `TakePackage`, `SkipCycle`, `TakePick`, `MeetAgain`,
`Descend`), `Return` and `Finish` for the end of a list. `parents` and `hookLinks` are
the resolver's own records; `met` is the map of versions. `IncludeConsent` adds the
two passes over the contributions that follow the walk, `applyRemovals` and then
`applyHooksConsent` (`about` says which). Each asks its memoised recursion about one
contribution after the other (`AskItem`, `ApplyItem`, `AppliedAll`), and the recursion is
a stack of calls as the walk is: `AskParent` enters a call for the harness a route comes
from, `Hear` takes in what the memo says of it, `Reply` returns. A call has `left` the routes it has
not been through, and `common` is what those before came to. `removedFrom` and
`hooksConsent` have the same shape and are told apart by `Ways`, `Says` and `Decided`.
`IncludeOrder` keeps two walks of graphs that differ in the order of one list.

Left out: how a pick names its artifacts (two picks of a harness that differ only in
what they name are one node), profiles, namespaces.

### CheckGate, GateFingerprint

Any number of processes run checks (`Begin`, `ListToLoad`, `ReadEntry`, `Observe`,
`Judge`) and updates (also `StartSave`, `Truncate`, `Write`, `StartPrune`,
`ListToPrune`, `Remove`, `Finish`). Files are read, truncated, written and removed one
by one with other processes in between. The code reads files in the order of their
names; the model in any order, which is more than the code can do. A process may be
killed at any of these steps; people edit code, merge baselines and repair unreadable
entries. `Merge` and `Repair` are assumed not to happen while an update is under way
(`NobodyRecords`).

An outcome is green, failing with a set of findings and a number of lines, broken (the
command could not be found, or could not observe), or unstarted (the process could
not be created). `Compare` is the comparison of the code, count ratchets and truncated
entries included.

Left out: calibration, when debt was recorded, directories left empty.

`GateFingerprint` adds the fingerprint that the loop holds and what the baseline
forgave when it was taken.

### RepoCache

A directory of the cache is what there is of `.git`, its HEAD, the tree, the tree's
manifest directory, git's own lock files and whether `origin/HEAD` is known. A call of
`EnsureRepo` takes the entry's lock and looks for `.git` in one step (`Begin`,
`Refresh`); after that each git command is a step: `Clone`, or `InitRepo`,
`AddOrigin`, `FetchSHA`, `CheckoutSHA` for a commit, or `Fetch`, `ClearLocks`,
`Reclone`, `Reset`, `Clean`. A command may find the entry unusable (`Error`), fail by
itself (`Fault`), or the process and its git may be killed (`Die`), and what they leave
is a choice over what git can leave (`Partly`, `Wrecks`). `Load` (the rename of
`.ynh-plugin`) and `StartPurge`/`EndPurge` take no lock, as in the code. A branch
moves upstream under all this (`Push`).

What git does is modelled from how the code relies on it and is marked external.
The one retry of a clone after a transient error is part of `Clone` and `Fault`.
Removing a directory is part of the step that does it and does not fail by itself.

Worth knowing: `LookupCache` asks only for `.git` (resolver.go:998), so the empty tree
of a pinned clone whose fetch failed is a hit; the fallback of resolver.go:921-924
clones a commit with `clone --branch`, which git refuses, so a pinned entry whose
fetch fails is gone after that call and made anew by the next; a directory with
git's `index.lock` in it stays as it is, because only a failing *fetch* removes the
lock (905-907); so does a default-branch clone killed so early that `origin/HEAD` is
unknown. `HealsInTwo` names these two wrecks and speaks of all others.
A load that comes between the reset and `git clean` has its renamed manifest directory
cleaned away; `EnsureDelivers` excepts the call it happens to.

Left out: a load, or a lookup's hit, in the middle of a git command (they come
between commands), a git that outlives a killed ynh, platforms without `flock`
(lock_other.go takes no lock), names and remote probes.

### HarnessStore

The installs that share one bare name: remote ones, each with a tree and a canonical
id, and a local one, which is a pointer. `cmd` is the command under way with the step
it is at (`ensure`, `clear`, `copy`, `fetch`, `drop`, `record`, `launcher` for an
install; `remove` … `entry` for an uninstall; and so on), `last` how the one before
ended. A tree is absent, half copied or whole, knows the commit it was copied from and
whether files of another are in it (`pure`), and the commit its record names. The
launcher, the run alias and the sources entry have the bare name; `SettleLauncher` and
`SettleAlias` are what uninstall and run make of them for the installs that remain.
Every step may fail (`Abort`, `Warn`, as the code does at that line) and the process may
be killed before any (`Kill`). Other harnesses' updates advance the shared clone
(`OtherFetch`), upstream moves (`Push`), and the user deletes source directories.

Left out: commands that overlap (no lock exists to make that safe), any bare name
equal to `ynh`, homes of an older schema, homes with pointers keyed by name or local copies (that is
`Migration`), aliases that were real directories, `fork --name`, installing from the
install directory itself, an update of a local install (it changes nothing modelled
here), the schema stamp. Fork's roll-back and the removal of several run directories are
one step each. The alias of a sole survivor may dangle until the first run, and prune
after a killed uninstall leaves a launcher that runs a removed id if another install has
the name: `NameFollowsInstalls` speaks of homes in which nothing has failed. Prune
removes `_inline-…` run directories of live sessions too (prune.go:124); run
directories in use are `RunLaunch`'s.

### Migration

A home of schema 1, its pointers by the form of their key (`old`, `new`) and by whether
they have the whole record, its trees by layout, the launchers by form, what is broken,
the side files of local sources, the quarantine. A process (`run[p]`) is in a pass
(`pointers`, `trees`, `launchers`, then `collapse`, `absorb`), with what it has still to
visit, and between two writes of an entry (`mid`). A command migrates before it does
anything else, so processes overlap; `Kill` stops one between any two writes; the user
repairs what an error names, deletes a launcher that was edited, restores from the
quarantine or drops from it. `--skip-broken` is `QuarantineOrAbort`.

Writes of one small file and `RemoveAll` are atomic. Left out: `--dry-run`, two
installs of one id, trees with `.harness.json` only, the stamp an install writes,
restoring to another place than a manifest's. Directory listings are visited in any
order.

### RunLaunch

A process waits for the lock of its harness's run directory (`LockRunDir`), empties it,
writes artifacts and configuration, plants links for a vendor that needs them
(`CheckLinks`, `DropStale`, `Ask`, `Plant`), records them in the log with a load and a
save of the whole file (`LoadLog`, `Record`), lets go of the lock as the child starts
(`Spawn`), and is in the session. `ynh run --install` and `--clean` and the log half of
`ynh prune` (`Survey`, `RemoveOrphans`) are jobs of a process too. A step may fail, a
process may be killed (a lock goes with it), users remove links.

`AssembledAlone` is about the time the lock is held. Afterwards a later run may
rebuild the directory under a live session, as docs/delegate-sessions.md says; and the
lock is let go just before `cmd.Start` (process.go:109-110), which the model joins into
one step. Left out: an uninstall or a prune that removes the directory during a launch;
the question is asked under the lock (run.go:463), so others wait for the user.

### Resume

A launch is asked to bind a name, resume the newest session, resume one by id, or nothing
(`Route`). `Load`, `VerifyOrNewest`, `Adopt`, `Bind`, `StartSession`, `ResumeSession` are
the steps of `launchSession` and of what it calls; between them other launches start and
end sessions, tools prune their history (`DropHistory`), records fail to be written, and
a launcher is killed. `bound` is `$YNH_HOME/sessions`; tools differ in whether a session
can be given an id (`binds`), whether ynh can read the history (`looksUp`) and whether
a resumed session takes a prompt (`talks`).

Left out: which session of a directory is newest (any may be), directories whose
Claude slugs collide (the mapping is lossy, claude.go:191-198: their sessions would be
taken for each other's), a vendor that fails to start, a failing random source. A
selector among the caller's own arguments is the tool's business (`ToolSelects`).

### Worker

`leader` is the process ynh started, `child` anything else in its group, `stray` what is
left of an earlier turn's group; `waiter` is `cmd.Wait`. Two kinds of backend: one process
a session (claude) and one a turn (codex, cursor, opencode). Processes exit, ignore
SIGTERM, hold pipes as they like. Timers count down in `Tick`, which passes only
when nothing can be done at once, as the timeouts are seconds and the code's own steps
are not. `Interrupt` is a cancelled context, `CloseGracefully` and `CloseAtOnce` are the
two ways Close goes, and `GraceOver`, `TermOver`, `Reaped` its select.

After an interrupt what os/exec's WaitDelay has left is any value. A write to a worker
that has left may fail or not. Pids are not reused. Left out: what the lines say,
usage and cost.

### Telemetry

The main goroutine of a run and the one that looks for the spool, and begins the run's
telemetry late, are processes with a program counter each (`at`); each reads the providers without the run's lock (`Snapshot`) and uses what it read later
(`OpenSpan`, `Finish`, `ChildEnv`), which is what `crossed` is about. `Swap` begins
telemetry. Every timeout may pass at any time. The relay is started, prints its
endpoint, exits, is asked to stop and reaped.

Batches hold all records of a signal. Left out: the spool's files and caps (the ynr library
has them), attributes, the tail of stderr, children of the relay that hold its pipes
(stopRelay waits on `<-done` without a WaitDelay), panics, the relay of `ynh run`, which
has no records of its own.

### Manifest, Session

A command reads the manifest (`Begin`), changes its copy, and writes it whole (`Save`);
two commands may overlap, and a write that is killed, or overlaps another, leaves
a torn file (`Torn`), which is as for every reader of JSON: nothing loads. An update of
an include reads twice. `HandEdit` repairs a torn file. Each `ynh` verb is an action:
`AddInclude` … `UpdateMCP`. `Session` composes what a harness carries for each profile
(`ResolveProfile`, `ComposeHooks`, `ComposeMCP`: precedence, nulls, consent, conflicts),
lists what ynh trust shows (`HarnessExecutables`) and keeps what was accepted (`record`),
while the manifest is edited and an include is fetched anew (`Fetch`).

Left out: `--ref` (content is by source and path), aliases, instructions, sensors but for
the focus they name, workspaces, environment, matchers, timeouts, and of a server all
but its program and its address; the `.mcp.json` fallback (removing the last server
brings it back); namespaced profile views. Hooks are listed by event and command, as
hookKey does. Includes are leaf harnesses at a source's root (`IncludeGraph` has the
graph). One harness is in the trust store, which has no lock either: two accepts of
different harnesses lose one. Accepting recomputes what it records (trust.go:1029). Only
`ynh check` warns. Removing a focus leaves a `launch_focus` that names it.

### DelegateGraph, Assembly, Export, Marketplace

`DelegateGraph` is `FlattenDelegates`, one step a delegate: `Skip`, `Meet`, `Reach`,
`Clash`. `Assembly` copies the sources one artifact at a time (`CopyArtifact`), turns
commands into skills where the tool has none, composes instructions, writes the
delegates and the hooks' scripts, over what an earlier launch left; a write may fail.
What a file holds is whose it is.

`Export` runs the steps of a layout in the code's order (`Plan`): a package for each
tool, one merged package, or one Agent Plugins package. An adapter is what the rest of
the exporter asks of it (`Adapter`): kinds, which files it writes, which its
manifest names. `Marketplace` copies or exports each entry, writes the indexes, the
ownership marker and the commit, over what earlier builds left; `--clean` asks first
whose repository it is.

Left out of assembly: clashes of a file and a directory of one path, names that a
transform makes equal, roots that keep files of their own under `scripts/_include`,
hook scripts that overwrite staged artifacts, files of MCP servers, manifests and
secrets. A label and a namespace of an include are one, and so are sources of one base
path. A vendor is whether it reads commands (`skiller`) and folds rules into its
instructions (`folds`). Left out of export: what generated files say beyond the names
in them, warnings, the carriers of delegates' servers, the pointer to skills, opencode's
missing `on_session_end`, the findings of reading a package. Packages of an
export that failed may be partial. Left out of marketplace: the README, overrides of
name and version, normalised names (two entries of one name share a directory), stale git
locks (they are a failure), two builds at once, sources that change during a build.

### Settings

A command loads `config.json` (`BeginCall`), changes its copy and writes it whole
(`SaveConfig`: the file may be torn by a kill or by another that writes). Each verb that
edits it is an action: `CmdInit`, `CmdRegistryAdd` … `CmdBackendRemove`; `PurgeClones` is what
a registry's removal does after the save. `EditByHand` is the user, who may write what
no command would. `ResolveInstallSource` is what an install makes of its argument, by its
form: a directory, a URL, a name with a registry's label, a canonical id, a path in a
repository, a plain name; `UnifiedSearch` is what a search shows, each with the argument
that is to install it. `MatchGlob` and `CheckSource` are the policy's patterns. What
repositories, indexes and directories hold is `world`; the clones that calls leave are
`clones`.

`word` is what the file would say if each command were done whole, and `crossed` that one has
saved a copy of a file that was another by then: without a lock the last one wins, so
`SettingsHold` compares the two while nothing has crossed.

Left out: the flags `--path` and `--ref`, a registry's own ref, descriptions and
keywords (a name is matched or not), the settings no command writes, an argument that is
both a file's name and something else.

## 3. Runs

| run | distinct states | question |
|---|---|---|
| `AgentLoopSafety` | 1 120 000 | what a session may claim, spend, lose and resend over two launches |
| `AgentLoopEnds` | 209 000 | does a run end (liveness) |
| `IncludeGraphWalk` | 637 000 | order, completeness, cycles, consent and removals over every small graph |
| `CheckGateSafety` | 363 000 | what a pass means, what a file may hold, with two processes and kills |
| `RepoCache` | 180 000 | what EnsureRepo delivers and recovers from; does each call return |
| `Migration` | 365 000 | what is never lost, what the stamp means, does a home get there (liveness) |
| `HarnessStore` | 342 000 | what install, uninstall, fork leave behind, with a failure or a kill anywhere |
| `RunLaunch` | 216 000 | whose directory a launch uses, which links, what the log knows; does each get its turn |
| `Worker` | 338 000 | what Close leaves alive and how long it takes; what a run records of itself |
| `Session` | 736 000 | what edits leave, what a run may carry of what was accepted; which session a launch is in |
| `Export` | 126 000 | what a run directory, a package, their agents and manifests are |
| `Marketplace` | 3 280 000 | what a finished build holds, and that no history is lost; what overlapping edits leave in `config.json`, and what a lookup finds |

Deadlock is checked in `HarnessStore` and `Worker`, where there is always a next step
(a user's change; a step that says the run is over). In the others it is not: each of these
programs stops when its work is done, and the bounds stop it in the model.

**Properties.** The types of the variables are proved (in `Typing`, `GateTyping`, `CacheTyping`
and their like, or as the first part of an invariant); no run spends a property on
them. The rest are:

- `ConvergedOnEvidence`: a run that was to be verified is called converged only
  on an envelope of that very turn in which a command sensor ran and nothing blocked,
  by the baseline the launch started with.
- `TurnsAccountedFor`: a crash loses the turn in flight and those whose checkpoint
  failed; the turn cap bounds the whole session up to one redone turn for each relaunch
  and each failed write. `CheckpointAdvances`: a checkpoint never forgets.
- `RunEnds`: given a worker that answers or dies, a run ends or waits for its operator.
- `IncludedOnce` (none twice, all that is reached), `DependenciesFirst` (an order in which
  only noted cycles go the other way), `EveryRouteCounts`: hooks never run against a route
  that decides, and a server is removed exactly where every route removes it, on every
  graph, cycles and mutual picks included. That hooks also do run where no route says no
  needs `NoPickClosesACycle`: of the harnesses on the routes, no set is reached from
  itself alone. A cycle of whole includes is cut where the walk skips an include, but a
  pick is never skipped, and harnesses that pick from each other vouch for each other: the code
  lets none of them run, whatever the routes say (section 6). (A weaker condition, that no pick goes to a
  harness from which whole includes lead back, is not enough: two picks of each other
  meet it.)
- `PassIsEarned`: the gate opens only for what is green or what one deliberate update
  accepted, and "stale" is said of a baseline only if a declared sensor did better.
  `SavesAreDeliberate`, `LastWordKept`: who may write, over what, and what stays. The last
  speaks of updates that did not overlap: the code takes no lock, and overlapping updates
  may lose an entry or bring one back.
- `EnsureDelivers`, `HealsInTwo`, `CallsReturn`: the cache. `HealsInTwo` is judged between
  calls, when nobody has the entry's lock: in the middle of a third call an entry may be
  neither stuck nor mended.
- `NothingLost`, `StampMeansMoved`, `SideAbsorbed`, `HomesFinish`: migration. Provenance
  is promised where two migrations did not overlap, the stamp's meaning where the user
  put nothing back.
- `NameFollowsInstalls`, `InstallDelivers`, `NothingLeftBehind` (by an uninstall without a
  warning, or a fork that failed): the store. `InstallDelivers` holds after any failure
  before it, which is what a retry is for.
- `AssembledAlone`, `StartsWithLinks`, `LinksAreLogged`, `NobodyStarves`: launches.
- `LaunchesArrive`: no launch with a name is in a session that is not the name's, a focus
  prompt is sent once, and nothing left behind keeps a resume from starting.
- `CloseLeavesNobody`, `StopsOnTime`: workers, the second both ways: neither late nor
  before the time that was promised.
- `RunIsRecorded` (start, end and span, or nothing; the start from the beginning),
  `TelemetryStaysAside` (one timeout in a run, no relay left): telemetry.
- `EditsHold`: whatever overlaps, a manifest stays valid and picks are of the folder they
  were checked against. `AcceptedCoversRuns`: each hook and server of a run was on the
  list that was accepted. `NulledStaysOut`: a server set to null comes back by no include.
- `FlatDelegates`, `DirIsTheHarness`, `ExportHolds` (a package is the harness, and its
  manifest names the files that are there), `RefusedLeavesOutput`, `BuildIsItsConfig`,
  `HistoryKept`: what is made is what was asked for, and what was not ynd's is left.
- `SettingsHold`: edits keep lists without duplicates and backends with a tool, and make
  what they say unless they cross. `LookupsHold`: an install takes what its argument means
  and a clone only of what a pattern aligns with, and what a search shows is installed as
  it was shown, or not at all.

**Bounds**, and why they are enough:

- *AgentLoop*: two launches (a resume of a resume adds nothing that a resume does not
  have, for the checkpoint is all that is carried), one failed write, a cap of two or
  three turns, two replies, two findings, thresholds of two and one, so that the watchdog,
  each cap and the plan limit are all reached. Replies and findings are symmetric.
- *IncludeGraph*: four harnesses and a package; lists of up to two includes from the
  root and one harness and of one from the others, with and without consent, and picks
  from three of them (an include whose word on hooks is never asked has one form). That gives
  cycles of two and three and through the root, diamonds, shared picks, picks of
  each other and of the root, and these at once.
- *CheckGate*: two processes, two harnesses, a command sensor, an artifact, a count
  ratchet; two runs begun and two events (kills, failed saves, edits, merges, repairs);
  one finding is recorded, two are truncated. Asks cover each option alone. Edits are
  allowed where a run has yet to observe them (`EditsShow`): anywhere else they have
  the effects of one made there.
- *RepoCache*: two callers, a default-branch entry and a pinned one, three calls or
  purges, two failures or deaths and one move of the branch: enough for a wreck, a
  call that meets it and one that has to succeed. The instance starts all refs at one
  commit, since commits are alike and entries share none.
- *Migration*: three homes (a pointer and a tree of one name, a tree, a local tree), two
  commands, one kill or failure, one broken record: the shortest in which a second
  migration meets a half migrated home, alone or beside the first.
- *HarnessStore*: two remotes and a local install of one name, four commands, one failure,
  two commits: install twice, uninstall, and one that meets what they left.
- *RunLaunch*: two processes, two harnesses, a vendor with links and one without, three
  launches, one fault. *Resume*: two launchers, two directories, two names, three
  tools, three starts.
- *Worker*: the three timeouts in the code's order (term < delay < grace), three turns.
- *Manifest, Session*: two commands, two edits, one torn write, two versions of an include,
  a manifest with consent and one with nulls. More edits were tried by hand (three), with
  the same outcome.
- *Assembly, Export*: five directories of which two are clones of one, two sources and the
  harness, two launches or exports into one directory.
- *Marketplace*: three sources of two kinds, two versions, three builds.
- *Settings*: two users, three calls or edits by hand, one torn write or failed fetch; two
  repositories (one of them by an SSH URL) and a path, a directory, two worlds with
  namesakes, a name in two cases, a pinned and a moved entry and a registry that cannot be
  read; each form of an argument; every pattern of up to three segments against paths of
  one, two and three.

**Fairness.** `AgentLoop`: weak fairness of the loop (a sequential program that is never
blocked for good on its own work) and of the worker (it answers or dies; one that
hangs is not bounded by the code). Nothing is assumed of the operator, of signals or
of relaunches. `RepoCache`: weak fairness of each caller's next step: git ends its
commands one way or the other, and `flock` wakes a waiting process when the holder
closes the file or dies; with a bounded number of calls, whether an endless row of
others could starve a waiting one is not asked. `Migration`: a running migration goes on,
users go on using ynh and repair or delete what its errors name. `RunLaunch`: each
process goes on and its user answers (the question is asked under the lock), and
`flock` is strongly fair: the kernel keeps its waiters in a queue and serves one that
waits when the lock is let go again and again. Sessions may last for ever. Faults, kills, purges, loads and pushes are never fair.

## 4. Proofs

Eight modules hold proofs, each of the component's own `Spec` (or `LiveSpec`'s safety
part) for every value of the constants that the module's `ASSUME` allows. All have the
same shape: a strengthening that is inductive, a lemma for each action that says the
action keeps it, the step and the invariant, and the properties the runs check as
consequences. The invariants were first given to TLC.

`AgentLoopProofs`, for any harnesses, flags, caps, thresholds, numbers of
launches and of failed writes: `Typing`, `SessionInvariant`, `LossIsBounded`,
`TurnsAreBounded`, `TurnsAreAccountedFor`, `FeedbackIsAnswer`, `ConvergenceIsEarned`,
`CheckpointNeverForgets`, `FeedbackKeepsToCaps`. The properties
are not inductive: each relates what the driver has in memory to the checkpoint. The
invariant `SessionInv` adds how far the two may be apart at each stage
(`MemoryAhead`: no further than the missed saves where the loop is settled, one turn
more where a turn is being judged), how much of the history a relaunch has dropped
(`Forgotten`), that planning comes before any turn (`PlansFirst`), what is pending on
disk and in memory (`PendingAnswers`), and that nobody holds the worktree between the
count of a turn and its verdict (`Undisturbed`).

`IncludeGraphProofs`, for every graph over any set of harnesses: `WalkTyping`,
`WalkInvariant`, `WalkIsSimple`, `EachOnce`, `OneVersionOfEach`, `AllAndOnlyReached`,
`EachIncludedOnce`, `DependenciesComeFirst`. The invariant says that what is on the chain is not yet done
(`OpenNotDone`), that `done` is what was contributed (`DoneIsContributed`), that all an
open or done harness has had read was met (`DoneClosed`, `ReadClosed`), and that only
what the root reaches is met. Completeness follows because the set of
met harnesses is then closed under includes and holds the root. That an include comes
before what includes it (`AllFollow`) needs the positions of the chain: what a harness has
read so far is contributed or noted (`ReadIsSettled`), and what is noted was on the chain, each
of whose harnesses reaches the next (`ChainReaches`, `NotesClose`). Reachability is defined by
closed sets, without recursion, which is what lets the provers use it. These theorems are
about the walk's own `Spec`; the run checks the properties on `ConsentSpec`, each step
of which is a step of the walk or leaves the walk's variables alone.

`ConsentInvariant` and `EveryRouteIsCounted` are about `ConsentSpec`, for every graph, nulls
and order of the contributions. The invariant adds to the walk's what its records are
(`RoutePart`: of each harness, the links and parents recorded are the includes read so far that are not
skipped, `LinksRecorded`, `ParentsRecorded`), and what a stack of calls knows (`AnswerPart`).
What a question should be answered is said without a recursion: the harnesses that may run
are the least set that their deciding links let run (`MayRun`), and a server is lost where no
route comes from the root or from one of the least set that keeps it (`Lost`). The memo is right of a question that
no call is about (`MemoRight`). A call has in `common` what the routes it has been
through should come to (`CallRight`), and each call is about where a route of the one before it comes
from (`CallsClimb`). The heart of it is `MemoAnswers`, for a
call that asks about a harness some call is still about: the memo then says no, and that is
the right answer. For hooks, because the calls from that one on form a set of harnesses
each with a deciding link from within it, and no member of such a set is in a least set
(`NotOfThemselves`). For servers it never happens: `removedFrom` climbs from what a harness includes
to that harness, which is contributed later (`Earlier`, from `AllFollow`), so the stack
never meets itself. The last step (`RunsUnrefused`, `UnrefusedRuns`, `LostWhereNoneKeeps`) compares
these sets with those of the property, which speak of the graph's own includes: `Routes`
are those recorded (`LinksAreRoutes`, `ParentsAreRoutes`), because all that the root reaches has been
read when the walk is over.

The second half of `IncludeGraphProofs` is about manifests and what is composed of them, for
any sources, folders, servers, processes and number of edits: `ManifestInvariant`,
`EditsAreHeld`, `NulledIsOut`, `AcceptedCovers`. `EditInv` says that every copy a command
holds is valid, and of an update what entry it has looked up; and that picks are where their
entries point to, until an update has given an entry a path without picks or met another entry
than it had looked at (`loose`).
`EditsAreHeld` has a hypothesis, `WrittenWell`: the manifests users write themselves are valid and
pick what is there, as those of the run are. `NulledIsOut` needs no invariant: nothing that
`ResolveProfile` or `composeMCP` does afterwards puts a removed server back. For
`AcceptedCovers`, an item of a profile that its list leaves out is on the harness's
(`BesideIs`), and the views that were listed are the views there are.

Lists with some entries taken out are written by their places (`KeptAt`: the *k*th that stays
is the one up to which *k* stay; `Joined` in the same way for lists one after another), not with
`SelectSeq` or a fold, whose recursion the prover cannot use. `KeptAtIs` and `AllAreKept` say that
what is kept is of the list, and that all that should be kept is; both count, and the first
takes a least place (`Smallest`).

`CheckGateProofs`, for any processes, harnesses, sensors and findings (`MarkerAssumption`:
"no entry" is not an entry): `GateInvariant`, `GateTyping`, `PassesAreEarned`,
`NothingSavedUnread`, `LastWordStands`. `GateInv` says where what a process holds came from
(`Known`, `Backed`), what it has left to do at each stage (`Resting`, `Deliberate`), and
that as long as no two updates have overlapped, an update has read and saves all of the
files (`Alone`), from which the last word follows.

`RepoCacheProofs`, for any processes, entries, refs, commits and bounds: `CacheInvariant`,
`CacheTyping`, `DeliversWhole`, `MendsInTwo`. `CacheInv` says of each call what its ref
has named so far (`TipsOf`), that the entry at work is promised to nobody (`NotYet`), and,
of a call that nothing was in the way of, what its entry looks like before each git
command (`Going`, `Fits`): that is what makes the command unable to fail where the call
before has failed. Of an entry between calls, `Struck` says what a failed call leaves. A
lemma for each way to touch an entry (`Takes`, `Works`, `Answers`, `Aside`, `Meddles`)
carries the argument; each action is one of them.

`RunLaunchProofs`, for any processes, harnesses, projects and vendors: `LaunchInvariant`,
`LaunchTyping`, `EachAssemblesAlone`, `LinksAreThere`, `LogIsWhole`. `LaunchInv` says who
holds a lock (`LocksAreHeld`, `HasLock`), which jobs a process can be at (`JobsFit`), that
a directory under its lock is its holder's (`DirIsOwn`), and which links a launch has seen
made and recorded (`LinksFit`, `LinksAreLogged`).

`WorkerProofs`, for any values of the three timeouts that keep `Term < Delay`, as the
code's constants do: `WorkerInvariant`, `WorkerTyping`, `NothingOutlivesClose`,
`StoppingTakesItsTime`. `WorkerInv` ties the program counters of Close and of the waiter to
who is alive (`Reaping`), the timers to how long ago each was set (`Timing`) and what was
asked of the group (`Interrupted`, `Asked`).

In the same module, for `Telemetry`, whenever telemetry begins and whichever timeouts pass:
`TelemetryInvariant`, `EachRunIsRecorded`, `TelemetryKeepsAside`. The invariant says for each
place a run's two goroutines can be at what the span has recorded so far, and whether it is
kept (`Stage`, `StartIsSafe`), and the whole of it where telemetry did not begin between a
snapshot and its use (`Straight`); that one flush at most is waited for in vain (`OneWait`);
and who knows of the relay (`RelayInv`).

`RunLaunchProofs` also has `Resume`, for any launchers, directories, names, tools and
sessions: `ResumeInvariant`, `LaunchesComeToTheirs`. A name is bound to a session that was
started for it or given to it (`BoundToItsOwn`), two launches never start the same one
(`StartersDiffer`), a focus prompt is the first a session hears (`FocusIsFirst`), and at each
stage a launch is where its request leads (`Routed`), with a session that fits it
(`ChosenFits`); one that has failed was refused, or found gone what it was led to.

`StoreProofs`, first for the home, for any remote installs, directories, commits, commands
and failures: `StoreInvariant`, `NamesFollowInstalls`, `InstallsDeliver`,
`NothingIsLeftBehind`. `StoreInv` says what a command at each of its stages has done and
what it still owes (`CommandFits`, `InstallGoes`, `UninstallGoes`), that a clone is never
ahead of its upstream (`Fetched`), what the last command left (`LastHolds`), and, while
nothing has failed, whose the launcher, the alias and the run directories are
(`Unfailed`). The argument rests on one thing: a command adds or removes no id but its
own, so the installs together with the command's id stay as they were from its first
step to its last, and the bare name is settled on what is left (`Runs`, `Bear`).

Then for the marketplace, for any sources, configurations, vendors and numbers of
versions and builds: `MarketInvariant`, `BuildsAreConfigured`, `HistoryIsKept`. `MarketInv`
says what is in its place so far (`SoFar`: the entries before the one the build is at, and
after `--clean` nothing else) and whose the repository is (`Repository`: past the git step
it is ynd's, which is why nothing is committed to another).

Last for the settings, for any users, registries, sources, backends and number of edits:
`SettingsInvariant`, `SettingsAreHeld`. `SettingsInv` says that a copy which nobody has saved over
is what the commands make of the file one after another (`CopyIsWord`), as the file is while
nothing has crossed (`FileIsWord`), that a command at `init` saves the defaults
(`InitIsDefault`), and that all copies are well formed if what users write is.

`LookupInvariant` and `LookupsAreHeld` are about what is looked up through them, for any worlds,
arguments, patterns and numbers of registries, directories and harnesses. `LookupInv` says that
what a command was led to or shows is what its own copy makes of its argument
(`ResolveInstallSource`, `UnifiedSearch`), whatever others have saved since; the rest is a lemma
for each form of an argument (`ArgumentMeans`) and each kind of result (`SearchShows`).
`FirstPlaceIs` and `TakeIs` say what the loops that stop at the first match find. That
`MatchGlob`, the code's match of one segment after the other, accepts a path exactly when it
can be cut into one piece for each segment of the pattern (`MatchIsAligned`) is shown
without induction: the places from which on a path can be cut solve the equation of
the recursion (`PlacesMatch`), and two solutions that differ would differ at a last segment,
where the equation makes them equal (`MatchUnique`). It is assumed of the world that a folder
holds one harness at the most, and of directories that none is a URL one clones from.

`AgentLoopProofs`, after the session, has the walk of the delegates, the export and the assembly, for any
directories, clones, delegations, names, requests and adapters: `ExportInvariant`,
`DelegatesAreFlat`, `RefusalsLeaveOutput`. `FlatDelegates` speaks of a finished walk; on the way,
every entry of the root and of an agent still waits or has been looked at (`NoneForgotten`),
and the agents are reached and have a name each (`AgentsAreReached`). When nothing waits, the
directories that share an identity with an agent are closed under delegation, so they hold
all that is reached; that two clones of one harness delegate alike
(`DelegateAssumption`) is what carries the argument from a directory to its clones. An
export resolves and cleans first and does neither again (`PlanBegins`), so until its third
step the output is what it found (`OutputInv`). It is proved of all steps of launches and
exports, since both walk.

`PackageInvariant` and `ExportsHold` are about a finished export, in every layout and for any
sequence of tools. `PackageInv` looks ahead: a package that has been emptied and will not be
emptied again (`Cleared`) is the harness and says what is there, but for what the steps still
ahead of it will write (`Fits`, of which each part names the steps that owe it: `AllCopied`,
`AllHanded`, `ManifestsSay`, `PackageSays`, `HooksThere`, `ScriptsThere`). For this to be kept
the order of a layout matters, and all that is needed of it is in `Ordered`: after a package is
emptied it is copied before delegates are written, and hooks before what names
them, scripts after hooks, manifests after the files they point to. Three lemmas
(`EachOrdered`, `MergedOrdered`, `AgentPluginOrdered`) read it off the three plans, where the
tools repeat a pattern of steps (`ForAt`). Then each write is shown once to give its package what
it owes (`Gives`) and to spoil nothing that is there (`Marks`), whatever layout it is in; when
nothing is ahead, what fits is right (`PackageIsRight`, `PointersAreRight`).

`DirInvariant` and `DirsAreTheHarness` are about the directory that a launch assembles. `DirInv`
says what it has at each step: of each file, the last of those sources copied so far that give
it (`SoFar`); then what becomes of it with the commands as skills (`WithCommands`); then, of an
agent whose name delegates have, one of them once the first is written (`WithDelegates`). That
an earlier launch's directory was cleaned is all that is used of it. `FirstSaid` counts the texts:
each is first said at one place, so there are as many sections as texts (`SectionsAre`), and since
the harness's own source is read first, its text is the first of them (`OwnFirstIs`). A hook's
script is at a place of its own (`FolderIsOwn`), so none is copied over another.

`MigrationProofs`, for any installs, names, homes, processes, kills and overlaps:
`HomeInvariant`, `HomeTypesHold`, `HomeLosesNothing`, `StampsMeanMoved`,
`SideFilesAbsorbed`. None of the properties is inductive. `HomeInv` adds that what a process is
about to remove has its successor, and that its entry is not a broken one another
process may quarantine (`Middle`); that while no migrations overlap there is one at a
time, and what it is about to remove is in a complete pointer (`Alone`); and that what is
left in an older layout is still to be visited by everybody who is at work on it
(`ToVisit`), which is what the stamp relies on (`Stamped`). The lemma `StepKeeps` needs to know of a
step only what it leaves of the installs (`Stays`: nothing comes back to an older layout,
`Shrinks`) and what its process leaves for itself (`Own`); each action is shown to be one.
That every process on its own may stamp a home others still work on is the heart of it:
its own visits were complete, and nobody puts back what it has moved.

Only model-checked, and why:

- liveness (`RunEnds`, `CallsReturn`, `HomesFinish`, `NobodyStarves`): beyond the prover.

Every other property of a run is a theorem above.

## 5. Not modelled

- *Freshness, labels, workspaces*: each call reads files or a network once, computes, and
  prints; nothing is kept between calls. Their outcome (a commit, a label, a root) is an
  input above.
- *Schemas, the rest of `ynd`* (lint, fmt, validate, compress, inspect): sequential passes
  over files whose correctness is in the detail of the text, which these
  modules leave out.
- *Documentation, infrastructure, end-to-end tests*: no behaviour of the program.

Most components are `partly` modelled: what each leaves out is at the end of its
part of section 2. No module composes two whole components: a launch's tree being
uninstalled under it, or the cache's entry purged while a session's directory is copied
from it, are in no run. The interfaces are abstracted on both sides instead: what a
component assumes of another (a worker answers or dies, a resolver returns a tree, a tree has
one commit) is what the other's module shows or names as its exception.

## 6. Where the code and its texts disagree

Found while modelling. Each is a definition of the module named; TLC shows a behaviour of
the code that the text excludes. Where a `.cfg` is named, run it with `-continue` (several
properties in one file); otherwise put the property in the place of those in the module's
main `.cfg`.

| property | how | the text | what the code does |
|---|---|---|---|
| `CancelEndsRun` | `AgentLoopByHand.cfg` | loop.go:219 "an interrupt at any point of a run is caught and exits ExitInterrupted" | a signal at an approval gate ends nothing until the operator answers (loop.go:1641) |
| `NeverSentBeyondACap` | `AgentLoopByHand.cfg` | docs/agent.md:76 "never sent a turn beyond a cap" | the first act message is sent with the wall clock spent at the plan's approval (loop.go:1057) |
| `ConsentEverywhereRunsAll` | `IncludeGraphWalk.cfg` | resolver.go:58 "every route to it says `"hooks": true`", 500 "only guards the recursion" | a pick that closes a cycle makes the guard decide: consent given everywhere is refused |
| `OrderMakesNoDifference` | `IncludeOrder.cfg` | resolver.go:491 "The outcome does not depend on the order" | with a cycle of which one include consents, it does |
| `AbsenceNeverForgiven` | `CheckGateSafety.cfg`, `OutcomesOf <- WithoutProcess`, `Committed <- FreshRepository` | check.go:300 "A command that never ran is a broken gate, not a finding" | a process that cannot be started exits -1, is recorded and forgiven (check.go:328) |
| `FingerprintTellsForgiveness` | `GateFingerprint.cfg` | baseline.go:638 "so a caller can tell whether the ratchet moved" | totals, by which count ratchets are judged, are not in it (baseline.go:672) |
| `StaysCached` | `RepoCache.cfg` | docs/getting-started.md:106 "`ynh run` works offline" unless the cache is cleared | a failed refresh removes the clone (resolver.go:921) |
| `RecordNotAhead` | `HarnessStore.cfg`, `MaxFaults = 0` | docs/reference.md:216 "Currently installed Git ref or SHA", 222 | an update whose shared clone another has advanced records the commit without copying it (update.go:83, 196) |
| `OrphansPruned` | `HarnessStore.cfg`, `MaxFaults = 0` | prune.go:39-42 "pointer exists but its source tree is gone … Removing the pointer is a metadata operation" | the pointer is removed by name (prune.go:54), where pointers of schema 2 are filed by id: it stays, and prune says it is gone |
| `NobodyLeftBehind` | `Worker.cfg` | worker.go:375-376 "Whatever the worker left behind in the group is killed once it has exited", worker_group_test.go:78 | Close signals nobody when Next has reaped a worker that left in a turn (claude.go:658) |
| `LaunchersFollow` | `Migration.cfg` | canonicalid.go:138-150 "so the next invocation re-runs from where it left off" | launchers are found by what this very invocation moved (canonicalid.go:342-352): after a kill the remote installs' launchers keep the old form |
| `StatusShowsAll` | `RunLaunch.cfg`, `SPECIFICATION Spec`, `MaxFaults = 0` | docs/vendors.md:68 "Use `ynh status` to see all installations" | overlapping saves of the log lose each other's links (symlink/log.go:53, vendors.go:216-223) |
| `EventsPair` | `Worker.cfg` | telemetry/run.go:18-20 "a started event when it begins and a finished event when it ends", docs/telemetry.md:108 | the providers are read before the run's lock (run.go:61, 82, 145), so telemetry that starts meanwhile sees one without the other |
| `RefusedWithReason` | `SessionByHand.cfg` | docs/harnesses.md:356 "the delegate is fetched and the name checked against what it declares" | `--path` is joined to a base that already is that folder (delegate.go:93, resolver.go:103-121): the add is refused whatever is declared |
| `KeyedByPath` | `SessionByHand.cfg` | docs/harnesses.md:588 "Includes are keyed by URL + path" | an update that changes the path may make two of one key |
| `AddedIsThere` | `SessionByHand.cfg` | plugin.go:33, what a null name is | adding a server of a name that is null succeeds, and the name stays null |
| `ServersComposeValid` | `Session.cfg`, `Written <- SplitDef` | a server has a command or a URL | a profile's URL is merged onto a command (ResolveProfile) |
| `OneSelector` | `Session.cfg` | run.go:652-657, docs/focus.md:144-145, beside the caller's own selector ynh adds none | without a name, it adds its own `--resume` (run.go:609-637) |
| `UnsavedStartsAnew` | `Session.cfg` | run.go:691 "a later --resume will start a new session" | an older record of the name is still there, and a later `--resume` takes it |
| `HookFilesAreHooks` | `ExportByHand.cfg` | agentplugin.go:292-304 "writes exactly one file" | Copilot's adapter has two names for it (copilot.go:379) |
| `OnlyCleanRemoves` | `ExportByHand.cfg` | docs/ynd.md:348, 548, only `--clean` removes | merged and agent-plugin exports remove the output first (exporter.go:267, agentplugin.go:42) |
| `OtherKindsLeftOut` | `ExportByHand.cfg` | docs/ynd.md:387-388, kinds a tool does not carry are left out | a pick of such a kind fails the export (assembler.go:262) |
| `BuildIsCommitted` | `Marketplace.cfg` | marketplace.go:295-302, the three cases of an output | after a kill between `git init` and the commit, no later build commits (510-515) |
| `ManifestIsCurrent` | `Marketplace.cfg` | marketplace.go:391-400, a missing manifest is made | the one made by an earlier build is taken for the plugin's own |
| `PolicyKept` | `Marketplace.cfg` | sourcecheck.go:15 "If it is an empty slice, every source is denied" | an empty list is left out of the file that any command saves (config.go, `omitempty`), and no list allows every source |
| `ShownInstalls` | `Marketplace.cfg` | search.go:86 "Install is the complete first argument to `ynh install`" | an entry of a repository that is a path is shown as `local/<name>`, which an install refuses; a pin is dropped; and the first of several of the name in a repository is taken |

## 7. Plan

Done: the core (`AgentLoop`, `IncludeGraph` with consent and order, `CheckGate`, `RepoCache`),
then migration, the store, launches, workers, telemetry, manifests and sessions, assembly,
export, marketplace and settings; the proofs of section 4.

Left, in this order:

1. A launch composed with an uninstall or a prune of its harness, and an update with the
   cache that others advance, in place of `OtherFetch`.
2. What the manifest commands still lack: sensors, workspaces, namespaced profile views.

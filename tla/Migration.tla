------------------------------ MODULE Migration ------------------------------
(* The schema migrations of a ynh home (internal/migration/canonicalid.go and   *)
(* local_install_collapse.go), run by `ynh migrate` and before almost every     *)
(* other command (cmd/ynh/migrate.go), and the quarantine they move broken      *)
(* entries to (cmd/ynh/quarantine.go).                                          *)
(*                                                                              *)
(* A home of schema 1 keys its installs by bare name. Schema 2 keys them by     *)
(* canonical id, and its launchers run that id. Schema 3 keeps an install from  *)
(* a local source as a pointer with its whole record, and no copy. There is no  *)
(* lock: two commands may migrate one home at a time, and either may be killed  *)
(* between any two writes.                                                      *)
(*                                                                              *)
(* An install is named by its canonical id. A write of one small file is one    *)
(* step, and directory listings are taken when a pass begins, as os.ReadDir     *)
(* does; entries are visited in any order (the code sorts by file names, which  *)
(* are arbitrary here).                                                         *)
EXTENDS Naturals, FiniteSets

CONSTANTS Installs,    \* the installs of the home, by canonical id
          Names,       \* bare names: the keys of the old layout, and of bin/
          NameOf,      \* the bare name of each install
          Local,       \* installs from a local source: their id is local/<name>
          TreeShaped,  \* installs kept as a tree; the others are pointers
          Homes,       \* the sets of installs a home may have at first
          Commands,    \* bound: commands that run at a time
          None,
          MaxFaults,   \* bound: processes killed, and migrations started beside another
          MaxBroken    \* bound: things wrong with the home at first

ASSUME MigrationAssumption ==
    /\ NameOf \in [Installs -> Names]
    /\ Local \subseteq Installs
    /\ TreeShaped \subseteq Installs
    /\ Homes \subseteq SUBSET Installs
    /\ \A g, h \in Local : NameOf[g] = NameOf[h] => g = h
    /\ {None, "none", "legacy", "edited"} \cap Installs = {}
    /\ Commands \in Nat \ {0}
    /\ MaxFaults \in Nat
    /\ MaxBroken \in Nat

Procs == 1..Commands

VARIABLES
    home,       \* the installs the home had at first
    schema,     \* .schema-version
    ptr,        \* per install and key (old: by name, new: by id), what the pointer
                \* file holds: nothing, a thin record, or its provenance as well
    tree,       \* where an install's tree is, if it has one
    ghost,      \* installs with a directory that holds an installed.json alone
    side,       \* pointer installs whose source tree holds an installed.json
    bad,        \* installs whose pointer or installed.json cannot be read
    badSide,    \* installs whose side file cannot be read
    missing,    \* installs whose source path is gone
    launcher,   \* per name: no launcher, the old form, an edited one, or the id it runs
    held,       \* what is in .quarantine/broken
    noted,      \* what the migration manifest says of the quarantine
    run,        \* per process, the migration it runs
    faults, restored, dropped, overlap   \* history
vars == <<home, schema, ptr, tree, ghost, side, bad, badSide, missing, launcher,
          held, noted, run, faults, restored, dropped, overlap>>

Keys    == {"old", "new"}
Fill    == {"none", "thin", "full"}
Places  == {"none", "old", "stamped", "new"}
Passes  == <<"pointers", "trees", "launchers", "note2", "stamp2",
             "collapse", "absorb", "note3", "stamp3">>
PassSet == {Passes[i] : i \in DOMAIN Passes}

(* What can be quarantined: a pointer file, a tree, a launcher.                 *)
Item(kind, of, form) == [kind |-> kind, of |-> of, form |-> form]
Items == [kind : {"ptr"}, of : Installs, form : Keys]
         \cup [kind : {"tree", "ghost"}, of : Installs, form : Keys]
         \cup [kind : {"bin"}, of : Names, form : {"legacy", "edited"} \cup Installs]

(* A migration: its pass, whether --skip-broken was given, the entries of the   *)
(* pass still to visit, the entry it is in the middle of, the ids by name and   *)
(* the quarantined entries its own manifest has, and whether it has any entry.  *)
Idle == [pc |-> "idle", skip |-> FALSE, todo |-> {}, mid |-> None,
         made |-> [n \in Names |-> None], quar |-> {}, wrote |-> FALSE]
Mids == [of : Installs, key : Keys, at : {"loaded", "written"}]
Todos == (Installs \X Keys) \cup Names

TypeOK ==
    /\ home \in Homes
    /\ schema \in 1..3
    /\ ptr \in [Installs -> [Keys -> Fill]]
    /\ tree \in [Installs -> Places]
    /\ \A s \in {ghost, side, bad, badSide, missing, dropped} : s \subseteq Installs
    /\ launcher \in [Names -> {"none", "legacy", "edited"} \cup Installs]
    /\ held \subseteq Items
    /\ noted \subseteq Items
    /\ run \in [Procs -> [pc : {"idle"} \cup PassSet, skip : BOOLEAN,
                          todo : SUBSET Todos, mid : {None} \cup Mids,
                          made : [Names -> Installs \cup {None}],
                          quar : SUBSET Items, wrote : BOOLEAN]]
    /\ faults \in 0..MaxFaults
    /\ restored \in BOOLEAN
    /\ overlap \in BOOLEAN

(* A home of schema 1: pointer files and trees by name, generated or edited     *)
(* launchers, and up to MaxBroken things wrong with it.                         *)
Init ==
    /\ home \in Homes
    /\ schema = 1
    /\ ptr = [h \in Installs |-> [k \in Keys |->
                  IF k = "old" /\ h \in home \ TreeShaped THEN "thin" ELSE "none"]]
    /\ tree = [h \in Installs |-> IF h \in home \cap TreeShaped THEN "old" ELSE "none"]
    /\ ghost = {}
    /\ side \in SUBSET ((home \cap Local) \ TreeShaped)
    /\ bad \in SUBSET home
    /\ badSide \in SUBSET side
    /\ missing \in SUBSET ((home \cap Local \cap TreeShaped) \ bad)
    /\ launcher \in [Names -> {"none", "legacy", "edited"}]
    /\ \A n \in Names : launcher[n] # "none" => \E h \in home : NameOf[h] = n
    /\ Cardinality(bad) + Cardinality(badSide) + Cardinality(missing)
         + Cardinality({n \in Names : launcher[n] = "edited"}) <= MaxBroken
    /\ held = {} /\ noted = {}
    /\ run = [p \in Procs |-> Idle]
    /\ faults = 0 /\ restored = FALSE /\ dropped = {} /\ overlap = FALSE

HistoryUnchanged == UNCHANGED <<home, faults, restored, dropped, overlap>>
HomeUnchanged == UNCHANGED <<schema, ptr, tree, ghost, side, bad, badSide, missing,
                             launcher, held, noted>>

-----------------------------------------------------------------------------
(* The passes, and the directory each one lists as it begins.                   *)

At(h) == IF tree[h] = "new" THEN "new" ELSE "old"
Pointers == {x \in Installs \X Keys : ptr[x[1]][x[2]] # "none"}
Trees    == {<<h, At(h)>> : h \in {g \in Installs : tree[g] # "none"}}
Listing(pass) ==
    CASE pass \in {"pointers", "absorb"} -> Pointers
      [] pass \in {"trees", "collapse"}  -> Trees
      [] pass = "launchers"              -> {n \in Names : launcher[n] # "none"}
      [] OTHER                           -> {}

Begin(r, pass) == [r EXCEPT !.pc = pass, !.todo = Listing(pass)]
NextPass(pc) == Passes[1 + CHOOSE i \in DOMAIN Passes : Passes[i] = pc]

(* One entry done, nothing or something recorded for it.                        *)
Done(p, x) == [run EXCEPT ![p].todo = @ \ {x}, ![p].mid = None]
Recorded(p, x, n, h) == [run EXCEPT ![p].todo = @ \ {x}, ![p].mid = None,
                                    ![p].wrote = TRUE, ![p].made[n] = h]
Failed(p) == [run EXCEPT ![p] = Idle]

(* quarantineOrAbort: rename the entry into the quarantine and go on, or stop   *)
(* the run. The caller removes the entry from where it was when skipping.       *)
QuarantineOrAbort(p, x, item) ==
    IF run[p].skip
    THEN /\ held' = held \cup {item}
         /\ run' = [run EXCEPT ![p].todo = @ \ {x}, ![p].mid = None,
                               ![p].quar = @ \cup {item}]
    ELSE /\ held' = held
         /\ run' = Failed(p)

(* cmdMigrateTo, or autoMigrate before another command (never skipping). A new  *)
(* command takes the first free place.                                          *)
Start(p, skip) ==
    /\ run[p].pc = "idle" /\ \A q \in 1..(p - 1) : run[q].pc # "idle"
    /\ schema < 3
    /\ run' = [run EXCEPT ![p] = Begin([Idle EXCEPT !.skip = skip],
                                       IF schema < 2 THEN "pointers" ELSE "collapse")]
    /\ IF \E q \in Procs : run[q].pc # "idle"
       THEN /\ faults < MaxFaults
            /\ faults' = faults + 1 /\ overlap' = TRUE
       ELSE UNCHANGED <<faults, overlap>>
    /\ HomeUnchanged /\ UNCHANGED <<home, restored, dropped>>

(* Mutant of PassDone: entries are left.                                        *)
PassCut(p) ==
    /\ run[p].pc \in {"pointers", "trees", "launchers", "collapse", "absorb"}
    /\ run[p].mid = None
    /\ run' = [run EXCEPT ![p] = Begin(@, NextPass(@.pc))]
    /\ HomeUnchanged /\ HistoryUnchanged

PassDone(p) ==
    /\ run[p].pc \in {"pointers", "trees", "launchers", "collapse", "absorb"}
    /\ run[p].todo = {} /\ run[p].mid = None
    /\ run' = [run EXCEPT ![p] = Begin(@, NextPass(@.pc))]
    /\ HomeUnchanged /\ HistoryUnchanged

-----------------------------------------------------------------------------
(* Pass 1: every pointer file by id. The new file is written, then the old one  *)
(* removed; a file another process has removed is an error in either mode.      *)

PointerEntry(p, x) ==
    /\ run[p].pc = "pointers" /\ x \in run[p].todo /\ run[p].mid = None
    /\ LET h == x[1]  k == x[2] IN
       \/ /\ ptr[h][k] = "none"
          /\ run' = Failed(p) /\ UNCHANGED <<ptr, held>>
       \/ /\ ptr[h][k] # "none" /\ h \in bad
          /\ QuarantineOrAbort(p, x, Item("ptr", h, k))
          /\ ptr' = [ptr EXCEPT ![h][k] = IF run[p].skip THEN "none" ELSE @]
       \/ /\ ptr[h][k] # "none" /\ h \notin bad
          /\ run' = IF k = "new" THEN Done(p, x)
                    ELSE [run EXCEPT ![p].mid = [of |-> h, key |-> k, at |-> "loaded"]]
          /\ UNCHANGED <<ptr, held>>
    /\ UNCHANGED <<schema, tree, ghost, side, bad, badSide, missing, launcher, noted>>
    /\ HistoryUnchanged

(* Mutant of WritePointer: an old pointer goes without a new one.               *)
WriteNothing(p) ==
    /\ run[p].pc = "pointers" /\ run[p].mid # None /\ run[p].mid.at = "loaded"
    /\ run' = [run EXCEPT ![p].mid.at = "written"]
    /\ HomeUnchanged /\ HistoryUnchanged

WritePointer(p) ==
    LET m == run[p].mid IN
    /\ run[p].pc = "pointers" /\ m # None /\ m.at = "loaded"
    /\ ptr' = [ptr EXCEPT ![m.of]["new"] = "thin"]
    /\ run' = [run EXCEPT ![p].mid.at = "written"]
    /\ UNCHANGED <<schema, tree, ghost, side, bad, badSide, missing, launcher, held, noted>>
    /\ HistoryUnchanged

RemoveOldPointer(p) ==
    LET m == run[p].mid IN
    /\ run[p].pc = "pointers" /\ m # None /\ m.at = "written"
    /\ ptr' = [ptr EXCEPT ![m.of]["old"] = "none"]
    /\ run' = Recorded(p, <<m.of, m.key>>, NameOf[m.of], m.of)
    /\ UNCHANGED <<schema, tree, ghost, side, bad, badSide, missing, launcher, held, noted>>
    /\ HistoryUnchanged

(* Pass 2: every tree by id. The record in the tree is loaded, rewritten, and   *)
(* the tree renamed. Rewriting it after another process has moved the tree      *)
(* makes a directory that holds the record alone.                               *)

TreeEntry(p, x) ==
    /\ run[p].pc = "trees" /\ x \in run[p].todo /\ run[p].mid = None
    /\ LET h == x[1]  k == x[2]
           there == tree[h] # "none" /\ At(h) = k IN
       \/ /\ there /\ h \in bad
          /\ QuarantineOrAbort(p, x, Item("tree", h, k))
          /\ tree' = [tree EXCEPT ![h] = IF run[p].skip THEN "none" ELSE @]
       \/ /\ there /\ h \notin bad /\ k = "old"
          /\ run' = [run EXCEPT ![p].mid = [of |-> h, key |-> k, at |-> "loaded"]]
          /\ UNCHANGED <<tree, held>>
       \/ /\ ~there \/ (h \notin bad /\ k = "new")
          /\ run' = Done(p, x)
          /\ UNCHANGED <<tree, held>>
    /\ UNCHANGED <<schema, ptr, ghost, side, bad, badSide, missing, launcher, noted>>
    /\ HistoryUnchanged

StampTree(p) ==
    LET m == run[p].mid IN
    /\ run[p].pc = "trees" /\ m # None /\ m.at = "loaded"
    /\ IF tree[m.of] \in {"old", "stamped"}
       THEN tree' = [tree EXCEPT ![m.of] = "stamped"] /\ UNCHANGED ghost
       ELSE ghost' = ghost \cup {m.of} /\ UNCHANGED tree
    /\ run' = [run EXCEPT ![p].mid.at = "written"]
    /\ UNCHANGED <<schema, ptr, side, bad, badSide, missing, launcher, held, noted>>
    /\ HistoryUnchanged

(* A rename onto a tree that is there fails, and quarantines what it was to     *)
(* move; a rename of nothing is an error in either mode.                        *)
RenameTree(p) ==
    LET m == run[p].mid
        x == <<m.of, m.key>> IN
    /\ run[p].pc = "trees" /\ m # None /\ m.at = "written"
    /\ \/ /\ tree[m.of] = "stamped"
          /\ tree' = [tree EXCEPT ![m.of] = "new"]
          /\ run' = Recorded(p, x, NameOf[m.of], m.of)
          /\ UNCHANGED <<ghost, held>>
       \/ /\ tree[m.of] \in {"none", "old"} /\ m.of \in ghost
          /\ run' = Recorded(p, x, NameOf[m.of], m.of)
          /\ UNCHANGED <<tree, ghost, held>>
       \/ /\ tree[m.of] = "new" /\ m.of \in ghost
          /\ QuarantineOrAbort(p, x, Item("ghost", m.of, m.key))
          /\ ghost' = IF run[p].skip THEN ghost \ {m.of} ELSE ghost
          /\ UNCHANGED tree
       \/ /\ tree[m.of] # "stamped" /\ m.of \notin ghost
          /\ run' = Failed(p)
          /\ UNCHANGED <<tree, ghost, held>>
    /\ UNCHANGED <<schema, ptr, side, bad, badSide, missing, launcher, noted>>
    /\ HistoryUnchanged

(* Pass 3: a generated launcher is rewritten to run its id: the id this run     *)
(* recorded for the name, or local/<name> when such an install is on disk. One  *)
(* without either is left to `ynh prune`, and one that is neither the old nor   *)
(* the new text is taken for an edited one.                                     *)

InstallExists(h) == ptr[h]["new"] # "none" \/ tree[h] = "new"
LauncherIds(p, n) ==
    IF run[p].made[n] # None THEN {run[p].made[n]}
    ELSE {h \in Local : NameOf[h] = n /\ InstallExists(h)}

LauncherEntry(p, n) ==
    /\ run[p].pc = "launchers" /\ n \in run[p].todo
    /\ LET ids == LauncherIds(p, n) IN
       \/ /\ launcher[n] # "none" /\ (ids = {} \/ launcher[n] \in ids)
          /\ run' = Done(p, n) /\ UNCHANGED <<launcher, held>>
       \/ /\ launcher[n] = "legacy" /\ ids # {}
          /\ \E h \in ids : /\ launcher' = [launcher EXCEPT ![n] = h]
                            /\ run' = Recorded(p, n, n, h)
          /\ UNCHANGED held
       \/ /\ launcher[n] \notin {"none", "legacy"} \cup ids /\ ids # {}
          /\ QuarantineOrAbort(p, n, Item("bin", n, launcher[n]))
          /\ launcher' = [launcher EXCEPT ![n] = IF run[p].skip THEN "none" ELSE @]
       \/ /\ launcher[n] = "none"
          /\ run' = Failed(p) /\ UNCHANGED <<launcher, held>>
    /\ UNCHANGED <<schema, ptr, tree, ghost, side, bad, badSide, missing, noted>>
    /\ HistoryUnchanged

(* The manifest, when there is something to tell, and the stamp, the last       *)
(* write of a migration. The stamp of schema 2 leads to the next one.           *)

WriteManifest(p) ==
    /\ run[p].pc \in {"note2", "note3"}
    /\ noted' = IF run[p].wrote \/ run[p].quar # {} THEN run[p].quar ELSE noted
    /\ run' = [run EXCEPT ![p].pc = NextPass(@)]
    /\ UNCHANGED <<schema, ptr, tree, ghost, side, bad, badSide, missing, launcher, held>>
    /\ HistoryUnchanged

(* Mutant of WriteSchemaVersion: like the manifest, not for a run without entries. *)
StampWhenMoved(p) ==
    /\ run[p].pc \in {"stamp2", "stamp3"}
    /\ schema' = IF ~run[p].wrote THEN schema ELSE IF run[p].pc = "stamp2" THEN 2 ELSE 3
    /\ run' = [run EXCEPT ![p] = Idle]
    /\ UNCHANGED <<ptr, tree, ghost, side, bad, badSide, missing, launcher, held, noted>>
    /\ HistoryUnchanged

WriteSchemaVersion(p) ==
    /\ \/ /\ run[p].pc = "stamp2"
          /\ schema' = 2
          /\ run' = [run EXCEPT ![p] = Begin([Idle EXCEPT !.skip = run[p].skip], "collapse")]
       \/ /\ run[p].pc = "stamp3"
          /\ schema' = 3
          /\ run' = [run EXCEPT ![p] = Idle]
    /\ UNCHANGED <<ptr, tree, ghost, side, bad, badSide, missing, launcher, held, noted>>
    /\ HistoryUnchanged

-----------------------------------------------------------------------------
(* Schema 3, pass 1: the copy of a local install becomes a pointer with the     *)
(* whole record, then the copy is removed. An entry it cannot convert ends the  *)
(* pass, whichever way quarantineOrAbort goes.                                  *)

EndingPass(p, item) ==
    IF run[p].skip
    THEN /\ held' = held \cup {item}
         /\ run' = [run EXCEPT ![p].todo = {}, ![p].quar = @ \cup {item}]
    ELSE /\ held' = held
         /\ run' = Failed(p)

CollapseEntry(p, x) ==
    /\ run[p].pc = "collapse" /\ x \in run[p].todo /\ run[p].mid = None
    /\ LET h == x[1]  k == x[2]
           there == tree[h] # "none" /\ At(h) = k IN
       \/ /\ there /\ (h \in bad \/ (h \in Local /\ h \in missing))
          /\ EndingPass(p, Item("tree", h, k))
          /\ tree' = [tree EXCEPT ![h] = IF run[p].skip THEN "none" ELSE @]
          /\ UNCHANGED ptr
       \/ /\ there /\ h \in Local \ (bad \cup missing)
          /\ ptr' = [ptr EXCEPT ![h][k] = "full"]
          /\ run' = [run EXCEPT ![p].mid = [of |-> h, key |-> k, at |-> "written"]]
          /\ UNCHANGED <<tree, held>>
       \/ /\ ~there \/ h \notin Local \cup bad
          /\ run' = Done(p, x)
          /\ UNCHANGED <<ptr, tree, held>>
    /\ UNCHANGED <<schema, ghost, side, bad, badSide, missing, launcher, noted>>
    /\ HistoryUnchanged

RemoveCopy(p) ==
    LET m == run[p].mid IN
    /\ run[p].pc = "collapse" /\ m # None
    /\ tree' = [tree EXCEPT ![m.of] = IF @ # "none" /\ At(m.of) = m.key THEN "none" ELSE @]
    /\ run' = [Done(p, <<m.of, m.key>>) EXCEPT ![p].wrote = TRUE]
    /\ UNCHANGED <<schema, ptr, ghost, side, bad, badSide, missing, launcher, held, noted>>
    /\ HistoryUnchanged

(* Schema 3, pass 2: a pointer without provenance takes it from the record in   *)
(* its source tree, which is then removed. What cannot be read is an error in   *)
(* either mode.                                                                 *)

(* Mutant of AbsorbEntry: the side file goes before the pointer is written.     *)
AbsorbLater(p, x) ==
    /\ run[p].pc = "absorb" /\ x \in run[p].todo /\ run[p].mid = None
    /\ ptr[x[1]][x[2]] = "thin" /\ x[1] \in side
    /\ run' = [run EXCEPT ![p].mid = [of |-> x[1], key |-> x[2], at |-> "written"]]
    /\ HomeUnchanged /\ HistoryUnchanged

AbsorbEntry(p, x) ==
    /\ run[p].pc = "absorb" /\ x \in run[p].todo /\ run[p].mid = None
    /\ LET h == x[1]  k == x[2]
           unread == ptr[h][k] = "none" \/ h \in bad
           absorbs == ptr[h][k] = "thin" /\ h \in side IN
       \/ /\ unread \/ (absorbs /\ h \in badSide)
          /\ run' = Failed(p) /\ UNCHANGED ptr
       \/ /\ ~unread /\ absorbs /\ h \notin badSide
          /\ ptr' = [ptr EXCEPT ![h][k] = "full"]
          /\ run' = [run EXCEPT ![p].mid = [of |-> h, key |-> k, at |-> "written"]]
       \/ /\ ~unread /\ ~absorbs
          /\ run' = Done(p, x) /\ UNCHANGED ptr
    /\ UNCHANGED <<schema, tree, ghost, side, bad, badSide, missing, launcher, held, noted>>
    /\ HistoryUnchanged

RemoveSide(p) ==
    LET m == run[p].mid IN
    /\ run[p].pc = "absorb" /\ m # None
    /\ side' = side \ {m.of}
    /\ run' = [Done(p, <<m.of, m.key>>) EXCEPT ![p].wrote = TRUE]
    /\ UNCHANGED <<schema, ptr, tree, ghost, bad, badSide, missing, launcher, held, noted>>
    /\ HistoryUnchanged

-----------------------------------------------------------------------------
(* What else happens to a home: a process is killed, the user repairs what an   *)
(* error named, and restores or drops what is in the quarantine.                *)

Kill(p) ==
    /\ run[p].pc # "idle"
    /\ faults < MaxFaults
    /\ faults' = faults + 1
    /\ run' = [run EXCEPT ![p] = Idle]
    /\ HomeUnchanged /\ UNCHANGED <<home, restored, dropped, overlap>>

Repair(h) ==
    /\ h \in bad \cup badSide \cup missing
    /\ bad' = bad \ {h} /\ badSide' = badSide \ {h} /\ missing' = missing \ {h}
    /\ UNCHANGED <<schema, ptr, tree, ghost, side, launcher, held, noted, run>>
    /\ HistoryUnchanged

DeleteLauncher(n) ==
    /\ launcher[n] \notin {"none", "legacy"}
    /\ launcher' = [launcher EXCEPT ![n] = "none"]
    /\ UNCHANGED <<schema, ptr, tree, ghost, side, bad, badSide, missing, held, noted, run>>
    /\ HistoryUnchanged

(* ynh quarantine restore, to the path the manifest gives, when that is free.   *)
Restore(i) ==
    /\ i \in held \cap noted
    /\ \/ /\ i.kind = "ptr" /\ ptr[i.of][i.form] = "none"
          /\ ptr' = [ptr EXCEPT ![i.of][i.form] = "thin"] /\ UNCHANGED <<tree, launcher, ghost>>
       \/ /\ i.kind = "tree" /\ tree[i.of] = "none" /\ i.of \notin ghost
          /\ tree' = [tree EXCEPT ![i.of] = i.form] /\ UNCHANGED <<ptr, launcher, ghost>>
       \/ /\ i.kind = "bin" /\ launcher[i.of] = "none"
          /\ launcher' = [launcher EXCEPT ![i.of] = i.form] /\ UNCHANGED <<ptr, tree, ghost>>
       \/ /\ i.kind = "ghost" /\ i.of \notin ghost /\ tree[i.of] = "new"
          /\ ghost' = ghost \cup {i.of} /\ UNCHANGED <<ptr, tree, launcher>>
    /\ held' = held \ {i}
    /\ restored' = (restored \/ schema > 1 \/ \E p \in Procs : run[p].pc # "idle")
    /\ UNCHANGED <<home, schema, side, bad, badSide, missing, noted, run, faults, dropped, overlap>>

Drop(i) ==
    /\ i \in held
    /\ held' = held \ {i}
    /\ dropped' = dropped \cup ({i.of} \cap Installs)
    /\ UNCHANGED <<schema, ptr, tree, ghost, side, bad, badSide, missing, launcher, noted, run>>
    /\ UNCHANGED <<home, faults, restored, overlap>>

(* The next step of a migration, whichever it is.                               *)
Step(p) ==
    \/ PassDone(p) \/ WriteManifest(p) \/ WriteSchemaVersion(p)
    \/ WritePointer(p) \/ RemoveOldPointer(p) \/ StampTree(p) \/ RenameTree(p)
    \/ RemoveCopy(p) \/ RemoveSide(p)
    \/ \E x \in Installs \X Keys : \/ PointerEntry(p, x) \/ TreeEntry(p, x)
                                   \/ CollapseEntry(p, x) \/ AbsorbEntry(p, x)
    \/ \E n \in Names : LauncherEntry(p, n)

User == \/ \E h \in Installs : Repair(h)
        \/ \E n \in Names : DeleteLauncher(n)
        \/ \E i \in held : Restore(i) \/ Drop(i)

Next == \/ \E p \in Procs : Step(p) \/ Kill(p) \/ \E s \in BOOLEAN : Start(p, s)
        \/ User

Spec == Init /\ [][Next]_vars

(* A running migration goes on until it ends; a user goes on using ynh, whose   *)
(* commands migrate first, and repairs what they complain about.                *)
Fairness ==
    /\ \A p \in Procs : WF_vars(Step(p)) /\ WF_vars(Start(p, FALSE))
    /\ \A h \in Installs : WF_vars(Repair(h))
    /\ \A n \in Names : WF_vars(DeleteLauncher(n))
LiveSpec == Spec /\ Fairness

-----------------------------------------------------------------------------
(* No install is ever forgotten: at every moment, whatever was killed and       *)
(* however many migrations run, there is a pointer or a tree for it, in place   *)
(* or in the quarantine, until the user drops it (canonicalid.go:121-133).      *)
RegistrationKept == \A h \in home \ dropped :
    \/ \E k \in Keys : ptr[h][k] # "none"
    \/ tree[h] # "none"
    \/ \E i \in held : i.kind \in {"ptr", "tree"} /\ i.of = h

(* Provenance survives a migration killed anywhere: a record that leaves a tree *)
(* or a source tree is in a pointer first (local_install_collapse.go:17-35).    *)
(* Two migrations at once give no such promise: one may rewrite a pointer it    *)
(* read before the other completed it.                                          *)
ProvenanceKept == ~overlap => \A h \in (home \cap TreeShaped) \ dropped :
    \/ \E k \in Keys : ptr[h][k] = "full"
    \/ tree[h] # "none"
    \/ \E i \in held : i.kind = "tree" /\ i.of = h

(* What a killed migration leaves is enough to start over from.                 *)
NothingLost == RegistrationKept /\ ProvenanceKept

(* A record leaves the user's source tree only once the pointer has what it     *)
(* said, and no pointer loses its provenance again.                             *)
SideAbsorbed == [][overlap \/ \A h \in Installs :
    /\ h \in side \ side' => \E k \in Keys : ptr[h][k] = "full"
    /\ (\E k \in Keys : ptr[h][k] = "full") => \E k \in Keys : ptr'[h][k] = "full"]_vars

(* The stamp is the last write and means what it says: nothing is left in an    *)
(* older layout, and no local install has a launcher of the old form, unless    *)
(* the user put it back. Collapsing alone may leave copies behind, and only     *)
(* when --skip-broken quarantined one of them.                                  *)
StampMeansMoved == ~restored =>
    /\ schema >= 2 => \A h \in Installs :
          /\ ptr[h]["old"] = "none"
          /\ tree[h] \notin {"old", "stamped"}
          /\ h \in Local /\ InstallExists(h) => launcher[NameOf[h]] # "legacy"
    /\ schema = 3 =>
          \/ \A h \in Local : tree[h] = "none"
          \/ dropped # {}
          \/ \E i \in held : i.kind = "tree" /\ i.form = "new"

(* What the comment promises of a migration that was cut short: the next run     *)
(* takes up where it stopped, so that a stamped home has no launcher of the old  *)
(* form for an install that is in place (canonicalid.go:121-133).                *)
LaunchersFollow == ~restored /\ ~overlap /\ schema >= 2 =>
    \A h \in home : InstallExists(h) => launcher[NameOf[h]] # "legacy"

(* However it was killed and whatever was broken, a home whose user goes on and *)
(* repairs what the errors name is at the current schema in the end.            *)
HomesFinish == <>[](schema = 3)

=============================================================================

--------------------------- MODULE MigrationProofs ---------------------------
(* Theorems about Migration, for any homes, installs, processes and bounds: what *)
(* a migration that is killed anywhere, or runs beside others, leaves of every   *)
(* install, of its provenance, and of the older layout once it is stamped.       *)
EXTENDS Migration, TLAPS

Early == {"pointers", "trees", "launchers", "note2", "stamp2"}
Late  == {"collapse", "absorb", "note3", "stamp3"}

\* An entry that a process is in the middle of is not broken, and what the process is
\* about to remove has its successor.
Middle(p) ==
  LET m == run[p].mid IN
  m # None =>
    /\ run[p].pc \in {"pointers", "trees", "collapse", "absorb"}
    /\ m.of \notin bad
    /\ run[p].pc = "pointers" =>
         /\ m.key = "old"
         /\ ptr[m.of]["old"] # "none" \/ ptr[m.of]["new"] # "none"
         /\ m.at = "written" => ptr[m.of]["new"] # "none"
    /\ run[p].pc = "trees" => m.key = "old"
    /\ run[p].pc = "collapse" => \E k \in Keys : ptr[m.of][k] # "none"

\* While no two migrations have overlapped there is one at a time, no pointer has its
\* provenance before schema 2, and what is about to be removed is in a pointer.
Alone ==
  ~overlap =>
    /\ \A p, q \in Procs : p # q => run[p].pc = "idle" \/ run[q].pc = "idle"
    /\ \A p \in Procs : run[p].pc \in Early => schema = 1
    /\ schema = 1 => \A h \in Installs, k \in Keys : ptr[h][k] # "full"
    /\ \A p \in Procs : run[p].pc \in {"collapse", "absorb"} /\ run[p].mid # None
         => ptr[run[p].mid.of][run[p].mid.key] = "full"

NoOldPointers == \A h \in Installs : ptr[h]["old"] = "none"
NoOldTrees == \A h \in Installs : tree[h] \notin {"old", "stamped"}
LaunchersMoved == \A h \in Local : InstallExists(h) => launcher[NameOf[h]] # "legacy"

\* A copy may stay if one was quarantined, or dropped from there.
Excused == dropped # {} \/ \E i \in held : i.kind = "tree" /\ i.form = "new"
Collapsed == (\A h \in Local : tree[h] = "none") \/ Excused

\* What is left in an older layout is still to be visited by whoever is at work on it.
ToVisit(p) ==
  /\ run[p].pc = "pointers" =>
       \A h \in Installs : ptr[h]["old"] # "none" => <<h, "old">> \in run[p].todo
  /\ run[p].pc \in {"trees", "launchers", "note2", "stamp2"} => NoOldPointers
  /\ run[p].pc = "trees" =>
       /\ \A h \in Installs : tree[h] \in {"old", "stamped"} => <<h, "old">> \in run[p].todo
       /\ run[p].mid # None /\ run[p].mid.at = "written" => tree[run[p].mid.of] # "old"
  /\ run[p].pc \in {"launchers", "note2", "stamp2"} => NoOldTrees
  /\ run[p].pc = "launchers" =>
       \A h \in Local : InstallExists(h) /\ launcher[NameOf[h]] = "legacy" => NameOf[h] \in run[p].todo
  /\ run[p].pc \in {"note2", "stamp2"} => LaunchersMoved
  /\ run[p].pc = "collapse" => (\A h \in Local : tree[h] # "none" => <<h, "new">> \in run[p].todo) \/ Excused
  /\ run[p].pc \in {"absorb", "note3", "stamp3"} => Collapsed

Stamped ==
  /\ schema >= 2 => NoOldPointers /\ NoOldTrees /\ LaunchersMoved
  /\ schema = 3 => Collapsed

Layout ==
  /\ \A p \in Procs : run[p].pc \in Late => schema >= 2
  /\ ~restored => Stamped /\ \A p \in Procs : ToVisit(p)

Middles == \A p \in Procs : Middle(p)
HomeInv == TypeOK /\ Middles /\ RegistrationKept /\ Alone /\ ProvenanceKept /\ Layout

-----------------------------------------------------------------------------
(* What the steps have in common: what a step leaves of the home, and what the  *)
(* process that takes it leaves for itself.                                     *)

Runs == [pc : {"idle"} \cup PassSet, skip : BOOLEAN,
         todo : SUBSET Todos, mid : {None} \cup Mids,
         made : [Names -> Installs \cup {None}],
         quar : SUBSET Items, wrote : BOOLEAN]
RunAfter(p) == run' \in [Procs -> Runs] /\ \A q \in Procs \ {p} : run'[q] = run[q]

HomeTypes ==
  /\ home \in Homes
  /\ schema \in 1..3
  /\ ptr \in [Installs -> [Keys -> Fill]]
  /\ tree \in [Installs -> Places]
  /\ \A s \in {ghost, side, bad, badSide, missing, dropped} : s \subseteq Installs
  /\ launcher \in [Names -> {"none", "legacy", "edited"} \cup Installs]
  /\ held \subseteq Items
  /\ noted \subseteq Items
  /\ faults \in 0..MaxFaults
  /\ restored \in BOOLEAN
  /\ overlap \in BOOLEAN

Pointed(h) == \E k \in Keys : ptr[h][k] # "none"
Full(h) == \E k \in Keys : ptr[h][k] = "full"
TreeHeld(h) == \E i \in held : i.kind = "tree" /\ i.of = h
Registered(h) == \/ Pointed(h)
                 \/ tree[h] # "none"
                 \/ \E i \in held : i.kind \in {"ptr", "tree"} /\ i.of = h

\* Nothing comes back to an older layout.
Shrinks ==
  /\ \A h \in Installs : /\ ptr'[h]["old"] # "none" => ptr[h]["old"] # "none"
                         /\ tree'[h] # "none" => tree[h] # "none"
                         /\ tree'[h] = "old" => tree[h] = "old"
                         /\ tree'[h] = "stamped" => tree[h] \in {"old", "stamped"}
  /\ NoOldPointers /\ NoOldTrees => \A h \in Local : InstallExists(h)' => InstallExists(h)
  /\ \A n \in Names : launcher'[n] = "legacy" => launcher[n] = "legacy"
  /\ Excused => Excused'

PointersStay == \A h \in Installs \ bad : /\ ptr[h]["new"] # "none" => ptr'[h]["new"] # "none"
                                          /\ Pointed(h) => Pointed(h)'
RecordsStay(h) ==
  /\ Full(h) => Full(h)'
  /\ tree[h] # "none" => tree'[h] # "none" \/ Full(h)' \/ TreeHeld(h)'
  /\ h \in side \ side' => Full(h)
  /\ schema = 1 => \A k \in Keys : ptr'[h][k] # "full"

Stays ==
  /\ PointersStay
  /\ held \subseteq held'
  /\ \A h \in Installs : Registered(h) => Registered(h)'
  /\ ~overlap => \A h \in Installs : RecordsStay(h)
  /\ ~restored => Shrinks

Own(p) ==
  /\ Middle(p)'
  /\ run'[p].pc = "idle" \/ (run[p].pc \in Early /\ run'[p].pc \in Early)
                         \/ (run[p].pc \in Late /\ run'[p].pc \in Late)
  /\ ~overlap /\ run'[p].pc \in {"collapse", "absorb"} /\ run'[p].mid # None
       => ptr'[run'[p].mid.of][run'[p].mid.key] = "full"
  /\ ~restored => ToVisit(p)'

SideStep == overlap \/ \A h \in Installs :
  /\ h \in side \ side' => \E k \in Keys : ptr[h][k] = "full"
  /\ (\E k \in Keys : ptr[h][k] = "full") => \E k \in Keys : ptr'[h][k] = "full"

LEMMA Nothing ==
  /\ None \notin Installs /\ "none" \notin Installs /\ "legacy" \notin Installs /\ "edited" \notin Installs
  /\ NameOf \in [Installs -> Names] /\ Local \subseteq Installs /\ MaxFaults \in Nat
  /\ \A s \in Homes : s \subseteq Installs
BY MigrationAssumption

LEMMA Typed == TypeOK <=> HomeTypes /\ run \in [Procs -> Runs]
BY DEF TypeOK, HomeTypes, Runs

LEMMA ThePasses == PassSet = Early \cup Late /\ "idle" \notin PassSet /\ Early \cap Late = {}
<1>1. DOMAIN Passes = 1..9
  BY DEF Passes
<1>2. PassSet = {Passes[1], Passes[2], Passes[3], Passes[4], Passes[5], Passes[6], Passes[7], Passes[8], Passes[9]}
  BY <1>1 DEF PassSet
<1> QED BY <1>2 DEF Passes, Early, Late

LEMMA NextPasses ==
  /\ NextPass("pointers") = "trees" /\ NextPass("trees") = "launchers"
  /\ NextPass("launchers") = "note2" /\ NextPass("note2") = "stamp2"
  /\ NextPass("collapse") = "absorb" /\ NextPass("absorb") = "note3"
  /\ NextPass("note3") = "stamp3"
<1>1. \A i \in 1..9, s \in PassSet : (CHOOSE j \in DOMAIN Passes : Passes[j] = s) = i \/ Passes[i] # s
  <2>1. DOMAIN Passes = 1..9
    BY DEF Passes
  <2>2. \A i, j \in 1..9 : Passes[i] = Passes[j] => i = j
    BY DEF Passes
  <2> QED BY <2>1, <2>2
<1>2. /\ Passes[1] = "pointers" /\ Passes[2] = "trees" /\ Passes[3] = "launchers"
      /\ Passes[4] = "note2" /\ Passes[5] = "stamp2" /\ Passes[6] = "collapse"
      /\ Passes[7] = "absorb" /\ Passes[8] = "note3" /\ Passes[9] = "stamp3"
  BY DEF Passes
<1>3. \A i \in 1..8 : NextPass(Passes[i]) = Passes[1 + i]
  <2> SUFFICES ASSUME NEW i \in 1..8 PROVE NextPass(Passes[i]) = Passes[1 + i]
    OBVIOUS
  <2>1. Passes[i] \in PassSet
    BY <1>2, ThePasses DEF Early, Late
  <2>2. (CHOOSE j \in DOMAIN Passes : Passes[j] = Passes[i]) = i
    BY <1>1, <2>1
  <2> QED BY <2>2 DEF NextPass
<1> QED BY <1>2, <1>3

LEMMA NextKinds ==
  ASSUME NEW s, s \in {"pointers", "trees", "launchers", "note2", "collapse", "absorb", "note3"}
  PROVE  /\ NextPass(s) \in PassSet
         /\ (s \in Early /\ NextPass(s) \in Early) \/ (s \in Late /\ NextPass(s) \in Late)
<1>1. CASE s \in {"pointers", "trees", "launchers", "note2"}
  <2>1. s \in Early /\ NextPass(s) \in Early
    BY <1>1, NextPasses DEF Early
  <2> QED BY <2>1, ThePasses
<1>2. CASE s \in {"collapse", "absorb", "note3"}
  <2>1. s \in Late /\ NextPass(s) \in Late
    BY <1>2, NextPasses DEF Late
  <2> QED BY <2>1, ThePasses
<1> QED BY <1>1, <1>2

LEMMA Listed ==
  ASSUME HomeTypes, NEW pass \in PassSet
  PROVE  Listing(pass) \in SUBSET Todos
BY DEF HomeTypes, Listing, Pointers, Trees, At, Keys, Todos

-----------------------------------------------------------------------------
(* What the steps make of the process.                                          *)

LEMMA OneRun ==
  ASSUME run \in [Procs -> Runs], NEW p \in Procs, NEW r \in Runs, run' = [run EXCEPT ![p] = r]
  PROVE  RunAfter(p) /\ run'[p] = r
BY DEF RunAfter

LEMMA DoneRun ==
  ASSUME run \in [Procs -> Runs], NEW p \in Procs, NEW x, run' = Done(p, x)
  PROVE  /\ RunAfter(p)
         /\ run'[p].pc = run[p].pc /\ run'[p].todo = run[p].todo \ {x} /\ run'[p].mid = None
BY DEF Done, RunAfter, Runs

LEMMA WroteRun ==
  ASSUME run \in [Procs -> Runs], NEW p \in Procs, NEW x, run' = [Done(p, x) EXCEPT ![p].wrote = TRUE]
  PROVE  /\ RunAfter(p)
         /\ run'[p].pc = run[p].pc /\ run'[p].todo = run[p].todo \ {x} /\ run'[p].mid = None
BY DEF Done, RunAfter, Runs

LEMMA RecordedRun ==
  ASSUME run \in [Procs -> Runs], NEW p \in Procs, NEW x, NEW n \in Names, NEW h \in Installs,
         run' = Recorded(p, x, n, h)
  PROVE  /\ RunAfter(p)
         /\ run'[p].pc = run[p].pc /\ run'[p].todo = run[p].todo \ {x} /\ run'[p].mid = None
<1> DEFINE r == [run[p] EXCEPT !.todo = @ \ {x}, !.mid = None, !.wrote = TRUE, !.made[n] = h]
<1>1. run[p] \in Runs
  OBVIOUS
<1>2. r \in Runs /\ r.pc = run[p].pc /\ r.todo = run[p].todo \ {x} /\ r.mid = None
  BY <1>1 DEF Runs
<1>3. run' = [run EXCEPT ![p] = r]
  BY Zenon DEF Recorded
<1> QED BY <1>2, <1>3, OneRun

LEMMA IdleRun ==
  ASSUME run \in [Procs -> Runs], NEW p \in Procs, run' = [run EXCEPT ![p] = Idle]
  PROVE  RunAfter(p) /\ run'[p].pc = "idle" /\ run'[p].mid = None
BY DEF Idle, RunAfter, Runs

LEMMA QuarantineRun ==
  ASSUME run \in [Procs -> Runs], NEW p \in Procs, NEW x, NEW item \in Items,
         run' = [run EXCEPT ![p].todo = @ \ {x}, ![p].mid = None, ![p].quar = @ \cup {item}]
  PROVE  /\ RunAfter(p)
         /\ run'[p].pc = run[p].pc /\ run'[p].todo = run[p].todo \ {x} /\ run'[p].mid = None
<1> DEFINE r == [run[p] EXCEPT !.todo = @ \ {x}, !.mid = None, !.quar = @ \cup {item}]
<1>1. run[p] \in Runs
  OBVIOUS
<1>2. r \in Runs /\ r.pc = run[p].pc /\ r.todo = run[p].todo \ {x} /\ r.mid = None
  BY <1>1 DEF Runs
<1>3. run' = [run EXCEPT ![p] = r]
  BY Zenon
<1> QED BY <1>2, <1>3, OneRun

LEMMA Quarantined ==
  ASSUME run \in [Procs -> Runs], NEW p \in Procs, NEW x, NEW item \in Items,
         run[p].skip, QuarantineOrAbort(p, x, item)
  PROVE  /\ held' = held \cup {item}
         /\ RunAfter(p)
         /\ run'[p].pc = run[p].pc /\ run'[p].todo = run[p].todo \ {x} /\ run'[p].mid = None
<1>1. /\ held' = held \cup {item}
      /\ run' = [run EXCEPT ![p].todo = @ \ {x}, ![p].mid = None, ![p].quar = @ \cup {item}]
  BY Zenon DEF QuarantineOrAbort
<1> QED BY <1>1, QuarantineRun

LEMMA Aborted ==
  ASSUME NEW p \in Procs, NEW x, NEW item, ~run[p].skip, QuarantineOrAbort(p, x, item)
  PROVE  held' = held /\ run' = [run EXCEPT ![p] = Idle]
BY Zenon DEF QuarantineOrAbort, Failed

LEMMA EndingRun ==
  ASSUME run \in [Procs -> Runs], NEW p \in Procs, NEW item \in Items,
         run' = [run EXCEPT ![p].todo = {}, ![p].quar = @ \cup {item}]
  PROVE  RunAfter(p) /\ run'[p].pc = run[p].pc /\ run'[p].mid = run[p].mid
BY DEF RunAfter, Runs

LEMMA MidRun ==
  ASSUME run \in [Procs -> Runs], NEW p \in Procs, NEW m \in Mids, run' = [run EXCEPT ![p].mid = m]
  PROVE  /\ RunAfter(p)
         /\ run'[p].pc = run[p].pc /\ run'[p].todo = run[p].todo /\ run'[p].mid = m
BY DEF RunAfter, Runs

LEMMA WrittenRun ==
  ASSUME run \in [Procs -> Runs], NEW p \in Procs, run[p].mid # None,
         run' = [run EXCEPT ![p].mid.at = "written"]
  PROVE  /\ RunAfter(p)
         /\ run'[p].pc = run[p].pc /\ run'[p].todo = run[p].todo
         /\ run'[p].mid.of = run[p].mid.of /\ run'[p].mid.key = run[p].mid.key /\ run'[p].mid.at = "written"
<1>1. run[p] \in Runs /\ run[p].mid \in Mids
  BY DEF Runs
<1>2. LET m == [run[p].mid EXCEPT !.at = "written"] IN
      m \in Mids /\ m.of = run[p].mid.of /\ m.key = run[p].mid.key /\ m.at = "written"
  BY <1>1 DEF Mids
<1> DEFINE r == [run[p] EXCEPT !.mid = [run[p].mid EXCEPT !.at = "written"]]
<1>3. r \in Runs /\ r.pc = run[p].pc /\ r.todo = run[p].todo /\ r.mid = [run[p].mid EXCEPT !.at = "written"]
  BY <1>1, <1>2 DEF Runs
<1>4. run' = [run EXCEPT ![p] = r]
  BY Zenon
<1>5. RunAfter(p) /\ run'[p] = r
  BY <1>3, <1>4, OneRun
<1> HIDE DEF r
<1> QED BY <1>2, <1>3, <1>5

LEMMA NextRun ==
  ASSUME run \in [Procs -> Runs], NEW p \in Procs, NEW c \in PassSet, run' = [run EXCEPT ![p].pc = c]
  PROVE  RunAfter(p) /\ run'[p].pc = c /\ run'[p].mid = run[p].mid
BY DEF RunAfter, Runs

LEMMA BeginRun ==
  ASSUME HomeTypes, run \in [Procs -> Runs], NEW p \in Procs, NEW r \in Runs, NEW c \in PassSet,
         run' = [run EXCEPT ![p] = Begin(r, c)]
  PROVE  RunAfter(p) /\ run'[p].pc = c /\ run'[p].todo = Listing(c) /\ run'[p].mid = r.mid
BY Listed DEF Begin, RunAfter, Runs

-----------------------------------------------------------------------------
(* A step that leaves the home what Stays says, and its own process what Own    *)
(* says, keeps the invariant.                                                   *)

LEMMA OthersMiddle ==
  ASSUME NEW q \in Procs, run \in [Procs -> Runs], Middle(q), run'[q] = run[q], bad' \subseteq bad, PointersStay
  PROVE  Middle(q)'
<1> SUFFICES ASSUME run[q].mid # None PROVE Middle(q)'
  BY DEF Middle
<1>1. run[q].mid \in Mids /\ run[q].mid.of \in Installs \ bad
  BY DEF Runs, Middle, Mids
<1>2. Pointed(run[q].mid.of) => Pointed(run[q].mid.of)'
  BY <1>1 DEF PointersStay
<1>3. ptr[run[q].mid.of]["new"] # "none" => ptr'[run[q].mid.of]["new"] # "none"
  BY <1>1 DEF PointersStay
<1>4. Pointed(run[q].mid.of)' => ptr'[run[q].mid.of]["old"] # "none" \/ ptr'[run[q].mid.of]["new"] # "none"
  BY DEF Pointed, Keys
<1>5. run[q].pc \in {"pointers", "collapse"} => Pointed(run[q].mid.of)
  BY DEF Middle, Pointed, Keys
<1> QED BY <1>1, <1>2, <1>3, <1>4, <1>5 DEF Middle, Pointed

LEMMA OthersVisit ==
  ASSUME HomeTypes, NEW q \in Procs, run \in [Procs -> Runs], run'[q] = run[q], Shrinks, ToVisit(q)
  PROVE  ToVisit(q)'
<1>1. NoOldPointers => NoOldPointers'
  BY DEF Shrinks, NoOldPointers
<1>2. NoOldTrees => NoOldTrees'
  BY DEF Shrinks, NoOldTrees
<1>3. \A h \in Installs : h \in Local /\ NoOldPointers /\ NoOldTrees /\ InstallExists(h)' /\ launcher'[NameOf[h]] = "legacy"
        => InstallExists(h) /\ launcher[NameOf[h]] = "legacy"
  BY Nothing DEF Shrinks
<1>4. Collapsed => Collapsed'
  BY Nothing DEF Shrinks, Collapsed
<1>5. run[q].pc \in {"launchers", "note2", "stamp2"} => NoOldPointers /\ NoOldTrees
  BY DEF ToVisit
<1>6. run[q].pc = "pointers" => \A h \in Installs : ptr'[h]["old"] # "none" => <<h, "old">> \in run[q].todo
  BY DEF ToVisit, Shrinks
<1>7. run[q].pc = "trees" =>
        /\ \A h \in Installs : tree'[h] \in {"old", "stamped"} => <<h, "old">> \in run[q].todo
        /\ run[q].mid # None /\ run[q].mid.at = "written" => tree'[run[q].mid.of] # "old"
  <2>1. run[q].mid # None => run[q].mid.of \in Installs
    BY DEF Runs, Mids
  <2> QED BY <2>1 DEF ToVisit, Shrinks
<1>8. run[q].pc = "launchers" =>
        \A h \in Local : InstallExists(h)' /\ launcher'[NameOf[h]] = "legacy" => NameOf[h] \in run[q].todo
  BY <1>3, <1>5, Nothing DEF ToVisit
<1>9. run[q].pc \in {"note2", "stamp2"} => LaunchersMoved'
  BY <1>3, <1>5, Nothing DEF ToVisit, LaunchersMoved
<1>10. run[q].pc = "collapse" =>
         (\A h \in Local : tree'[h] # "none" => <<h, "new">> \in run[q].todo) \/ Excused'
  BY Nothing DEF ToVisit, Shrinks
<1> QED BY <1>1, <1>2, <1>4, <1>5, <1>6, <1>7, <1>8, <1>9, <1>10 DEF ToVisit

LEMMA StampKept ==
  ASSUME Shrinks, Stamped, schema' = schema
  PROVE  Stamped'
<1>1. NoOldPointers => NoOldPointers'
  BY DEF Shrinks, NoOldPointers
<1>2. NoOldTrees => NoOldTrees'
  BY DEF Shrinks, NoOldTrees
<1>3. NoOldPointers /\ NoOldTrees /\ LaunchersMoved => LaunchersMoved'
  BY Nothing DEF Shrinks, LaunchersMoved
<1>4. Collapsed => Collapsed'
  BY Nothing DEF Shrinks, Collapsed
<1> QED BY <1>1, <1>2, <1>3, <1>4 DEF Stamped

LEMMA StepKeeps ==
  ASSUME HomeInv, NEW p \in Procs, run[p].pc # "idle", RunAfter(p), HomeTypes',
         UNCHANGED <<home, schema, bad, restored, dropped, overlap>>, Stays, Own(p)
  PROVE  HomeInv' /\ SideStep
<1>1. HomeTypes /\ run \in [Procs -> Runs]
  BY Typed DEF HomeInv
<1>2. TypeOK'
  BY Typed DEF RunAfter, TypeOK, HomeTypes, Runs
<1>3. \A q \in Procs \ {p} : run'[q] = run[q]
  BY DEF RunAfter
<1>4. Middles'
  <2>1. \A q \in Procs \ {p} : Middle(q)'
    BY <1>1, <1>3, OthersMiddle DEF HomeInv, Middles, Stays
  <2> QED BY <2>1 DEF Middles, Own
<1>5. RegistrationKept'
  <2>1. \A h \in home \ dropped : Registered(h)
    BY DEF HomeInv, RegistrationKept, Registered, Pointed
  <2>2. \A h \in home \ dropped : Registered(h)'
    BY <1>1, <2>1, Nothing DEF Stays, HomeTypes
  <2> QED BY <2>2 DEF RegistrationKept, Registered, Pointed
<1>6. Alone'
  <2> SUFFICES ASSUME ~overlap PROVE Alone'
    BY DEF Alone
  <2>1. \A q \in Procs \ {p} : run[q].pc = "idle" /\ run'[q].pc = "idle"
    BY <1>3 DEF HomeInv, Alone
  <2>2. \A q \in Procs : run'[q].pc \in Early => schema = 1
    BY <2>1, ThePasses DEF HomeInv, Alone, Own, Early, Late
  <2>3. schema = 1 => \A h \in Installs, k \in Keys : ptr'[h][k] # "full"
    BY DEF Stays, RecordsStay
  <2>4. \A q \in Procs : run'[q].pc \in {"collapse", "absorb"} /\ run'[q].mid # None
          => ptr'[run'[q].mid.of][run'[q].mid.key] = "full"
    BY <2>1 DEF Own
  <2> QED BY <2>1, <2>2, <2>3, <2>4 DEF Alone
<1>7. ProvenanceKept'
  <2> SUFFICES ASSUME ~overlap, NEW h \in (home \cap TreeShaped) \ dropped
               PROVE  (Full(h) \/ tree[h] # "none" \/ TreeHeld(h))'
    BY DEF ProvenanceKept, Full, TreeHeld
  <2>1. Full(h) \/ tree[h] # "none" \/ TreeHeld(h)
    BY DEF HomeInv, ProvenanceKept, Full, TreeHeld
  <2>2. RecordsStay(h)
    BY <1>1, Nothing DEF Stays, HomeTypes
  <2>3. TreeHeld(h) => TreeHeld(h)'
    BY DEF Stays, TreeHeld
  <2> QED BY <2>1, <2>2, <2>3 DEF RecordsStay
<1>8. Layout'
  <2>1. \A q \in Procs : run'[q].pc \in Late => schema >= 2
    BY <1>3, ThePasses DEF Own, HomeInv, Layout, Early, Late
  <2>2. ASSUME ~restored PROVE Stamped' /\ \A q \in Procs : ToVisit(q)'
    <3>1. Shrinks /\ ToVisit(p)'
      BY <2>2 DEF Stays, Own
    <3>2. \A q \in Procs \ {p} : ToVisit(q)'
      BY <1>1, <1>3, <2>2, <3>1, OthersVisit DEF HomeInv, Layout
    <3>3. Stamped'
      BY <2>2, <3>1, StampKept DEF HomeInv, Layout
    <3> QED BY <3>1, <3>2, <3>3
  <2> QED BY <2>1, <2>2 DEF Layout
<1>9. SideStep
  BY DEF Stays, RecordsStay, Full, SideStep
<1> QED BY <1>2, <1>4, <1>5, <1>6, <1>7, <1>8, <1>9 DEF HomeInv

\* A step that changes nothing of the installs, or only the manifest.
LEMMA SameStays ==
  ASSUME HomeInv, UNCHANGED <<ptr, tree, launcher, held, side, dropped>>
  PROVE  Stays
<1>1. PointersStay
  BY DEF PointersStay, Pointed
<1>2. \A h \in Installs : Registered(h) => Registered(h)'
  BY DEF Registered, Pointed
<1>3. ~overlap => \A h \in Installs : RecordsStay(h)
  BY DEF RecordsStay, Full, TreeHeld, HomeInv, Alone
<1>4. Shrinks
  BY DEF Shrinks, Excused, InstallExists
<1> QED BY <1>1, <1>2, <1>3, <1>4 DEF Stays

LEMMA Ends ==
  ASSUME HomeInv, NEW p \in Procs, run[p].pc # "idle", run' = [run EXCEPT ![p] = Idle],
         HomeUnchanged, UNCHANGED <<home, restored, dropped, overlap>>, faults' \in 0..MaxFaults
  PROVE  HomeInv' /\ SideStep
<1>1. HomeTypes /\ run \in [Procs -> Runs]
  BY Typed DEF HomeInv
<1>2. RunAfter(p) /\ run'[p].pc = "idle" /\ run'[p].mid = None
  BY <1>1, IdleRun
<1>3. HomeTypes'
  BY <1>1 DEF HomeTypes, HomeUnchanged
<1>4. Own(p)
  BY <1>2 DEF Own, Middle, ToVisit
<1>5. Stays
  BY SameStays DEF HomeUnchanged
<1> QED BY <1>2, <1>3, <1>4, <1>5, StepKeeps DEF HomeUnchanged

LEMMA Goes ==
  ASSUME HomeInv, NEW p \in Procs, run[p].pc # "idle", RunAfter(p), HomeUnchanged, HistoryUnchanged, Own(p)
  PROVE  HomeInv' /\ SideStep
<1>1. HomeTypes'
  BY Typed DEF HomeInv, HomeTypes, HomeUnchanged, HistoryUnchanged
<1>2. Stays
  BY SameStays DEF HomeUnchanged, HistoryUnchanged
<1> QED BY <1>1, <1>2, StepKeeps DEF HomeUnchanged, HistoryUnchanged

\* What the invariant says of the process that takes the step.
LEMMA Mine ==
  ASSUME HomeInv, NEW p \in Procs
  PROVE  /\ HomeTypes /\ run \in [Procs -> Runs] /\ run[p] \in Runs /\ Middle(p)
         /\ run[p].mid # None => run[p].mid \in Mids /\ run[p].mid.of \in Installs /\ run[p].mid.key \in Keys
         /\ ~restored => Stamped /\ ToVisit(p)
         /\ run[p].pc \in Late => schema >= 2
         /\ ~overlap /\ run[p].pc \in Early => schema = 1 /\ \A h \in Installs, k \in Keys : ptr[h][k] # "full"
BY Typed DEF HomeInv, Middles, Layout, Alone, Runs, Mids

-----------------------------------------------------------------------------
(* The passes.                                                                  *)

LEMMA PassDoneKeeps ==
  ASSUME HomeInv, NEW p \in Procs, PassDone(p)
  PROVE  HomeInv' /\ SideStep
<1> DEFINE c == NextPass(run[p].pc)
<1>1. HomeTypes /\ run \in [Procs -> Runs] /\ run[p] \in Runs
  BY Mine
<1>2. /\ run[p].pc \in {"pointers", "trees", "launchers", "collapse", "absorb"}
      /\ run[p].todo = {} /\ run[p].mid = None
      /\ run' = [run EXCEPT ![p] = Begin(run[p], c)]
      /\ HomeUnchanged /\ HistoryUnchanged
  BY DEF PassDone
<1>3. c \in PassSet /\ ((run[p].pc \in Early /\ c \in Early) \/ (run[p].pc \in Late /\ c \in Late))
  BY <1>2, NextKinds
<1>4. RunAfter(p) /\ run'[p].pc = c /\ run'[p].todo = Listing(c) /\ run'[p].mid = None
  BY <1>1, <1>2, <1>3, BeginRun
<1>5. HomeUnchanged
  BY <1>2
<1>6. ASSUME ~restored PROVE ToVisit(p)'
  <2>1. ToVisit(p)
    BY <1>6, Mine
  <2>2. CASE run[p].pc = "pointers"
    <3>1. NoOldPointers
      BY <1>2, <2>1, <2>2 DEF ToVisit, NoOldPointers
    <3>2. \A h \in Installs : tree[h] \in {"old", "stamped"} => <<h, "old">> \in Listing("trees")
      BY DEF Listing, Trees, At
    <3> QED BY <1>4, <1>5, <2>2, <3>1, <3>2, NextPasses DEF ToVisit, NoOldPointers, HomeUnchanged
  <2>3. CASE run[p].pc = "trees"
    <3>1. NoOldPointers /\ NoOldTrees
      BY <1>2, <2>1, <2>3 DEF ToVisit, NoOldTrees
    <3>2. \A h \in Local : launcher[NameOf[h]] = "legacy" => NameOf[h] \in Listing("launchers")
      BY Nothing DEF Listing
    <3> QED BY <1>4, <1>5, <2>3, <3>1, <3>2, NextPasses DEF ToVisit, NoOldPointers, NoOldTrees, InstallExists, HomeUnchanged
  <2>4. CASE run[p].pc = "launchers"
    <3>1. NoOldPointers /\ NoOldTrees /\ LaunchersMoved
      BY <1>2, <2>1, <2>4 DEF ToVisit, LaunchersMoved
    <3> QED BY <1>4, <1>5, <2>4, <3>1, NextPasses
            DEF ToVisit, NoOldPointers, NoOldTrees, LaunchersMoved, InstallExists, HomeUnchanged
  <2>5. CASE run[p].pc = "collapse"
    <3>1. Collapsed
      BY <1>2, <2>1, <2>5 DEF ToVisit, Collapsed
    <3>2. Collapsed'
      BY <3>1, <1>5, <1>2 DEF Collapsed, Excused, HomeUnchanged, HistoryUnchanged
    <3> QED BY <1>4, <2>5, <3>2, NextPasses DEF ToVisit
  <2>6. CASE run[p].pc = "absorb"
    <3>1. Collapsed'
      BY <1>2, <2>1, <2>6 DEF ToVisit, Collapsed, Excused, HomeUnchanged, HistoryUnchanged
    <3> QED BY <1>4, <2>6, <3>1, NextPasses DEF ToVisit
  <2> QED BY <1>2, <2>2, <2>3, <2>4, <2>5, <2>6
<1>7. Own(p)
  BY <1>3, <1>4, <1>6 DEF Own, Middle
<1> HIDE DEF c
<1> QED BY <1>2, <1>4, <1>7, Goes

LEMMA WriteManifestKeeps ==
  ASSUME HomeInv, NEW p \in Procs, WriteManifest(p)
  PROVE  HomeInv' /\ SideStep
<1> DEFINE c == NextPass(run[p].pc)
<1>1. HomeTypes /\ run \in [Procs -> Runs] /\ run[p] \in Runs
  BY Mine
<1>2. /\ run[p].pc \in {"note2", "note3"}
      /\ run' = [run EXCEPT ![p].pc = c]
      /\ UNCHANGED <<schema, ptr, tree, ghost, side, bad, badSide, missing, launcher, held>>
      /\ HistoryUnchanged
  BY DEF WriteManifest
<1>3. c \in PassSet /\ ((run[p].pc \in Early /\ c \in Early) \/ (run[p].pc \in Late /\ c \in Late))
  BY <1>2, NextKinds
<1>4. RunAfter(p) /\ run'[p].pc = c /\ run'[p].mid = run[p].mid
  BY <1>1, <1>2, <1>3, NextRun
<1>5. run[p].mid = None
  BY <1>2, Mine DEF Middle
<1>6. ASSUME ~restored PROVE ToVisit(p)'
  <2>1. ToVisit(p)
    BY <1>6, Mine
  <2>2. CASE run[p].pc = "note2"
    BY <1>2, <1>4, <2>1, <2>2, NextPasses DEF ToVisit, NoOldPointers, NoOldTrees, LaunchersMoved, InstallExists
  <2>3. CASE run[p].pc = "note3"
    BY <1>2, <1>4, <2>1, <2>3, NextPasses DEF ToVisit, Collapsed, Excused, HistoryUnchanged
  <2> QED BY <1>2, <2>2, <2>3
<1>7. Own(p)
  BY <1>3, <1>4, <1>5, <1>6 DEF Own, Middle
<1>8. noted' \subseteq Items
  BY <1>1 DEF WriteManifest, HomeTypes, Runs
<1>9. HomeTypes'
  BY <1>1, <1>2, <1>8 DEF HomeTypes, HistoryUnchanged
<1>10. Stays
  BY <1>2, SameStays DEF HistoryUnchanged
<1> HIDE DEF c
<1> QED BY <1>2, <1>4, <1>7, <1>9, <1>10, StepKeeps DEF HistoryUnchanged

LEMMA WriteSchemaVersionKeeps ==
  ASSUME HomeInv, NEW p \in Procs, WriteSchemaVersion(p)
  PROVE  HomeInv' /\ SideStep
<1> DEFINE r == [Idle EXCEPT !.skip = run[p].skip]
<1>1. HomeTypes /\ run \in [Procs -> Runs] /\ run[p] \in Runs
  BY Mine
<1>2. /\ UNCHANGED <<ptr, tree, ghost, side, bad, badSide, missing, launcher, held, noted>>
      /\ HistoryUnchanged
  BY DEF WriteSchemaVersion
<1>3. run[p].pc = "stamp2" \/ run[p].pc = "stamp3"
  BY DEF WriteSchemaVersion
<1>4. /\ run[p].pc = "stamp2" => schema' = 2 /\ run' = [run EXCEPT ![p] = Begin(r, "collapse")]
      /\ run[p].pc = "stamp3" => schema' = 3 /\ run' = [run EXCEPT ![p] = Idle]
  BY DEF WriteSchemaVersion
<1>5. r \in Runs /\ r.mid = None
  BY <1>1 DEF Idle, Runs
<1> HIDE DEF r
<1>6. /\ RunAfter(p) /\ run'[p].mid = None
      /\ run[p].pc = "stamp2" => run'[p].pc = "collapse" /\ run'[p].todo = Listing("collapse")
      /\ run[p].pc = "stamp3" => run'[p].pc = "idle"
  <2>1. CASE run[p].pc = "stamp2"
    <3>1. "collapse" \in PassSet
      BY ThePasses DEF Late
    <3> QED BY <1>1, <1>4, <1>5, <2>1, <3>1, BeginRun
  <2>2. CASE run[p].pc = "stamp3"
    BY <1>1, <1>4, <2>2, IdleRun
  <2> QED BY <1>3, <2>1, <2>2
<1>7. \A q \in Procs \ {p} : run'[q] = run[q]
  BY <1>6 DEF RunAfter
<1>8. TypeOK'
  <2>1. HomeTypes'
    BY <1>1, <1>2, <1>3, <1>4 DEF HomeTypes, HistoryUnchanged
  <2> QED BY <1>6, <2>1, Typed DEF RunAfter, TypeOK, HomeTypes, Runs
<1>9. Stays
  BY <1>2, SameStays DEF HistoryUnchanged
<1>10. Middles'
  <2>1. \A q \in Procs \ {p} : Middle(q)'
    BY <1>1, <1>2, <1>7, <1>9, OthersMiddle DEF HomeInv, Middles, Stays
  <2> QED BY <1>6, <2>1 DEF Middles, Middle
<1>11. RegistrationKept' /\ ProvenanceKept'
  BY <1>2 DEF HomeInv, RegistrationKept, ProvenanceKept, HistoryUnchanged
<1>12. Alone'
  <2> SUFFICES ASSUME ~overlap PROVE Alone'
    BY <1>2 DEF Alone, HistoryUnchanged
  <2>1. \A q \in Procs \ {p} : run'[q].pc = "idle"
    BY <1>3, <1>7 DEF HomeInv, Alone
  <2>2. run'[p].pc \notin Early /\ "idle" \notin Early
    BY <1>3, <1>6 DEF Early
  <2> QED BY <1>3, <1>4, <1>6, <2>1, <2>2 DEF Alone
<1>13. Layout'
  <2>1. \A q \in Procs : run'[q].pc \in Late => schema' >= 2
    BY <1>3, <1>4
  <2>2. ASSUME ~restored PROVE Stamped' /\ \A q \in Procs : ToVisit(q)'
    <3>1. NoOldPointers /\ NoOldTrees /\ LaunchersMoved /\ (run[p].pc = "stamp3" => Collapsed)
      BY <1>3, <2>2, Mine DEF ToVisit, Stamped, Late
    <3>2. Stamped'
      BY <1>2, <1>3, <1>4, <3>1
         DEF Stamped, NoOldPointers, NoOldTrees, LaunchersMoved, Collapsed, Excused, InstallExists, HistoryUnchanged
    <3>3. \A q \in Procs \ {p} : ToVisit(q)'
      BY <1>1, <1>7, <1>9, <2>2, OthersVisit DEF Stays, HomeInv, Layout
    <3>4. ToVisit(p)'
      <4>1. \A h \in Local : tree[h] # "none" => <<h, "new">> \in Listing("collapse")
        BY <1>1, <3>1, Nothing DEF Listing, Trees, At, NoOldTrees, HomeTypes, Places
      <4> QED BY <1>2, <1>3, <1>6, <4>1 DEF ToVisit
    <3> QED BY <3>2, <3>3, <3>4
  <2> QED BY <1>2, <2>1, <2>2 DEF Layout, HistoryUnchanged
<1>14. SideStep
  BY <1>2 DEF SideStep
<1> QED BY <1>8, <1>10, <1>11, <1>12, <1>13, <1>14 DEF HomeInv

LEMMA PointerEntryKeeps ==
  ASSUME HomeInv, NEW p \in Procs, NEW h \in Installs, NEW k \in Keys, PointerEntry(p, <<h, k>>)
  PROVE  HomeInv' /\ SideStep
<1> DEFINE x == <<h, k>>
<1>1. /\ HomeTypes /\ run \in [Procs -> Runs] /\ run[p] \in Runs
      /\ ~overlap => schema = 1 /\ \A g \in Installs, j \in Keys : ptr[g][j] # "full"
      /\ ~restored => ToVisit(p)
  BY Mine DEF PointerEntry, Early
<1>2. /\ run[p].pc = "pointers" /\ run[p].mid = None
      /\ UNCHANGED <<schema, tree, ghost, side, bad, badSide, missing, launcher, noted>>
      /\ HistoryUnchanged
  BY DEF PointerEntry
<1>3. ASSUME ptr[h][k] = "none", run' = Failed(p), UNCHANGED <<ptr, held>>
      PROVE  HomeInv' /\ SideStep
  BY <1>1, <1>2, <1>3, Ends DEF Failed, HomeUnchanged, HistoryUnchanged, HomeTypes
<1>4. ASSUME ptr[h][k] # "none", h \in bad, QuarantineOrAbort(p, x, Item("ptr", h, k)),
             ptr' = [ptr EXCEPT ![h][k] = IF run[p].skip THEN "none" ELSE @]
      PROVE  HomeInv' /\ SideStep
  <2>1. CASE ~run[p].skip
    <3>1. ptr' = ptr
      BY <1>1, <1>4, <2>1 DEF HomeTypes
    <3> QED BY <1>1, <1>2, <1>4, <2>1, <3>1, Ends DEF QuarantineOrAbort, Failed, HomeUnchanged, HistoryUnchanged, HomeTypes
  <2>2. CASE run[p].skip
    <3>1. Item("ptr", h, k) \in Items /\ Item("ptr", h, k).kind = "ptr" /\ Item("ptr", h, k).of = h
      BY DEF Item, Items
    <3>2. /\ held' = held \cup {Item("ptr", h, k)}
          /\ RunAfter(p) /\ run'[p].pc = "pointers" /\ run'[p].todo = run[p].todo \ {x} /\ run'[p].mid = None
      BY <1>1, <1>2, <1>4, <2>2, <3>1, Quarantined
    <3>3. /\ ptr' \in [Installs -> [Keys -> Fill]]
          /\ ptr'[h][k] = "none"
          /\ \A g \in Installs, j \in Keys : g # h \/ j # k => ptr'[g][j] = ptr[g][j]
      BY <1>1, <1>4, <2>2 DEF HomeTypes, Fill
    <3>4. HomeTypes'
      BY <1>1, <1>2, <3>1, <3>2, <3>3 DEF HomeTypes, HistoryUnchanged
    <3>5. PointersStay
      BY <1>4, <3>3 DEF PointersStay, Pointed, Keys
    <3>6. \A g \in Installs : Registered(g) => Registered(g)'
      BY <1>2, <3>1, <3>2, <3>3 DEF Registered, Pointed
    <3>7. ~overlap => \A g \in Installs : RecordsStay(g)
      BY <1>1, <1>2, <3>2, <3>3 DEF RecordsStay, Full
    <3>8. Shrinks
      <4>1. \A g \in Installs, j \in Keys : ptr'[g][j] # "none" => ptr[g][j] # "none"
        BY <3>3
      <4>2. \A g \in Installs : ptr'[g]["old"] # "none" => ptr[g]["old"] # "none"
        BY <4>1 DEF Keys
      <4>3. \A g \in Local : InstallExists(g)' => InstallExists(g)
        BY <1>2, <4>1, Nothing DEF InstallExists, Keys
      <4>4. Excused => Excused'
        BY <1>2, <3>2 DEF Excused, HistoryUnchanged
      <4> QED BY <1>2, <4>2, <4>3, <4>4 DEF Shrinks
    <3>9. Stays
      BY <3>2, <3>5, <3>6, <3>7, <3>8 DEF Stays
    <3>10. ~restored => ToVisit(p)'
      BY <1>1, <1>2, <3>2, <3>3 DEF ToVisit, Keys
    <3>11. Own(p)
      BY <1>2, <3>2, <3>10 DEF Own, Middle, Early
    <3> QED BY <1>2, <3>2, <3>4, <3>9, <3>11, StepKeeps DEF HistoryUnchanged
  <2> QED BY <2>1, <2>2
<1>5. ASSUME ptr[h][k] # "none", h \notin bad, k = "new", run' = Done(p, x), UNCHANGED <<ptr, held>>
      PROVE  HomeInv' /\ SideStep
  <2>1. RunAfter(p) /\ run'[p].pc = "pointers" /\ run'[p].todo = run[p].todo \ {x} /\ run'[p].mid = None
    BY <1>1, <1>2, <1>5, DoneRun
  <2>2. ~restored => ToVisit(p)'
    BY <1>1, <1>2, <1>5, <2>1 DEF ToVisit
  <2>3. Own(p)
    BY <1>2, <2>1, <2>2 DEF Own, Middle, Early
  <2> QED BY <1>2, <1>5, <2>1, <2>3, Goes DEF HomeUnchanged
<1>6. ASSUME ptr[h][k] # "none", h \notin bad, k # "new", UNCHANGED <<ptr, held>>,
             run' = [run EXCEPT ![p].mid = [of |-> h, key |-> k, at |-> "loaded"]]
      PROVE  HomeInv' /\ SideStep
  <2>1. [of |-> h, key |-> k, at |-> "loaded"] \in Mids
    BY DEF Mids
  <2>2. /\ RunAfter(p) /\ run'[p].pc = "pointers" /\ run'[p].todo = run[p].todo
        /\ run'[p].mid = [of |-> h, key |-> k, at |-> "loaded"]
    BY <1>1, <1>2, <1>6, <2>1, MidRun
  <2>3. ~restored => ToVisit(p)'
    BY <1>1, <1>2, <1>6, <2>2 DEF ToVisit
  <2>4. Middle(p)'
    BY <1>2, <1>6, <2>2 DEF Middle, Keys
  <2>5. Own(p)
    BY <1>2, <2>2, <2>3, <2>4 DEF Own, Early
  <2> QED BY <1>2, <1>6, <2>2, <2>5, Goes DEF HomeUnchanged
<1> QED BY <1>3, <1>4, <1>5, <1>6 DEF PointerEntry

LEMMA WritePointerKeeps ==
  ASSUME HomeInv, NEW p \in Procs, WritePointer(p)
  PROVE  HomeInv' /\ SideStep
<1> DEFINE h == run[p].mid.of
<1>1. /\ run[p].pc = "pointers" /\ run[p].mid # None /\ run[p].mid.at = "loaded"
      /\ ptr' = [ptr EXCEPT ![h]["new"] = "thin"]
      /\ run' = [run EXCEPT ![p].mid.at = "written"]
      /\ UNCHANGED <<schema, tree, ghost, side, bad, badSide, missing, launcher, held, noted>>
      /\ HistoryUnchanged
  BY DEF WritePointer
<1>2. /\ HomeTypes /\ run \in [Procs -> Runs] /\ run[p] \in Runs /\ Middle(p) /\ h \in Installs
      /\ ~overlap => schema = 1 /\ \A g \in Installs, j \in Keys : ptr[g][j] # "full"
      /\ ~restored => ToVisit(p)
  BY <1>1, Mine DEF Early
<1>3. /\ RunAfter(p) /\ run'[p].pc = "pointers" /\ run'[p].todo = run[p].todo
      /\ run'[p].mid.of = h /\ run'[p].mid.key = run[p].mid.key /\ run'[p].mid.at = "written"
  BY <1>1, <1>2, WrittenRun
<1>4. h \notin bad /\ run[p].mid.key = "old" /\ (ptr[h]["old"] # "none" \/ ptr[h]["new"] # "none")
  BY <1>1, <1>2 DEF Middle
<1> HIDE DEF h
<1>5. /\ ptr' \in [Installs -> [Keys -> Fill]]
      /\ ptr'[h]["new"] = "thin"
      /\ \A g \in Installs, j \in Keys : g # h \/ j # "new" => ptr'[g][j] = ptr[g][j]
  BY <1>1, <1>2 DEF HomeTypes, Fill, Keys
<1>6. HomeTypes'
  BY <1>1, <1>2, <1>5 DEF HomeTypes, HistoryUnchanged
<1>7. \A g \in Installs, j \in Keys : ptr[g][j] # "none" => ptr'[g][j] # "none"
  BY <1>5
<1>8. PointersStay
  BY <1>7 DEF PointersStay, Pointed, Keys
<1>9. \A g \in Installs : Registered(g) => Registered(g)'
  BY <1>1, <1>7 DEF Registered, Pointed
<1>10. ~overlap => \A g \in Installs : RecordsStay(g)
  BY <1>1, <1>2, <1>5 DEF RecordsStay, Full
<1>11. Shrinks
  <2>1. \A g \in Installs : ptr'[g]["old"] = ptr[g]["old"]
    BY <1>5 DEF Keys
  <2>2. NoOldPointers => \A g \in Installs : ptr'[g]["new"] # "none" => ptr[g]["new"] # "none"
    BY <1>4, <1>5 DEF NoOldPointers, Keys
  <2>3. NoOldPointers => \A g \in Local : InstallExists(g)' => InstallExists(g)
    BY <1>1, <2>2, Nothing DEF InstallExists
  <2>4. Excused => Excused'
    BY <1>1 DEF Excused, HistoryUnchanged
  <2> QED BY <1>1, <2>1, <2>3, <2>4 DEF Shrinks
<1>12. Stays
  BY <1>1, <1>8, <1>9, <1>10, <1>11 DEF Stays
<1>13. ~restored => ToVisit(p)'
  BY <1>1, <1>2, <1>3, <1>5 DEF ToVisit, Keys
<1>14. Middle(p)'
  BY <1>1, <1>3, <1>4, <1>5 DEF Middle
<1>15. Own(p)
  BY <1>1, <1>3, <1>13, <1>14 DEF Own, Early
<1> QED BY <1>1, <1>3, <1>6, <1>12, <1>15, StepKeeps DEF HistoryUnchanged

LEMMA RemoveOldPointerKeeps ==
  ASSUME HomeInv, NEW p \in Procs, RemoveOldPointer(p)
  PROVE  HomeInv' /\ SideStep
<1> DEFINE h == run[p].mid.of
<1>1. /\ run[p].pc = "pointers" /\ run[p].mid # None /\ run[p].mid.at = "written"
      /\ ptr' = [ptr EXCEPT ![h]["old"] = "none"]
      /\ run' = Recorded(p, <<h, run[p].mid.key>>, NameOf[h], h)
      /\ UNCHANGED <<schema, tree, ghost, side, bad, badSide, missing, launcher, held, noted>>
      /\ HistoryUnchanged
  BY DEF RemoveOldPointer
<1>2. /\ HomeTypes /\ run \in [Procs -> Runs] /\ run[p] \in Runs /\ Middle(p) /\ h \in Installs
      /\ ~overlap => schema = 1 /\ \A g \in Installs, j \in Keys : ptr[g][j] # "full"
      /\ ~restored => ToVisit(p)
  BY <1>1, Mine DEF Early
<1>3. h \notin bad /\ run[p].mid.key = "old" /\ ptr[h]["new"] # "none"
  BY <1>1, <1>2 DEF Middle
<1>4. RunAfter(p) /\ run'[p].pc = "pointers" /\ run'[p].todo = run[p].todo \ {<<h, "old">>} /\ run'[p].mid = None
  BY <1>1, <1>2, <1>3, Nothing, RecordedRun
<1> HIDE DEF h
<1>5. /\ ptr' \in [Installs -> [Keys -> Fill]]
      /\ ptr'[h]["old"] = "none" /\ ptr'[h]["new"] # "none"
      /\ \A g \in Installs, j \in Keys : g # h \/ j # "old" => ptr'[g][j] = ptr[g][j]
  BY <1>1, <1>2, <1>3 DEF HomeTypes, Fill, Keys
<1>6. HomeTypes'
  BY <1>1, <1>2, <1>5 DEF HomeTypes, HistoryUnchanged
<1>7. PointersStay /\ \A g \in Installs : Pointed(g) => Pointed(g)'
  BY <1>5 DEF PointersStay, Pointed, Keys
<1>8. \A g \in Installs : Registered(g) => Registered(g)'
  BY <1>1, <1>7 DEF Registered
<1>9. ~overlap => \A g \in Installs : RecordsStay(g)
  BY <1>1, <1>2, <1>5 DEF RecordsStay, Full
<1>10. Shrinks
  <2>1. \A g \in Installs, j \in Keys : ptr'[g][j] # "none" => ptr[g][j] # "none"
    BY <1>5
  <2>2. \A g \in Local : InstallExists(g)' => InstallExists(g)
    BY <1>1, <2>1, Nothing DEF InstallExists, Keys
  <2>3. Excused => Excused'
    BY <1>1 DEF Excused, HistoryUnchanged
  <2> QED BY <1>1, <2>1, <2>2, <2>3 DEF Shrinks, Keys
<1>11. Stays
  BY <1>1, <1>7, <1>8, <1>9, <1>10 DEF Stays
<1>12. ~restored => ToVisit(p)'
  BY <1>1, <1>2, <1>4, <1>5 DEF ToVisit, Keys
<1>13. Own(p)
  BY <1>1, <1>4, <1>12 DEF Own, Middle, Early
<1> QED BY <1>1, <1>4, <1>6, <1>11, <1>13, StepKeeps DEF HistoryUnchanged

\* A tree that is quarantined is in the quarantine.
LEMMA TreeGoes ==
  ASSUME HomeInv, NEW h \in Installs, NEW k \in Keys,
         tree[h] # "none", At(h) = k, tree' = [tree EXCEPT ![h] = "none"],
         held' = held \cup {Item("tree", h, k)}, HistoryUnchanged,
         UNCHANGED <<schema, ptr, ghost, side, bad, badSide, missing, launcher, noted>>
  PROVE  HomeTypes' /\ Stays /\ TreeHeld(h)' /\ (k = "new" => Excused')
<1>1. HomeTypes /\ (~overlap /\ schema = 1 => \A g \in Installs, j \in Keys : ptr[g][j] # "full")
  BY Typed DEF HomeInv, Alone
<1>2. Item("tree", h, k) \in Items /\ Item("tree", h, k).kind = "tree" /\ Item("tree", h, k).of = h
      /\ Item("tree", h, k).form = k
  BY DEF Item, Items
<1>3. /\ tree' \in [Installs -> Places] /\ tree'[h] = "none"
      /\ \A g \in Installs \ {h} : tree'[g] = tree[g]
  BY <1>1 DEF HomeTypes, Places
<1>4. HomeTypes'
  BY <1>1, <1>2, <1>3 DEF HomeTypes, HistoryUnchanged
<1>5. PointersStay
  BY DEF PointersStay, Pointed
<1>6. TreeHeld(h)' /\ (k = "new" => Excused')
  BY <1>2 DEF TreeHeld, Excused
<1>7. \A g \in Installs : Registered(g) => Registered(g)'
  BY <1>2, <1>3 DEF Registered, Pointed
<1>8. ~overlap => \A g \in Installs : RecordsStay(g)
  BY <1>1, <1>3, <1>6 DEF RecordsStay, Full
<1>9. Shrinks
  <2>1. \A g \in Installs : tree'[g] # "none" => tree'[g] = tree[g]
    BY <1>3
  <2>2. \A g \in Local : InstallExists(g)' => InstallExists(g)
    BY <2>1, Nothing DEF InstallExists
  <2>3. Excused => Excused'
    BY DEF Excused, HistoryUnchanged
  <2> QED BY <2>1, <2>2, <2>3 DEF Shrinks
<1> QED BY <1>4, <1>5, <1>6, <1>7, <1>8, <1>9 DEF Stays

LEMMA TreeEntryKeeps ==
  ASSUME HomeInv, NEW p \in Procs, NEW h \in Installs, NEW k \in Keys, TreeEntry(p, <<h, k>>)
  PROVE  HomeInv' /\ SideStep
<1> DEFINE x == <<h, k>>
           there == tree[h] # "none" /\ At(h) = k
<1>1. HomeTypes /\ run \in [Procs -> Runs] /\ run[p] \in Runs /\ (~restored => ToVisit(p))
  BY Mine
<1>2. /\ run[p].pc = "trees" /\ run[p].mid = None
      /\ UNCHANGED <<schema, ptr, ghost, side, bad, badSide, missing, launcher, noted>>
      /\ HistoryUnchanged
  BY DEF TreeEntry
<1>3. ASSUME there, QuarantineOrAbort(p, x, Item("tree", h, k)),
             tree' = [tree EXCEPT ![h] = IF run[p].skip THEN "none" ELSE @]
      PROVE  HomeInv' /\ SideStep
  <2>1. CASE ~run[p].skip
    <3>1. tree' = tree
      BY <1>1, <1>3, <2>1 DEF HomeTypes
    <3>2. held' = held /\ run' = [run EXCEPT ![p] = Idle]
      BY <1>3, <2>1, Aborted
    <3> QED BY <1>1, <1>2, <3>1, <3>2, Ends DEF HomeUnchanged, HistoryUnchanged, HomeTypes
  <2>2. CASE run[p].skip
    <3>1. Item("tree", h, k) \in Items
      BY DEF Item, Items
    <3>2. /\ held' = held \cup {Item("tree", h, k)}
          /\ RunAfter(p) /\ run'[p].pc = "trees" /\ run'[p].todo = run[p].todo \ {x} /\ run'[p].mid = None
      BY <1>1, <1>2, <1>3, <2>2, <3>1, Quarantined
    <3>3. tree' = [tree EXCEPT ![h] = "none"]
      BY <1>3, <2>2
    <3>4. HomeTypes' /\ Stays
      BY <1>2, <1>3, <3>2, <3>3, TreeGoes
    <3>5. ~restored => ToVisit(p)'
      <4>1. \A g \in Installs : tree'[g] # "none" => g # h /\ tree'[g] = tree[g]
        BY <1>1, <3>3 DEF HomeTypes
      <4> QED BY <1>1, <1>2, <3>2, <4>1 DEF ToVisit, NoOldPointers
    <3>6. Own(p)
      BY <1>2, <3>2, <3>5 DEF Own, Middle, Early
    <3> QED BY <1>2, <3>2, <3>4, <3>6, StepKeeps DEF HistoryUnchanged
  <2> QED BY <2>1, <2>2
<1>4. ASSUME there, h \notin bad, k = "old", UNCHANGED <<tree, held>>,
             run' = [run EXCEPT ![p].mid = [of |-> h, key |-> k, at |-> "loaded"]]
      PROVE  HomeInv' /\ SideStep
  <2>1. [of |-> h, key |-> k, at |-> "loaded"] \in Mids
    BY DEF Mids
  <2>2. /\ RunAfter(p) /\ run'[p].pc = "trees" /\ run'[p].todo = run[p].todo
        /\ run'[p].mid = [of |-> h, key |-> k, at |-> "loaded"]
    BY <1>1, <1>2, <1>4, <2>1, MidRun
  <2>3. ~restored => ToVisit(p)'
    BY <1>1, <1>2, <1>4, <2>2 DEF ToVisit, NoOldPointers
  <2>4. Middle(p)'
    BY <1>2, <1>4, <2>2 DEF Middle
  <2>5. Own(p)
    BY <1>2, <2>2, <2>3, <2>4 DEF Own, Early
  <2> QED BY <1>2, <1>4, <2>2, <2>5, Goes DEF HomeUnchanged
<1>5. ASSUME ~there \/ k = "new", run' = Done(p, x), UNCHANGED <<tree, held>>
      PROVE  HomeInv' /\ SideStep
  <2>1. RunAfter(p) /\ run'[p].pc = "trees" /\ run'[p].todo = run[p].todo \ {x} /\ run'[p].mid = None
    BY <1>1, <1>2, <1>5, DoneRun
  <2>2. tree[h] \in {"old", "stamped"} => x # <<h, "old">>
    BY <1>5 DEF At
  <2>3. ~restored => ToVisit(p)'
    BY <1>1, <1>2, <1>5, <2>1, <2>2 DEF ToVisit, NoOldPointers
  <2>4. Own(p)
    BY <1>2, <2>1, <2>3 DEF Own, Middle, Early
  <2> QED BY <1>2, <1>5, <2>1, <2>4, Goes DEF HomeUnchanged
<1> QED BY <1>3, <1>4, <1>5 DEF TreeEntry

\* A tree that is there, and stays, if in another place.
LEMMA TreeMoves ==
  ASSUME HomeInv, NEW h \in Installs, NEW to \in {"stamped", "new"}, tree' = [tree EXCEPT ![h] = to],
         tree[h] = "stamped" \/ (tree[h] = "old" /\ to = "stamped"), HistoryUnchanged,
         UNCHANGED <<schema, ptr, ghost, side, bad, badSide, missing, launcher, held, noted>>
  PROVE  HomeTypes' /\ Stays /\ tree'[h] = to /\ \A g \in Installs \ {h} : tree'[g] = tree[g]
<1>1. HomeTypes /\ (~overlap /\ schema = 1 => \A g \in Installs, j \in Keys : ptr[g][j] # "full")
  BY Typed DEF HomeInv, Alone
<1>2. /\ tree' \in [Installs -> Places] /\ tree'[h] = to
      /\ \A g \in Installs \ {h} : tree'[g] = tree[g]
  BY <1>1 DEF HomeTypes, Places
<1>3. HomeTypes'
  BY <1>1, <1>2 DEF HomeTypes, HistoryUnchanged
<1>4. PointersStay
  BY DEF PointersStay, Pointed
<1>5. \A g \in Installs : tree[g] # "none" => tree'[g] # "none"
  BY <1>2
<1>6. \A g \in Installs : Registered(g) => Registered(g)'
  BY <1>5 DEF Registered, Pointed
<1>7. ~overlap => \A g \in Installs : RecordsStay(g)
  BY <1>1, <1>5 DEF RecordsStay, Full
<1>8. Shrinks
  <2>1. ~NoOldTrees
    BY DEF NoOldTrees
  <2>2. Excused => Excused'
    BY DEF Excused, HistoryUnchanged
  <2> QED BY <1>2, <2>1, <2>2 DEF Shrinks
<1> QED BY <1>2, <1>3, <1>4, <1>6, <1>7, <1>8 DEF Stays

LEMMA GhostStays ==
  ASSUME HomeInv, UNCHANGED <<schema, ptr, tree, side, bad, badSide, missing, launcher, noted>>,
         ghost' \subseteq Installs, HistoryUnchanged, NEW items \in SUBSET Items, held' = held \cup items
  PROVE  HomeTypes' /\ Stays
<1>1. HomeTypes /\ (~overlap /\ schema = 1 => \A g \in Installs, j \in Keys : ptr[g][j] # "full")
  BY Typed DEF HomeInv, Alone
<1>2. HomeTypes'
  BY <1>1 DEF HomeTypes, HistoryUnchanged
<1>3. PointersStay
  BY DEF PointersStay, Pointed
<1>4. \A g \in Installs : Registered(g) => Registered(g)'
  BY DEF Registered, Pointed
<1>5. ~overlap => \A g \in Installs : RecordsStay(g)
  BY <1>1 DEF RecordsStay, Full
<1>6. Shrinks
  BY DEF Shrinks, InstallExists, Excused, HistoryUnchanged
<1> QED BY <1>2, <1>3, <1>4, <1>5, <1>6 DEF Stays

LEMMA StampTreeKeeps ==
  ASSUME HomeInv, NEW p \in Procs, StampTree(p)
  PROVE  HomeInv' /\ SideStep
<1> DEFINE h == run[p].mid.of
<1>1. /\ run[p].pc = "trees" /\ run[p].mid # None /\ run[p].mid.at = "loaded"
      /\ run' = [run EXCEPT ![p].mid.at = "written"]
      /\ UNCHANGED <<schema, ptr, side, bad, badSide, missing, launcher, held, noted>>
      /\ HistoryUnchanged
  BY DEF StampTree
<1>2. \/ tree[h] \in {"old", "stamped"} /\ tree' = [tree EXCEPT ![h] = "stamped"] /\ UNCHANGED ghost
      \/ tree[h] \notin {"old", "stamped"} /\ ghost' = ghost \cup {h} /\ UNCHANGED tree
  BY DEF StampTree
<1>3. /\ HomeTypes /\ run \in [Procs -> Runs] /\ run[p] \in Runs /\ Middle(p) /\ h \in Installs
      /\ ~restored => ToVisit(p)
  BY <1>1, Mine
<1>4. /\ RunAfter(p) /\ run'[p].pc = "trees" /\ run'[p].todo = run[p].todo
      /\ run'[p].mid.of = h /\ run'[p].mid.key = run[p].mid.key /\ run'[p].mid.at = "written"
  BY <1>1, <1>3, WrittenRun
<1>5. h \notin bad /\ run[p].mid.key = "old"
  BY <1>1, <1>3 DEF Middle
<1> HIDE DEF h
<1>6. /\ HomeTypes' /\ Stays /\ tree'[h] # "old"
      /\ \A g \in Installs : tree'[g] \in {"old", "stamped"} => tree[g] \in {"old", "stamped"}
  <2>1. CASE tree[h] \in {"old", "stamped"}
    BY <1>1, <1>2, <1>3, <2>1, TreeMoves
  <2>2. CASE tree[h] \notin {"old", "stamped"}
    <3>1. ghost' \subseteq Installs /\ held' = held \cup {} /\ {} \in SUBSET Items /\ tree' = tree
      BY <1>1, <1>2, <1>3, <2>2 DEF HomeTypes
    <3>2. HomeTypes' /\ Stays
      BY <1>1, <3>1, GhostStays
    <3> QED BY <2>2, <3>1, <3>2
  <2> QED BY <2>1, <2>2
<1>7. ~restored => ToVisit(p)'
  BY <1>1, <1>3, <1>4, <1>6 DEF ToVisit, NoOldPointers
<1>8. Middle(p)'
  BY <1>1, <1>4, <1>5 DEF Middle
<1>9. Own(p)
  BY <1>1, <1>4, <1>7, <1>8 DEF Own, Early
<1> QED BY <1>1, <1>4, <1>6, <1>9, StepKeeps DEF HistoryUnchanged

LEMMA RenameTreeKeeps ==
  ASSUME HomeInv, NEW p \in Procs, RenameTree(p)
  PROVE  HomeInv' /\ SideStep
<1> DEFINE h == run[p].mid.of
           x == <<h, run[p].mid.key>>
<1>1. /\ run[p].pc = "trees" /\ run[p].mid # None /\ run[p].mid.at = "written"
      /\ UNCHANGED <<schema, ptr, side, bad, badSide, missing, launcher, noted>>
      /\ HistoryUnchanged
  BY DEF RenameTree
<1>2. /\ HomeTypes /\ run \in [Procs -> Runs] /\ run[p] \in Runs /\ Middle(p) /\ h \in Installs
      /\ ~restored => ToVisit(p)
      /\ run[p].mid.key \in Keys
  BY <1>1, Mine
<1>3. x = <<h, "old">> /\ NameOf[h] \in Names
  BY <1>1, <1>2, Nothing DEF Middle
<1>4. ~restored => tree[h] # "old"
  BY <1>1, <1>2 DEF ToVisit
<1>5. \/ tree[h] = "stamped" /\ tree' = [tree EXCEPT ![h] = "new"] /\ run' = Recorded(p, x, NameOf[h], h) /\ UNCHANGED <<ghost, held>>
      \/ tree[h] \in {"none", "old"} /\ run' = Recorded(p, x, NameOf[h], h) /\ UNCHANGED <<tree, ghost, held>>
      \/ /\ tree[h] = "new" /\ QuarantineOrAbort(p, x, Item("ghost", h, run[p].mid.key)) /\ UNCHANGED tree
         /\ ghost' = IF run[p].skip THEN ghost \ {h} ELSE ghost
      \/ run' = Failed(p) /\ UNCHANGED <<tree, ghost, held>>
  BY DEF RenameTree
<1> HIDE DEF h, x
<1>6. ASSUME HomeTypes', Stays, RunAfter(p), tree'[h] \in {"none", "new"} \/ (~restored => tree'[h] # "old" /\ tree'[h] # "stamped"),
             run'[p].pc = run[p].pc, run'[p].todo = run[p].todo \ {x}, run'[p].mid = None
      PROVE  HomeInv' /\ SideStep
  <2>1. ~restored => ToVisit(p)'
    <3>1. ~restored => \A g \in Installs : tree'[g] \in {"old", "stamped"} => tree[g] \in {"old", "stamped"} /\ g # h
      BY <1>6 DEF Stays, Shrinks
    <3> QED BY <1>1, <1>2, <1>3, <1>6, <3>1 DEF ToVisit, NoOldPointers
  <2>2. Own(p)
    BY <1>1, <1>6, <2>1 DEF Own, Middle, Early
  <2> QED BY <1>1, <1>6, <2>2, StepKeeps DEF HistoryUnchanged
<1>7. ASSUME tree[h] = "stamped", tree' = [tree EXCEPT ![h] = "new"], run' = Recorded(p, x, NameOf[h], h), UNCHANGED <<ghost, held>>
      PROVE  HomeInv' /\ SideStep
  <2>1. HomeTypes' /\ Stays /\ tree'[h] = "new"
    BY <1>1, <1>2, <1>7, TreeMoves
  <2>2. RunAfter(p) /\ run'[p].pc = run[p].pc /\ run'[p].todo = run[p].todo \ {x} /\ run'[p].mid = None
    BY <1>2, <1>3, <1>7, RecordedRun
  <2> QED BY <1>6, <2>1, <2>2
<1>8. ASSUME tree[h] \in {"none", "old"}, run' = Recorded(p, x, NameOf[h], h), UNCHANGED <<tree, ghost, held>>
      PROVE  HomeInv' /\ SideStep
  <2>1. HomeTypes' /\ Stays
    <3>1. held' = held \cup {} /\ {} \in SUBSET Items /\ ghost' \subseteq Installs
      BY <1>2, <1>8 DEF HomeTypes
    <3> QED BY <1>1, <1>8, <3>1, GhostStays
  <2>2. RunAfter(p) /\ run'[p].pc = run[p].pc /\ run'[p].todo = run[p].todo \ {x} /\ run'[p].mid = None
    BY <1>2, <1>3, <1>8, RecordedRun
  <2> QED BY <1>4, <1>6, <1>8, <2>1, <2>2
<1>9. ASSUME tree[h] = "new", QuarantineOrAbort(p, x, Item("ghost", h, run[p].mid.key)), UNCHANGED tree,
             ghost' = IF run[p].skip THEN ghost \ {h} ELSE ghost
      PROVE  HomeInv' /\ SideStep
  <2>1. CASE ~run[p].skip
    <3>1. held' = held /\ run' = [run EXCEPT ![p] = Idle]
      BY <1>9, <2>1, Aborted
    <3> QED BY <1>1, <1>2, <1>9, <2>1, <3>1, Ends DEF HomeUnchanged, HistoryUnchanged, HomeTypes
  <2>2. CASE run[p].skip
    <3>1. Item("ghost", h, run[p].mid.key) \in Items
      BY <1>2 DEF Item, Items
    <3>2. /\ held' = held \cup {Item("ghost", h, run[p].mid.key)}
          /\ RunAfter(p) /\ run'[p].pc = run[p].pc /\ run'[p].todo = run[p].todo \ {x} /\ run'[p].mid = None
      BY <1>2, <1>9, <2>2, <3>1, Quarantined
    <3>3. ghost' \subseteq Installs
      BY <1>2, <1>9 DEF HomeTypes
    <3>4. HomeTypes' /\ Stays
      BY <1>1, <1>9, <3>1, <3>2, <3>3, GhostStays
    <3> QED BY <1>6, <1>9, <3>2, <3>4
  <2> QED BY <2>1, <2>2
<1>10. ASSUME run' = Failed(p), UNCHANGED <<tree, ghost, held>>
       PROVE  HomeInv' /\ SideStep
  BY <1>1, <1>2, <1>10, Ends DEF Failed, HomeUnchanged, HistoryUnchanged, HomeTypes
<1> QED BY <1>5, <1>7, <1>8, <1>9, <1>10

\* A launcher changes into what is not the old form.
LEMMA LauncherChanges ==
  ASSUME HomeInv, NEW n \in Names, NEW to \in {"none"} \cup Installs, launcher' = [launcher EXCEPT ![n] = to],
         UNCHANGED <<schema, ptr, tree, ghost, side, bad, badSide, missing, noted>>,
         HistoryUnchanged, NEW items \in SUBSET Items, held' = held \cup items
  PROVE  /\ HomeTypes' /\ Stays /\ launcher'[n] # "legacy"
         /\ \A m \in Names \ {n} : launcher'[m] = launcher[m]
<1>1. HomeTypes /\ (~overlap /\ schema = 1 => \A g \in Installs, j \in Keys : ptr[g][j] # "full")
  BY Typed DEF HomeInv, Alone
<1>2. /\ launcher' \in [Names -> {"none", "legacy", "edited"} \cup Installs]
      /\ launcher'[n] # "legacy" /\ \A m \in Names \ {n} : launcher'[m] = launcher[m]
  BY <1>1, Nothing DEF HomeTypes
<1>3. HomeTypes'
  BY <1>1, <1>2 DEF HomeTypes, HistoryUnchanged
<1>4. PointersStay
  BY DEF PointersStay, Pointed
<1>5. \A g \in Installs : Registered(g) => Registered(g)'
  BY DEF Registered, Pointed
<1>6. ~overlap => \A g \in Installs : RecordsStay(g)
  BY <1>1 DEF RecordsStay, Full
<1>7. Shrinks
  BY <1>2 DEF Shrinks, InstallExists, Excused, HistoryUnchanged
<1> QED BY <1>2, <1>3, <1>4, <1>5, <1>6, <1>7 DEF Stays

LEMMA LauncherEntryKeeps ==
  ASSUME HomeInv, NEW p \in Procs, NEW n \in Names, LauncherEntry(p, n)
  PROVE  HomeInv' /\ SideStep
<1> DEFINE ids == LauncherIds(p, n)
<1>1. HomeTypes /\ run \in [Procs -> Runs] /\ run[p] \in Runs /\ (~restored => ToVisit(p))
  BY Mine
<1>2. /\ run[p].pc = "launchers"
      /\ UNCHANGED <<schema, ptr, tree, ghost, side, bad, badSide, missing, noted>>
      /\ HistoryUnchanged
  BY DEF LauncherEntry
<1>3. \/ ids = {} /\ \A h \in Local : NameOf[h] = n => ~InstallExists(h)
      \/ ids # {} /\ ids \subseteq Installs
  BY <1>1, Nothing DEF LauncherIds, Runs
<1>4. \/ (ids = {} \/ launcher[n] \in ids) /\ run' = Done(p, n) /\ UNCHANGED <<launcher, held>>
      \/ /\ launcher[n] = "legacy" /\ ids # {} /\ UNCHANGED held
         /\ \E h \in ids : launcher' = [launcher EXCEPT ![n] = h] /\ run' = Recorded(p, n, n, h)
      \/ /\ launcher[n] \notin {"none", "legacy"} /\ ids # {}
         /\ QuarantineOrAbort(p, n, Item("bin", n, launcher[n]))
         /\ launcher' = [launcher EXCEPT ![n] = IF run[p].skip THEN "none" ELSE @]
      \/ run' = Failed(p) /\ UNCHANGED <<launcher, held>>
  BY DEF LauncherEntry
<1> HIDE DEF ids
<1>5. ASSUME HomeTypes', Stays, RunAfter(p),
             \A h \in Local : NameOf[h] = n /\ InstallExists(h)' => launcher'[n] # "legacy",
             run'[p].pc = run[p].pc, run'[p].todo = run[p].todo \ {n}, run'[p].mid = None
      PROVE  HomeInv' /\ SideStep
  <2>1. ASSUME ~restored PROVE ToVisit(p)'
    <3>1. NoOldPointers /\ NoOldTrees /\ Shrinks
      BY <1>1, <1>2, <1>5, <2>1 DEF ToVisit, Stays
    <3>2. \A h \in Local : InstallExists(h)' /\ launcher'[NameOf[h]] = "legacy" => NameOf[h] \in run[p].todo \ {n}
      BY <1>1, <1>2, <1>5, <2>1, <3>1, Nothing DEF ToVisit, Shrinks
    <3>3. NoOldPointers' /\ NoOldTrees'
      BY <1>2, <3>1 DEF NoOldPointers, NoOldTrees
    <3> QED BY <1>2, <1>5, <3>2, <3>3 DEF ToVisit
  <2>2. Own(p)
    BY <1>2, <1>5, <2>1 DEF Own, Middle, Early
  <2> QED BY <1>2, <1>5, <2>2, StepKeeps DEF HistoryUnchanged
<1>6. ASSUME ids = {} \/ launcher[n] \in ids, run' = Done(p, n), UNCHANGED <<launcher, held>>
      PROVE  HomeInv' /\ SideStep
  <2>1. HomeTypes' /\ Stays
    BY <1>1, <1>2, <1>6, SameStays DEF HomeTypes, HistoryUnchanged
  <2>2. RunAfter(p) /\ run'[p].pc = run[p].pc /\ run'[p].todo = run[p].todo \ {n} /\ run'[p].mid = None
    BY <1>1, <1>6, DoneRun
  <2>3. \A h \in Local : NameOf[h] = n /\ InstallExists(h)' => launcher'[n] # "legacy"
    BY <1>2, <1>3, <1>6, Nothing DEF InstallExists
  <2> QED BY <1>5, <2>1, <2>2, <2>3
<1>7. ASSUME NEW h \in ids, launcher' = [launcher EXCEPT ![n] = h], run' = Recorded(p, n, n, h), UNCHANGED held
      PROVE  HomeInv' /\ SideStep
  <2>1. h \in Installs
    BY <1>3
  <2>2. held' = held \cup {} /\ {} \in SUBSET Items
    BY <1>7
  <2>3. HomeTypes' /\ Stays /\ launcher'[n] # "legacy"
    BY <1>2, <1>7, <2>1, <2>2, LauncherChanges
  <2>4. RunAfter(p) /\ run'[p].pc = run[p].pc /\ run'[p].todo = run[p].todo \ {n} /\ run'[p].mid = None
    BY <1>1, <1>7, <2>1, RecordedRun
  <2> QED BY <1>5, <2>3, <2>4
<1>8. ASSUME launcher[n] \notin {"none", "legacy"}, QuarantineOrAbort(p, n, Item("bin", n, launcher[n])),
             launcher' = [launcher EXCEPT ![n] = IF run[p].skip THEN "none" ELSE @]
      PROVE  HomeInv' /\ SideStep
  <2>1. CASE ~run[p].skip
    <3>1. launcher' = launcher
      BY <1>1, <1>8, <2>1 DEF HomeTypes
    <3>2. held' = held /\ run' = [run EXCEPT ![p] = Idle]
      BY <1>8, <2>1, Aborted
    <3> QED BY <1>1, <1>2, <3>1, <3>2, Ends DEF HomeUnchanged, HistoryUnchanged, HomeTypes
  <2>2. CASE run[p].skip
    <3>1. Item("bin", n, launcher[n]) \in Items
      BY <1>1, <1>8 DEF Item, Items, HomeTypes
    <3>2. /\ held' = held \cup {Item("bin", n, launcher[n])}
          /\ RunAfter(p) /\ run'[p].pc = run[p].pc /\ run'[p].todo = run[p].todo \ {n} /\ run'[p].mid = None
      BY <1>1, <1>8, <2>2, <3>1, Quarantined
    <3>3. launcher' = [launcher EXCEPT ![n] = "none"] /\ "none" \in {"none"} \cup Installs /\ {Item("bin", n, launcher[n])} \in SUBSET Items
      BY <1>8, <2>2, <3>1
    <3>4. HomeTypes' /\ Stays /\ launcher'[n] # "legacy"
      BY <1>2, <3>1, <3>2, <3>3, LauncherChanges
    <3> QED BY <1>5, <3>2, <3>4
  <2> QED BY <2>1, <2>2
<1>9. ASSUME run' = Failed(p), UNCHANGED <<launcher, held>>
      PROVE  HomeInv' /\ SideStep
  BY <1>1, <1>2, <1>9, Ends DEF Failed, HomeUnchanged, HistoryUnchanged, HomeTypes
<1> QED BY <1>4, <1>6, <1>7, <1>8, <1>9

-----------------------------------------------------------------------------
(* The passes of schema 3.                                                      *)

\* A pointer gets its provenance, beside a tree or in the place of a thin record.
LEMMA PointerFills ==
  ASSUME HomeInv, NEW h \in Installs, NEW k \in Keys, schema >= 2, ptr' = [ptr EXCEPT ![h][k] = "full"],
         ptr[h][k] # "none" \/ (tree[h] # "none" /\ At(h) = k), HistoryUnchanged,
         UNCHANGED <<schema, tree, ghost, side, bad, badSide, missing, launcher, held, noted>>
  PROVE  HomeTypes' /\ Stays /\ ptr'[h][k] = "full"
<1>1. HomeTypes /\ (~restored => NoOldTrees)
  BY Typed DEF HomeInv, Layout, Stamped
<1>2. /\ ptr' \in [Installs -> [Keys -> Fill]] /\ ptr'[h][k] = "full"
      /\ \A g \in Installs, j \in Keys : g # h \/ j # k => ptr'[g][j] = ptr[g][j]
  BY <1>1 DEF HomeTypes, Fill
<1>3. HomeTypes'
  BY <1>1, <1>2 DEF HomeTypes, HistoryUnchanged
<1>4. \A g \in Installs, j \in Keys : ptr[g][j] # "none" => ptr'[g][j] # "none"
  BY <1>2
<1>5. PointersStay
  BY <1>4 DEF PointersStay, Pointed, Keys
<1>6. \A g \in Installs : Registered(g) => Registered(g)'
  BY <1>4 DEF Registered, Pointed
<1>7. \A g \in Installs : Full(g) => Full(g)'
  BY <1>2 DEF Full
<1>8. ~overlap => \A g \in Installs : RecordsStay(g)
  BY <1>1, <1>7 DEF RecordsStay, HomeTypes
<1>9. ASSUME ~restored PROVE Shrinks
  <2>1. tree[h] # "none" => tree[h] = "new"
    BY <1>1, <1>9 DEF NoOldTrees, HomeTypes, Places
  <2>2. ptr[h][k] = "none" => k = "new" /\ tree[h] = "new"
    BY <2>1 DEF At
  <2>3. \A g \in Installs : ptr'[g]["old"] # "none" => ptr[g]["old"] # "none"
    BY <1>2, <2>2 DEF Keys
  <2>4. \A g \in Installs : ptr'[g]["new"] # "none" => ptr[g]["new"] # "none" \/ tree[g] = "new"
    BY <1>2, <2>2 DEF Keys
  <2>5. \A g \in Local : InstallExists(g)' => InstallExists(g)
    BY <2>4, Nothing DEF InstallExists
  <2>6. Excused => Excused'
    BY DEF Excused, HistoryUnchanged
  <2> QED BY <2>3, <2>5, <2>6 DEF Shrinks
<1> QED BY <1>2, <1>3, <1>5, <1>6, <1>8, <1>9 DEF Stays

LEMMA CollapseEntryKeeps ==
  ASSUME HomeInv, NEW p \in Procs, NEW h \in Installs, NEW k \in Keys, CollapseEntry(p, <<h, k>>)
  PROVE  HomeInv' /\ SideStep
<1> DEFINE x == <<h, k>>
           there == tree[h] # "none" /\ At(h) = k
<1>1. /\ run[p].pc = "collapse" /\ run[p].mid = None
      /\ UNCHANGED <<schema, ghost, side, bad, badSide, missing, launcher, noted>>
      /\ HistoryUnchanged
  BY DEF CollapseEntry
<1>2. /\ HomeTypes /\ run \in [Procs -> Runs] /\ run[p] \in Runs /\ schema >= 2
      /\ ~restored => ToVisit(p) /\ NoOldTrees
  BY <1>1, Mine DEF Late, Stamped
<1>3. ASSUME ~restored PROVE \A g \in Installs : tree[g] # "none" => tree[g] = "new" /\ At(g) = "new"
  BY <1>2, <1>3 DEF NoOldTrees, At, HomeTypes, Places
<1>4. ASSUME there, EndingPass(p, Item("tree", h, k)), UNCHANGED ptr,
             tree' = [tree EXCEPT ![h] = IF run[p].skip THEN "none" ELSE @]
      PROVE  HomeInv' /\ SideStep
  <2>1. CASE ~run[p].skip
    <3>1. tree' = tree
      BY <1>2, <1>4, <2>1 DEF HomeTypes
    <3>2. held' = held /\ run' = [run EXCEPT ![p] = Idle]
      BY <1>4, <2>1, Zenon DEF EndingPass, Failed
    <3> QED BY <1>1, <1>2, <1>4, <3>1, <3>2, Ends DEF HomeUnchanged, HistoryUnchanged, HomeTypes
  <2>2. CASE run[p].skip
    <3>1. Item("tree", h, k) \in Items
      BY DEF Item, Items
    <3>2. /\ held' = held \cup {Item("tree", h, k)}
          /\ run' = [run EXCEPT ![p].todo = {}, ![p].quar = @ \cup {Item("tree", h, k)}]
      BY <1>4, <2>2, Zenon DEF EndingPass
    <3>3. RunAfter(p) /\ run'[p].pc = "collapse" /\ run'[p].mid = None
      BY <1>1, <1>2, <3>1, <3>2, EndingRun
    <3>4. tree' = [tree EXCEPT ![h] = "none"]
      BY <1>4, <2>2
    <3>5. HomeTypes' /\ Stays /\ (k = "new" => Excused')
      BY <1>1, <1>4, <3>2, <3>4, TreeGoes
    <3>6. ~restored => ToVisit(p)'
      BY <1>3, <1>4, <3>3, <3>5 DEF ToVisit
    <3>7. Own(p)
      BY <1>1, <3>3, <3>6 DEF Own, Middle, Late
    <3> QED BY <1>1, <3>3, <3>5, <3>7, StepKeeps DEF HistoryUnchanged
  <2> QED BY <2>1, <2>2
<1>5. ASSUME there, h \notin bad, ptr' = [ptr EXCEPT ![h][k] = "full"], UNCHANGED <<tree, held>>,
             run' = [run EXCEPT ![p].mid = [of |-> h, key |-> k, at |-> "written"]]
      PROVE  HomeInv' /\ SideStep
  <2>1. [of |-> h, key |-> k, at |-> "written"] \in Mids
    BY DEF Mids
  <2>2. /\ RunAfter(p) /\ run'[p].pc = "collapse" /\ run'[p].todo = run[p].todo
        /\ run'[p].mid = [of |-> h, key |-> k, at |-> "written"]
    BY <1>1, <1>2, <1>5, <2>1, MidRun
  <2>3. HomeTypes' /\ Stays /\ ptr'[h][k] = "full"
    BY <1>1, <1>2, <1>5, PointerFills
  <2>4. ~restored => ToVisit(p)'
    BY <1>1, <1>2, <1>5, <2>2 DEF ToVisit, Excused, HistoryUnchanged
  <2>5. Middle(p)'
    BY <1>1, <1>5, <2>2, <2>3 DEF Middle
  <2>6. Own(p)
    BY <1>1, <2>2, <2>3, <2>4, <2>5 DEF Own, Late
  <2> QED BY <1>1, <2>2, <2>3, <2>6, StepKeeps DEF HistoryUnchanged
<1>6. ASSUME ~there \/ h \notin Local, run' = Done(p, x), UNCHANGED <<ptr, tree, held>>
      PROVE  HomeInv' /\ SideStep
  <2>1. RunAfter(p) /\ run'[p].pc = "collapse" /\ run'[p].todo = run[p].todo \ {x} /\ run'[p].mid = None
    BY <1>1, <1>2, <1>6, DoneRun
  <2>2. ASSUME ~restored PROVE ToVisit(p)'
    <3>1. ASSUME NEW g \in Local, tree[g] # "none" PROVE <<g, "new">> # x
      BY <1>3, <1>6, <2>2, <3>1, Nothing
    <3> QED BY <1>1, <1>2, <1>6, <2>1, <2>2, <3>1 DEF ToVisit, Excused, HistoryUnchanged
  <2>3. Own(p)
    BY <1>1, <2>1, <2>2 DEF Own, Middle, Late
  <2> QED BY <1>1, <1>6, <2>1, <2>3, Goes DEF HomeUnchanged
<1> QED BY <1>4, <1>5, <1>6 DEF CollapseEntry

LEMMA RemoveCopyKeeps ==
  ASSUME HomeInv, NEW p \in Procs, RemoveCopy(p)
  PROVE  HomeInv' /\ SideStep
<1> DEFINE h == run[p].mid.of
           k == run[p].mid.key
<1>1. /\ run[p].pc = "collapse" /\ run[p].mid # None
      /\ tree' = [tree EXCEPT ![h] = IF @ # "none" /\ At(h) = k THEN "none" ELSE @]
      /\ run' = [Done(p, <<h, k>>) EXCEPT ![p].wrote = TRUE]
      /\ UNCHANGED <<schema, ptr, ghost, side, bad, badSide, missing, launcher, held, noted>>
      /\ HistoryUnchanged
  BY DEF RemoveCopy
<1>2. /\ HomeTypes /\ run \in [Procs -> Runs] /\ run[p] \in Runs /\ schema >= 2
      /\ h \in Installs /\ k \in Keys /\ Pointed(h)
      /\ ~restored => ToVisit(p) /\ NoOldTrees
      /\ ~overlap => ptr[h][k] = "full"
  BY <1>1, Mine DEF Late, Stamped, Middle, Pointed, HomeInv, Alone
<1>3. RunAfter(p) /\ run'[p].pc = "collapse" /\ run'[p].todo = run[p].todo \ {<<h, k>>} /\ run'[p].mid = None
  BY <1>1, <1>2, WroteRun
<1> HIDE DEF h, k
<1>4. /\ tree' \in [Installs -> Places]
      /\ tree'[h] = (IF tree[h] # "none" /\ At(h) = k THEN "none" ELSE tree[h])
      /\ \A g \in Installs \ {h} : tree'[g] = tree[g]
  BY <1>1, <1>2 DEF HomeTypes, Places
<1>5. HomeTypes'
  BY <1>1, <1>2, <1>4 DEF HomeTypes, HistoryUnchanged
<1>6. PointersStay
  BY <1>1 DEF PointersStay, Pointed
<1>7. \A g \in Installs : Registered(g) => Registered(g)'
  BY <1>1, <1>2, <1>4 DEF Registered, Pointed
<1>8. ~overlap => \A g \in Installs : RecordsStay(g)
  BY <1>1, <1>2, <1>4 DEF RecordsStay, Full
<1>9. Shrinks
  <2>1. \A g \in Installs : tree'[g] # "none" => tree'[g] = tree[g]
    BY <1>4
  <2>2. \A g \in Local : InstallExists(g)' => InstallExists(g)
    BY <1>1, <2>1, Nothing DEF InstallExists
  <2>3. Excused => Excused'
    BY <1>1 DEF Excused, HistoryUnchanged
  <2> QED BY <1>1, <2>1, <2>2, <2>3 DEF Shrinks
<1>10. Stays
  BY <1>1, <1>6, <1>7, <1>8, <1>9 DEF Stays
<1>11. ASSUME ~restored PROVE ToVisit(p)'
  <2>1. ASSUME NEW g \in Local, tree'[g] # "none" PROVE tree[g] # "none" /\ <<g, "new">> # <<h, k>>
    <3>1. tree'[g] = tree[g]
      BY <1>4, <2>1, Nothing
    <3>2. At(g) = "new"
      BY <1>2, <1>11, <2>1, <3>1, Nothing DEF At, NoOldTrees, HomeTypes, Places
    <3> QED BY <1>4, <2>1, <3>1, <3>2
  <2> QED BY <1>1, <1>2, <1>3, <1>11, <2>1 DEF ToVisit, Excused, HistoryUnchanged
<1>12. Own(p)
  BY <1>1, <1>3, <1>11 DEF Own, Middle, Late
<1> QED BY <1>1, <1>3, <1>5, <1>10, <1>12, StepKeeps DEF HistoryUnchanged

LEMMA AbsorbEntryKeeps ==
  ASSUME HomeInv, NEW p \in Procs, NEW h \in Installs, NEW k \in Keys, AbsorbEntry(p, <<h, k>>)
  PROVE  HomeInv' /\ SideStep
<1> DEFINE x == <<h, k>>
<1>1. /\ run[p].pc = "absorb" /\ run[p].mid = None
      /\ UNCHANGED <<schema, tree, ghost, side, bad, badSide, missing, launcher, held, noted>>
      /\ HistoryUnchanged
  BY DEF AbsorbEntry
<1>2. /\ HomeTypes /\ run \in [Procs -> Runs] /\ run[p] \in Runs /\ schema >= 2
      /\ ~restored => Collapsed
  BY <1>1, Mine DEF Late, ToVisit
<1>3. Collapsed => Collapsed'
  BY <1>1 DEF Collapsed, Excused, HistoryUnchanged
<1>4. ASSUME run' = Failed(p), UNCHANGED ptr
      PROVE  HomeInv' /\ SideStep
  BY <1>1, <1>2, <1>4, Ends DEF Failed, HomeUnchanged, HistoryUnchanged, HomeTypes
<1>5. ASSUME ptr[h][k] = "thin", h \notin bad, ptr' = [ptr EXCEPT ![h][k] = "full"],
             run' = [run EXCEPT ![p].mid = [of |-> h, key |-> k, at |-> "written"]]
      PROVE  HomeInv' /\ SideStep
  <2>1. [of |-> h, key |-> k, at |-> "written"] \in Mids
    BY DEF Mids
  <2>2. /\ RunAfter(p) /\ run'[p].pc = "absorb" /\ run'[p].mid = [of |-> h, key |-> k, at |-> "written"]
    BY <1>1, <1>2, <1>5, <2>1, MidRun
  <2>3. HomeTypes' /\ Stays /\ ptr'[h][k] = "full"
    BY <1>1, <1>2, <1>5, PointerFills
  <2>4. ~restored => ToVisit(p)'
    BY <1>2, <1>3, <2>2 DEF ToVisit
  <2>5. Own(p)
    BY <1>1, <1>5, <2>2, <2>3, <2>4 DEF Own, Middle, Late
  <2> QED BY <1>1, <2>2, <2>3, <2>5, StepKeeps DEF HistoryUnchanged
<1>6. ASSUME run' = Done(p, x), UNCHANGED ptr
      PROVE  HomeInv' /\ SideStep
  <2>1. RunAfter(p) /\ run'[p].pc = "absorb" /\ run'[p].mid = None
    BY <1>1, <1>2, <1>6, DoneRun
  <2>2. Own(p)
    BY <1>1, <1>2, <1>3, <2>1 DEF Own, Middle, ToVisit, Late
  <2> QED BY <1>1, <1>6, <2>1, <2>2, Goes DEF HomeUnchanged
<1> QED BY <1>4, <1>5, <1>6 DEF AbsorbEntry

LEMMA RemoveSideKeeps ==
  ASSUME HomeInv, NEW p \in Procs, RemoveSide(p)
  PROVE  HomeInv' /\ SideStep
<1> DEFINE h == run[p].mid.of
           k == run[p].mid.key
<1>1. /\ run[p].pc = "absorb" /\ run[p].mid # None
      /\ side' = side \ {h}
      /\ run' = [Done(p, <<h, k>>) EXCEPT ![p].wrote = TRUE]
      /\ UNCHANGED <<schema, ptr, tree, ghost, bad, badSide, missing, launcher, held, noted>>
      /\ HistoryUnchanged
  BY DEF RemoveSide
<1>2. /\ HomeTypes /\ run \in [Procs -> Runs] /\ run[p] \in Runs /\ schema >= 2
      /\ h \in Installs /\ k \in Keys
      /\ ~restored => Collapsed
      /\ ~overlap => ptr[h][k] = "full"
  BY <1>1, Mine DEF Late, ToVisit, HomeInv, Alone
<1>3. RunAfter(p) /\ run'[p].pc = "absorb" /\ run'[p].mid = None
  BY <1>1, <1>2, WroteRun
<1> HIDE DEF h, k
<1>4. HomeTypes'
  BY <1>1, <1>2 DEF HomeTypes, HistoryUnchanged
<1>5. PointersStay
  BY <1>1 DEF PointersStay, Pointed
<1>6. \A g \in Installs : Registered(g) => Registered(g)'
  BY <1>1 DEF Registered, Pointed
<1>7. ~overlap => \A g \in Installs : RecordsStay(g)
  BY <1>1, <1>2 DEF RecordsStay, Full
<1>8. Shrinks
  BY <1>1 DEF Shrinks, InstallExists, Excused, HistoryUnchanged
<1>9. Stays
  BY <1>1, <1>5, <1>6, <1>7, <1>8 DEF Stays
<1>10. Collapsed => Collapsed'
  BY <1>1 DEF Collapsed, Excused, HistoryUnchanged
<1>11. Own(p)
  BY <1>1, <1>2, <1>3, <1>10 DEF Own, Middle, ToVisit, Late
<1> QED BY <1>1, <1>3, <1>4, <1>9, <1>11, StepKeeps DEF HistoryUnchanged

-----------------------------------------------------------------------------
(* What else happens to a home.                                                 *)

LEMMA KillKeeps ==
  ASSUME HomeInv, NEW p \in Procs, Kill(p)
  PROVE  HomeInv' /\ SideStep
<1>1. HomeTypes
  BY Mine
<1>2. faults' \in 0..MaxFaults
  BY <1>1, Nothing DEF Kill, HomeTypes
<1> QED BY <1>2, Ends DEF Kill

LEMMA StartKeeps ==
  ASSUME HomeInv, NEW p \in Procs, NEW skip \in BOOLEAN, Start(p, skip)
  PROVE  HomeInv' /\ SideStep
<1> DEFINE r == [Idle EXCEPT !.skip = skip]
           c == IF schema < 2 THEN "pointers" ELSE "collapse"
<1>1. HomeTypes /\ run \in [Procs -> Runs] /\ (~restored => Stamped)
  BY Mine
<1>2. /\ run[p].pc = "idle" /\ schema < 3
      /\ run' = [run EXCEPT ![p] = Begin(r, c)]
      /\ HomeUnchanged /\ UNCHANGED <<home, restored, dropped>>
  BY DEF Start
<1>3. \/ faults < MaxFaults /\ faults' = faults + 1 /\ overlap' = TRUE
      \/ (\A q \in Procs : run[q].pc = "idle") /\ UNCHANGED <<faults, overlap>>
  BY DEF Start
<1>4. r \in Runs /\ r.mid = None /\ c \in PassSet
  BY ThePasses DEF Idle, Runs, Early, Late
<1>5. schema < 2 => c = "pointers" /\ schema = 1
  BY <1>1 DEF HomeTypes
<1>6. ~(schema < 2) => c = "collapse" /\ schema = 2
  BY <1>1, <1>2 DEF HomeTypes
<1> HIDE DEF r, c
<1>7. RunAfter(p) /\ run'[p].pc = c /\ run'[p].todo = Listing(c) /\ run'[p].mid = None
  BY <1>1, <1>2, <1>4, BeginRun
<1>8. \A q \in Procs \ {p} : run'[q] = run[q]
  BY <1>7 DEF RunAfter
<1>9. TypeOK'
  <2>1. faults' \in 0..MaxFaults /\ overlap' \in BOOLEAN
    <3>1. faults \in 0..MaxFaults /\ overlap \in BOOLEAN
      BY <1>1 DEF HomeTypes
    <3>2. faults' \in 0..MaxFaults
      BY <1>3, <3>1, Nothing
    <3>3. overlap' \in BOOLEAN
      BY <1>3, <3>1, Zenon
    <3> QED BY <3>2, <3>3
  <2>2. HomeTypes'
    BY <1>1, <1>2, <2>1 DEF HomeTypes, HomeUnchanged
  <2> QED BY <1>7, <2>2 DEF RunAfter, TypeOK, HomeTypes, Runs
<1>10. Stays
  BY <1>2, SameStays DEF HomeUnchanged
<1>11. Middles'
  <2>1. \A q \in Procs \ {p} : Middle(q)'
    BY <1>1, <1>2, <1>8, <1>10, OthersMiddle DEF HomeInv, Middles, Stays, HomeUnchanged
  <2> QED BY <1>7, <2>1 DEF Middles, Middle
<1>12. RegistrationKept'
  BY <1>2 DEF HomeInv, RegistrationKept, HomeUnchanged
<1>13. ProvenanceKept'
  BY <1>2, <1>3 DEF HomeInv, ProvenanceKept, HomeUnchanged
<1>14. Alone'
  <2> SUFFICES ASSUME ~overlap' PROVE Alone'
    BY DEF Alone
  <2>1. \A q \in Procs : run[q].pc = "idle"
    BY <1>3
  <2>2. \A q \in Procs \ {p} : run'[q].pc = "idle" /\ "idle" \notin Early
    BY <1>8, <2>1 DEF Early
  <2>3. run'[p].pc \in Early => schema' = 1
    BY <1>2, <1>5, <1>6, <1>7 DEF HomeUnchanged, Early
  <2>4. schema' = 1 => \A h \in Installs, k \in Keys : ptr'[h][k] # "full"
    BY <1>2, <1>3 DEF HomeInv, Alone, HomeUnchanged
  <2> QED BY <1>7, <2>2, <2>3, <2>4 DEF Alone
<1>15. Layout'
  <2>1. \A q \in Procs : run'[q].pc \in Late => schema' >= 2
    BY <1>2, <1>5, <1>6, <1>7, <1>8 DEF HomeInv, Layout, HomeUnchanged, Late
  <2>2. ASSUME ~restored PROVE Stamped' /\ \A q \in Procs : ToVisit(q)'
    <3>1. Stamped'
      BY <1>1, <1>2, <1>10, <2>2, StampKept DEF Stays, HomeUnchanged
    <3>2. \A q \in Procs \ {p} : ToVisit(q)'
      BY <1>1, <1>8, <1>10, <2>2, OthersVisit DEF Stays, HomeInv, Layout
    <3>3. CASE schema < 2
      <4>1. \A h \in Installs : ptr[h]["old"] # "none" => <<h, "old">> \in Listing("pointers")
        BY DEF Listing, Pointers, Keys
      <4>2. ToVisit(p)'
        BY <1>2, <1>5, <1>7, <3>3, <4>1 DEF ToVisit, HomeUnchanged
      <4> QED BY <3>1, <3>2, <4>2
    <3>4. CASE ~(schema < 2)
      <4>1. NoOldTrees
        BY <1>1, <1>6, <2>2, <3>4 DEF Stamped
      <4>2. \A h \in Local : tree[h] # "none" => <<h, "new">> \in Listing("collapse")
        BY <1>1, <4>1, Nothing DEF Listing, Trees, At, NoOldTrees, HomeTypes, Places
      <4>3. ToVisit(p)'
        BY <1>2, <1>6, <1>7, <3>4, <4>2 DEF ToVisit, HomeUnchanged
      <4> QED BY <3>1, <3>2, <4>3
    <3> QED BY <3>3, <3>4
  <2> QED BY <1>2, <2>1, <2>2 DEF Layout
<1>16. SideStep
  BY <1>2 DEF SideStep, HomeUnchanged
<1> QED BY <1>9, <1>11, <1>12, <1>13, <1>14, <1>15, <1>16 DEF HomeInv

\* A step of the user: the migrations that run take no part in it.
LEMMA UserKeeps ==
  ASSUME HomeInv, HomeTypes', UNCHANGED <<run, home, schema, side, overlap>>, bad' \subseteq bad,
         dropped \subseteq dropped', PointersStay,
         \A h \in Installs, k \in Keys : ptr'[h][k] = "full" <=> ptr[h][k] = "full",
         \A h \in Installs \ dropped' : /\ Registered(h) => Registered(h)'
                                        /\ tree[h] # "none" \/ TreeHeld(h) => tree'[h] # "none" \/ TreeHeld(h)',
         ~restored' => ~restored /\ (Shrinks \/ (schema = 1 /\ \A q \in Procs : run[q].pc = "idle"))
  PROVE  HomeInv' /\ SideStep
<1>1. HomeTypes /\ run \in [Procs -> Runs] /\ home \subseteq Installs
  BY Typed, Nothing DEF HomeInv, HomeTypes
<1>2. TypeOK'
  BY <1>1 DEF TypeOK, HomeTypes, Runs
<1>3. Middles'
  BY <1>1, OthersMiddle DEF HomeInv, Middles
<1>4. RegistrationKept'
  <2>1. \A h \in home \ dropped : Registered(h)
    BY DEF HomeInv, RegistrationKept, Registered, Pointed
  <2>2. \A h \in home \ dropped' : Registered(h)'
    BY <1>1, <2>1
  <2> QED BY <2>2 DEF RegistrationKept, Registered, Pointed
<1>5. Alone'
  <2>1. \A q \in Procs : run[q].mid # None => run[q].mid.of \in Installs /\ run[q].mid.key \in Keys
    BY Mine
  <2> QED BY <2>1 DEF HomeInv, Alone
<1>6. ProvenanceKept'
  <2> SUFFICES ASSUME ~overlap, NEW h \in (home \cap TreeShaped) \ dropped'
               PROVE  (Full(h) \/ tree[h] # "none" \/ TreeHeld(h))'
    BY DEF ProvenanceKept, Full, TreeHeld
  <2>1. Full(h) \/ tree[h] # "none" \/ TreeHeld(h)
    BY DEF HomeInv, ProvenanceKept, Full, TreeHeld
  <2> QED BY <1>1, <2>1 DEF Full
<1>7. Layout'
  <2>1. ASSUME ~restored' PROVE Stamped' /\ \A q \in Procs : ToVisit(q)'
    <3>1. CASE Shrinks
      <4>1. Stamped'
        BY <2>1, <3>1, StampKept DEF HomeInv, Layout
      <4>2. \A q \in Procs : ToVisit(q)'
        BY <1>1, <2>1, <3>1, OthersVisit DEF HomeInv, Layout
      <4> QED BY <4>1, <4>2
    <3>2. CASE schema = 1 /\ \A q \in Procs : run[q].pc = "idle"
      BY <3>2 DEF Stamped, ToVisit
    <3> QED BY <2>1, <3>1, <3>2
  <2> QED BY <2>1 DEF HomeInv, Layout
<1>8. SideStep
  BY DEF SideStep
<1> QED BY <1>2, <1>3, <1>4, <1>5, <1>6, <1>7, <1>8 DEF HomeInv

LEMMA RepairKeeps ==
  ASSUME HomeInv, NEW h \in Installs, Repair(h)
  PROVE  HomeInv' /\ SideStep
<1>1. HomeTypes
  BY Typed DEF HomeInv
<1>2. /\ bad' = bad \ {h} /\ badSide' = badSide \ {h} /\ missing' = missing \ {h}
      /\ UNCHANGED <<schema, ptr, tree, ghost, side, launcher, held, noted, run>> /\ HistoryUnchanged
  BY DEF Repair
<1>3. HomeTypes'
  BY <1>1, <1>2 DEF HomeTypes, HistoryUnchanged
<1>4. Stays
  BY <1>2, SameStays DEF HistoryUnchanged
<1> QED BY <1>2, <1>3, <1>4, UserKeeps DEF Stays, TreeHeld, HistoryUnchanged

LEMMA DeleteLauncherKeeps ==
  ASSUME HomeInv, NEW n \in Names, DeleteLauncher(n)
  PROVE  HomeInv' /\ SideStep
<1>1. /\ launcher' = [launcher EXCEPT ![n] = "none"]
      /\ UNCHANGED <<schema, ptr, tree, ghost, side, bad, badSide, missing, held, noted, run>> /\ HistoryUnchanged
  BY DEF DeleteLauncher
<1>2. held' = held \cup {} /\ {} \in SUBSET Items /\ "none" \in {"none"} \cup Installs
  BY <1>1
<1>3. HomeTypes' /\ Stays
  BY <1>1, <1>2, LauncherChanges
<1> QED BY <1>1, <1>3, UserKeeps DEF Stays, TreeHeld, HistoryUnchanged

LEMMA RestoreKeeps ==
  ASSUME HomeInv, NEW i \in held, Restore(i)
  PROVE  HomeInv' /\ SideStep
<1>1. HomeTypes /\ i \in Items
  BY Typed DEF HomeInv, HomeTypes
<1>2. /\ held' = held \ {i}
      /\ restored' = (restored \/ schema > 1 \/ \E p \in Procs : run[p].pc # "idle")
      /\ UNCHANGED <<home, schema, side, bad, badSide, missing, noted, run, faults, dropped, overlap>>
  BY DEF Restore
<1>3. /\ i.kind = "ptr" => i.of \in Installs /\ i.form \in Keys
      /\ i.kind = "tree" => i.of \in Installs /\ i.form \in Keys
      /\ i.kind = "ghost" => i.of \in Installs
      /\ i.kind = "bin" => i.of \in Names /\ i.form \in {"legacy", "edited"} \cup Installs
  BY <1>1 DEF Items
<1>4. ASSUME HomeTypes',
             \A h \in Installs, k \in Keys : ptr'[h][k] = ptr[h][k] \/ (ptr[h][k] = "none" /\ ptr'[h][k] = "thin"),
             \A h \in Installs : tree[h] # "none" => tree'[h] # "none",
             i.kind = "ptr" => Pointed(i.of)', i.kind = "tree" => tree'[i.of] # "none"
      PROVE  HomeInv' /\ SideStep
  <2>1. PointersStay /\ \A h \in Installs : Pointed(h) => Pointed(h)'
    BY <1>4 DEF PointersStay, Pointed, Keys
  <2>2. \A h \in Installs : /\ Registered(h) => Registered(h)'
                            /\ tree[h] # "none" \/ TreeHeld(h) => tree'[h] # "none" \/ TreeHeld(h)'
    BY <1>2, <1>4, <2>1 DEF Registered, TreeHeld
  <2>3. ~restored' => ~restored /\ schema = 1 /\ \A q \in Procs : run[q].pc = "idle"
    <3>1. ~restored' => ~restored /\ ~(schema > 1) /\ \A q \in Procs : run[q].pc = "idle"
      BY <1>2, Zenon
    <3>2. schema \in 1..3
      BY <1>1 DEF HomeTypes
    <3> QED BY <3>1, <3>2
  <2>4. \A h \in Installs, k \in Keys : ptr'[h][k] = "full" <=> ptr[h][k] = "full"
    BY <1>4
  <2> QED BY <1>2, <1>4, <2>1, <2>2, <2>3, <2>4, UserKeeps
<1>5. restored' \in BOOLEAN
  BY <1>1, <1>2 DEF HomeTypes
<1>6. CASE i.kind = "ptr"
  <2>1. ptr' = [ptr EXCEPT ![i.of][i.form] = "thin"] /\ ptr[i.of][i.form] = "none" /\ UNCHANGED <<tree, launcher, ghost>>
    BY <1>6 DEF Restore
  <2>2. /\ ptr' \in [Installs -> [Keys -> Fill]] /\ ptr'[i.of][i.form] = "thin"
        /\ \A h \in Installs, k \in Keys : h # i.of \/ k # i.form => ptr'[h][k] = ptr[h][k]
    BY <1>1, <1>3, <1>6, <2>1 DEF HomeTypes, Fill
  <2>3. HomeTypes'
    BY <1>1, <1>2, <1>5, <2>1, <2>2 DEF HomeTypes
  <2>4. Pointed(i.of)'
    BY <1>3, <1>6, <2>2 DEF Pointed
  <2> QED BY <1>4, <1>6, <2>1, <2>2, <2>3, <2>4
<1>7. CASE i.kind = "tree"
  <2>1. tree' = [tree EXCEPT ![i.of] = i.form] /\ UNCHANGED <<ptr, launcher, ghost>>
    BY <1>7 DEF Restore
  <2>2. /\ tree' \in [Installs -> Places] /\ tree'[i.of] # "none"
        /\ \A h \in Installs \ {i.of} : tree'[h] = tree[h]
    BY <1>1, <1>3, <1>7, <2>1 DEF HomeTypes, Places, Keys
  <2>3. HomeTypes'
    BY <1>1, <1>2, <1>5, <2>1, <2>2 DEF HomeTypes
  <2> QED BY <1>4, <1>7, <2>1, <2>2, <2>3
<1>8. CASE i.kind = "bin"
  <2>1. launcher' = [launcher EXCEPT ![i.of] = i.form] /\ UNCHANGED <<ptr, tree, ghost>>
    BY <1>8 DEF Restore
  <2>2. launcher' \in [Names -> {"none", "legacy", "edited"} \cup Installs]
    BY <1>1, <1>3, <1>8, <2>1 DEF HomeTypes
  <2>3. HomeTypes'
    BY <1>1, <1>2, <1>5, <2>1, <2>2 DEF HomeTypes
  <2> QED BY <1>4, <1>8, <2>1, <2>3
<1>9. CASE i.kind = "ghost"
  <2>1. ghost' = ghost \cup {i.of} /\ UNCHANGED <<ptr, tree, launcher>>
    BY <1>9 DEF Restore
  <2>2. HomeTypes'
    BY <1>1, <1>2, <1>3, <1>5, <1>9, <2>1 DEF HomeTypes
  <2> QED BY <1>4, <1>9, <2>1, <2>2
<1> QED BY <1>6, <1>7, <1>8, <1>9 DEF Restore

LEMMA DropKeeps ==
  ASSUME HomeInv, NEW i \in held, Drop(i)
  PROVE  HomeInv' /\ SideStep
<1>1. HomeTypes /\ i \in Items
  BY Typed DEF HomeInv, HomeTypes
<1>2. /\ held' = held \ {i} /\ dropped' = dropped \cup ({i.of} \cap Installs)
      /\ UNCHANGED <<schema, ptr, tree, ghost, side, bad, badSide, missing, launcher, noted, run>>
      /\ UNCHANGED <<home, faults, restored, overlap>>
  BY DEF Drop
<1>3. i.kind \in {"ptr", "tree"} => i.of \in Installs /\ i.of \in dropped'
  BY <1>1, <1>2 DEF Items
<1>4. HomeTypes'
  BY <1>1, <1>2 DEF HomeTypes
<1>5. PointersStay
  BY <1>2 DEF PointersStay, Pointed
<1>6. \A h \in Installs \ dropped' : /\ Registered(h) => Registered(h)'
                                     /\ tree[h] # "none" \/ TreeHeld(h) => tree'[h] # "none" \/ TreeHeld(h)'
  BY <1>2, <1>3 DEF Registered, Pointed, TreeHeld
<1>7. Shrinks
  BY <1>2, <1>3 DEF Shrinks, InstallExists, Excused
<1> QED BY <1>2, <1>4, <1>5, <1>6, <1>7, UserKeeps

-----------------------------------------------------------------------------
LEMMA HomeStarts == Init => HomeInv
<1> SUFFICES ASSUME Init PROVE HomeInv
  OBVIOUS
<1>1. home \subseteq Installs
  BY Nothing DEF Init
<1>2. TypeOK
  <2>1. run \in [Procs -> Runs]
    BY DEF Init, Idle, Runs
  <2>2. HomeTypes
    <3>1. ptr \in [Installs -> [Keys -> Fill]] /\ tree \in [Installs -> Places]
      BY DEF Init, Fill, Places
    <3>2. launcher \in [Names -> {"none", "legacy", "edited"} \cup Installs]
      BY DEF Init
    <3>3. \A s \in {ghost, side, bad, badSide, missing, dropped} : s \subseteq Installs
      BY <1>1 DEF Init
    <3>4. home \in Homes /\ schema \in 1..3 /\ held \subseteq Items /\ noted \subseteq Items /\ faults \in 0..MaxFaults
      BY Nothing DEF Init
    <3>5. restored \in BOOLEAN /\ overlap \in BOOLEAN
      BY DEF Init
    <3> QED BY <3>1, <3>2, <3>3, <3>4, <3>5 DEF HomeTypes
  <2> QED BY <2>1, <2>2, Typed
<1>3. \A p \in Procs : run[p].pc = "idle" /\ run[p].mid = None
  BY DEF Init, Idle
<1>4. Middles
  BY <1>3 DEF Middles, Middle
<1>5. RegistrationKept /\ ProvenanceKept
  BY <1>1 DEF Init, RegistrationKept, ProvenanceKept, Keys
<1>6. Alone
  BY <1>3 DEF Init, Alone, Early
<1>7. Layout
  BY <1>3 DEF Init, Layout, Stamped, ToVisit, Late
<1> QED BY <1>2, <1>4, <1>5, <1>6, <1>7 DEF HomeInv

LEMMA HomeSteps == HomeInv /\ Next => HomeInv' /\ SideStep
<1> SUFFICES ASSUME HomeInv, Next PROVE HomeInv' /\ SideStep
  OBVIOUS
<1>1. ASSUME NEW p \in Procs, Step(p) PROVE HomeInv' /\ SideStep
  <2>1. CASE PassDone(p) \/ WriteManifest(p) \/ WriteSchemaVersion(p)
    BY <2>1, PassDoneKeeps, WriteManifestKeeps, WriteSchemaVersionKeeps
  <2>2. CASE WritePointer(p) \/ RemoveOldPointer(p) \/ StampTree(p) \/ RenameTree(p)
    BY <2>2, WritePointerKeeps, RemoveOldPointerKeeps, StampTreeKeeps, RenameTreeKeeps
  <2>3. CASE RemoveCopy(p) \/ RemoveSide(p)
    BY <2>3, RemoveCopyKeeps, RemoveSideKeeps
  <2>4. ASSUME NEW x \in Installs \X Keys,
               PointerEntry(p, x) \/ TreeEntry(p, x) \/ CollapseEntry(p, x) \/ AbsorbEntry(p, x)
        PROVE  HomeInv' /\ SideStep
    <3>1. PICK h \in Installs, k \in Keys : x = <<h, k>>
      OBVIOUS
    <3> QED BY <2>4, <3>1, PointerEntryKeeps, TreeEntryKeeps, CollapseEntryKeeps, AbsorbEntryKeeps
  <2>5. ASSUME NEW n \in Names, LauncherEntry(p, n) PROVE HomeInv' /\ SideStep
    BY <2>5, LauncherEntryKeeps
  <2> QED BY <1>1, <2>1, <2>2, <2>3, <2>4, <2>5 DEF Step
<1>2. CASE User
  BY <1>2, RepairKeeps, DeleteLauncherKeeps, RestoreKeeps, DropKeeps DEF User
<1> QED BY <1>1, <1>2, KillKeeps, StartKeeps DEF Next

LEMMA HomeStutters == HomeInv /\ UNCHANGED vars => HomeInv'
BY DEF vars, HomeInv, TypeOK, Middles, Middle, RegistrationKept, Alone, ProvenanceKept, Layout, Stamped, ToVisit,
       NoOldPointers, NoOldTrees, LaunchersMoved, Collapsed, Excused, InstallExists

\* However many migrations run, fail and are killed, with whatever the user does in
\* between, what the definitions above say of the home holds (canonicalid.go:121-133).
THEOREM HomeInvariant == Spec => []HomeInv
<1>1. HomeInv /\ [Next]_vars => HomeInv'
  BY HomeSteps, HomeStutters
<1> QED BY HomeStarts, <1>1, PTL DEF Spec

\* The home and the migrations are always what the types say.
THEOREM HomeTypesHold == Spec => []TypeOK
<1>1. HomeInv => TypeOK
  BY DEF HomeInv
<1> QED BY <1>1, HomeInvariant, PTL

\* No install is ever forgotten, and no provenance is lost while migrations come one
\* after the other (canonicalid.go:121-133, local_install_collapse.go:17-35).
THEOREM HomeLosesNothing == Spec => []NothingLost
<1>1. HomeInv => NothingLost
  BY DEF HomeInv, NothingLost
<1> QED BY <1>1, HomeInvariant, PTL

\* A stamped home has nothing in an older layout, unless the user put it back.
THEOREM StampsMeanMoved == Spec => []StampMeansMoved
<1>1. HomeInv => StampMeansMoved
  BY Nothing DEF HomeInv, StampMeansMoved, Layout, Stamped, NoOldPointers, NoOldTrees, LaunchersMoved, Collapsed, Excused
<1> QED BY <1>1, HomeInvariant, PTL

\* A record leaves the user's source tree only once the pointer has what it said, and
\* no pointer loses its provenance again.
THEOREM SideFilesAbsorbed == Spec => SideAbsorbed
<1>1. HomeInv /\ [Next]_vars => [SideStep]_vars
  BY HomeSteps
<1>2. [SideStep]_vars => [overlap \/ \A h \in Installs :
        /\ h \in side \ side' => \E k \in Keys : ptr[h][k] = "full"
        /\ (\E k \in Keys : ptr[h][k] = "full") => \E k \in Keys : ptr'[h][k] = "full"]_vars
  BY DEF SideStep
<1> QED BY <1>1, <1>2, HomeInvariant, PTL DEF Spec, SideAbsorbed

=============================================================================

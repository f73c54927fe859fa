----------------------------- MODULE CheckGate -----------------------------
(* `ynh check` and the baseline it ratchets on: the runs that observe a       *)
(* harness's sensors and judge them against what the repository has accepted, *)
(* the runs of --update-baseline that accept what they observe, and the files *)
(* under .ynh/baseline they share, one for each sensor, with no lock between  *)
(* them (cmd/ynh/check.go, internal/baseline/baseline.go).                    *)
(*                                                                            *)
(* A file is read and written as the code does it: listed, then read one by   *)
(* one; truncated, then written; pruned after everything else. A run may be   *)
(* killed, or fail, between any two of these.                                 *)
EXTENDS Naturals, FiniteSets

CONSTANTS
    Checks,          \* the processes of ynh check
    Harnesses,       \* the harnesses that gate this repository
    Sensors,         \* their sensors; one baseline file for each
    Rank,            \* [Sensors -> Nat], the order of their names
    HarnessOf,       \* [Sensors -> Harnesses]
    Kind,            \* [Sensors -> {"command", "files", "focus"}]
    Ratchet,         \* [Sensors -> {"findings", "count"}]
    Blocking,        \* the sensors whose failure blocks, unless a profile softens it
    Findings,        \* the distinct lines a failing sensor prints
    OutcomesOf,      \* [Sensors -> sets of outcomes]: what each may come to
    Committed,       \* baselines the repository may be cloned with: accepted failures
    Asks,            \* the command lines a run is started with
    MaxFingerprints, \* more distinct findings than this are not recorded one by one
    MaxRuns,         \* bound: runs started
    MaxEvents        \* bound: edits of the tree, kills, failed saves, merges, repairs

CONSTANTS Absent,      \* no such file; no such entry
          Unreadable,  \* an empty or half written file, or one with conflict markers
          NotSeen,     \* a sensor a run has not observed
          NoSensor, NoAsk, NoResult

\* What a sensor may come to: it passes; it fails with findings, some of them
\* printed more than once; its command cannot be found or cannot observe; its
\* process could not be started at all. A files sensor is green when its
\* artifact is fresh and fails when it is not; a focus sensor only resolves.
OutcomesType ==
  [ status : {"green", "failing", "broken", "unstarted"},
    findings : SUBSET Findings, total : Nat ]

AsksType ==
  [ harness : Harnesses, only : SUBSET Sensors, overlay : SUBSET Sensors,
    update : BOOLEAN, noBaseline : BOOLEAN, soft : BOOLEAN, gated : BOOLEAN ]

ASSUME GateAssumption ==
  /\ HarnessOf \in [Sensors -> Harnesses]
  /\ Rank \in [Sensors -> Nat]
  /\ Kind \in [Sensors -> {"command", "files", "focus"}]
  /\ Ratchet \in [Sensors -> {"findings", "count"}]
  /\ Blocking \subseteq Sensors
  /\ IsFiniteSet(Findings) /\ IsFiniteSet(Sensors)
  /\ \A s \in Sensors : \A o \in OutcomesOf[s] :
       /\ o \in OutcomesType
       /\ o.status \in {"green", "broken"} => o.findings = {}
       /\ o.total >= Cardinality(o.findings)
       /\ Kind[s] = "files" => o.status \in {"green", "failing"} /\ o.findings = {}
       /\ Kind[s] = "focus" => o.status = "green"
  /\ \A c \in Committed : \A s \in Sensors :
       c[s] # NotSeen => c[s] \in OutcomesOf[s] /\ c[s].status = "failing" /\ Kind[s] = "command"
  /\ \A a \in Asks : a \in AsksType /\ \A s \in a.only \union a.overlay : HarnessOf[s] = a.harness
  /\ MaxFingerprints \in Nat /\ MaxRuns \in Nat /\ MaxEvents \in Nat

VARIABLES
    outcome,    \* what each sensor would come to on the tree as it is now
    file,       \* the baseline files
    phase,      \* of each run: "idle", "running", "saving", "pruning", "judged"
    ask,        \* what each run was asked
    unlisted,   \* harness directories a run has yet to list
    listing,    \* files a run has listed and has yet to read, or to remove
    base,       \* the entries a run has loaded
    seen,       \* what a run has observed
    unsaved,    \* entries a run has yet to write
    writing,    \* the file a run has truncated and not yet written
    result,     \* a judged run's verdict, and whether it called the baseline stale
    accepted,   \* history: the failures update runs have accepted, of each sensor
    word,       \* history: what the last finished update that ran a sensor left of it
    overlapped, \* history: two updates have been under way at once
    begun, events

disk == <<outcome, file>>
work == <<phase, ask, unlisted, listing, base, seen, unsaved, writing, result>>
history == <<accepted, word, overlapped>>
vars == <<disk, work, history, begun, events>>
-----------------------------------------------------------------------------
(* Recording and comparing *)

Commands == { s \in Sensors : Kind[s] = "command" }

\* An exit status of 126 or 127, or a GitHub observation that is not there.
\* A process that could not be started exits -1, which is neither.
Broken(o) == o.status = "broken"
Fails(o)  == o.status \in {"failing", "unstarted"}

Truncates(o) == Cardinality(o.findings) > MaxFingerprints

Record(o) ==
  [ findings  |-> IF Truncates(o) THEN {} ELSE o.findings,
    count     |-> Cardinality(o.findings),
    total     |-> o.total,
    truncated |-> Truncates(o) ]

Outcomes == UNION { OutcomesOf[s] : s \in Sensors }
Records == { Record(o) : o \in { x \in Outcomes : Fails(x) } }

ASSUME MarkerAssumption ==
  /\ Absent \notin Records /\ Unreadable \notin Records /\ Absent # Unreadable
  /\ NotSeen \notin Outcomes /\ NoSensor \notin Sensors /\ NoAsk \notin Asks
  /\ NoResult \notin [pass : BOOLEAN, stale : BOOLEAN]

NoEntries == [s \in Sensors |-> Absent]

\* Mutant of CompareTotals: distinct findings counted, as fingerprints are.
CompareDistinct(entry, o) ==
  IF entry = Absent
  THEN [new |-> {}, fixed |-> FALSE, regressed |-> o.total > 0]
  ELSE [ new |-> {}, fixed |-> Cardinality(o.findings) < entry.count,
         regressed |-> Cardinality(o.findings) > entry.count ]

\* How a failing sensor has moved against its entry.
CompareTotals(entry, o) ==
  IF entry = Absent
  THEN [new |-> {}, fixed |-> FALSE, regressed |-> o.total > 0]
  ELSE [new |-> {}, fixed |-> o.total < entry.total, regressed |-> o.total > entry.total]

Compare(entry, o) ==
  IF entry = Absent THEN [new |-> o.findings, fixed |-> FALSE, regressed |-> FALSE]
  ELSE IF entry.truncated
  THEN [ new |-> {}, fixed |-> Cardinality(o.findings) < entry.count,
         regressed |-> Cardinality(o.findings) > entry.count ]
  ELSE [ new |-> o.findings \ entry.findings, regressed |-> FALSE,
         fixed |-> entry.findings \ o.findings # {} ]

Moved(entry, s, o) ==
  IF Ratchet[s] = "count" THEN CompareTotals(entry, o) ELSE Compare(entry, o)

Forgiven(entry, s, o) ==
  entry # Absent /\ Moved(entry, s, o).new = {} /\ ~Moved(entry, s, o).regressed

Fixed(entry, s, o) ==
  IF o.status = "green" THEN entry # Absent /\ entry.count > 0
                        ELSE Moved(entry, s, o).fixed
-----------------------------------------------------------------------------
(* A run of ynh check *)

Wanted(p) ==
  { s \in Sensors : HarnessOf[s] = ask[p].harness /\ (ask[p].only = {} \/ s \in ask[p].only) }

Ran(p) == { s \in Commands : seen[p][s] # NotSeen }

\* --no-baseline forgives nothing, and still loads.
Base(p) == IF ask[p].noBaseline THEN NoEntries ELSE base[p]

\* What an update makes of a sensor it ran, and of the others: a green sensor's
\* entry is cleared, a failing one's replaced.
Decision(p, s) == IF Fails(seen[p][s]) THEN Record(seen[p][s]) ELSE Absent
\* Mutant of Recording: started from empty, not from what is on disk.
RecordingAfresh(p) == [s \in Sensors |-> IF s \in Ran(p) THEN Decision(p, s) ELSE Absent]

Recording(p) == [s \in Sensors |-> IF s \in Ran(p) THEN Decision(p, s) ELSE base[p][s]]

Updating(p) == phase[p] \in {"running", "saving", "pruning"} /\ ask[p].update
Saving(p)   == phase[p] \in {"saving", "pruning"}

\* A process ends and its memory with it; what it told of the code, if it did,
\* stays: of every other end (exit 2, a kill, a recorded baseline) nothing does.
Forget(p) ==
  /\ base' = [base EXCEPT ![p] = NoEntries]
  /\ unlisted' = [unlisted EXCEPT ![p] = {}]
  /\ listing' = [listing EXCEPT ![p] = {}]
  /\ unsaved' = [unsaved EXCEPT ![p] = {}]
  /\ writing' = [writing EXCEPT ![p] = NoSensor]

NothingSeen == [s \in Sensors |-> NotSeen]

End(p) ==
  /\ phase' = [phase EXCEPT ![p] = "idle"]
  /\ ask' = [ask EXCEPT ![p] = NoAsk]
  /\ seen' = [seen EXCEPT ![p] = NothingSeen]
  /\ Forget(p)
  /\ UNCHANGED result

\* Nothing being gated may move the gate's reference point, and a substitute
\* command's output is not recorded under the declared sensor's name.
Refused(a) == a.update /\ (a.overlay # {} \/ a.gated)

DirectoriesOnDisk == { HarnessOf[s] : s \in { x \in Sensors : file[x] # Absent } }

\* A refused run ends before it reads a file.
Begin(p, a) ==
  /\ phase[p] \in {"idle", "judged"}
  /\ begun < MaxRuns /\ begun' = begun + 1
  /\ ~Refused(a)
  /\ phase' = [phase EXCEPT ![p] = "running"]
  /\ ask' = [ask EXCEPT ![p] = a]
  /\ seen' = [seen EXCEPT ![p] = NothingSeen]
  /\ result' = [result EXCEPT ![p] = NoResult]
  /\ unlisted' = [unlisted EXCEPT ![p] = DirectoriesOnDisk]
  /\ overlapped' = (overlapped \/ (a.update /\ \E q \in Checks \ {p} : Updating(q)))
  /\ UNCHANGED <<disk, listing, base, unsaved, writing, accepted, word, events>>

\* Load, and pruneStale later: each harness directory is listed, its files are
\* dealt with one by one, then comes the next directory.
List(p, h, found) ==
  /\ h \in unlisted[p] /\ listing[p] = {}
  /\ unlisted' = [unlisted EXCEPT ![p] = @ \ {h}]
  /\ listing' = [listing EXCEPT ![p] = { s \in found : HarnessOf[s] = h /\ file[s] # Absent }]

ListToLoad(p, h) ==
  /\ phase[p] = "running"
  /\ List(p, h, Sensors)
  /\ UNCHANGED <<disk, history, begun, events, phase, ask, base, seen, unsaved, writing, result>>

\* A directory, or a file, that is gone by the time it is opened is an error.
ReadEntry(p, s) ==
  /\ phase[p] = "running" /\ s \in listing[p]
  /\ file[s] \in Records
  /\ listing' = [listing EXCEPT ![p] = @ \ {s}]
  /\ base' = [base EXCEPT ![p][s] = file[s]]
  /\ UNCHANGED <<disk, history, begun, events, phase, ask, unlisted, seen, unsaved, writing, result>>

CannotLoad(p) ==
  /\ phase[p] = "running"
  /\ \/ \E s \in listing[p] : file[s] \in {Absent, Unreadable}
     \/ listing[p] = {} /\ \E h \in unlisted[p] : h \notin DirectoriesOnDisk
  /\ End(p)
  /\ UNCHANGED <<disk, history, begun, events>>

Loaded(p) == phase[p] = "running" /\ unlisted[p] = {} /\ listing[p] = {}

Unobserved(p) == { s \in Wanted(p) : seen[p][s] = NotSeen }

\* Sensors run in the order of their names, each on the tree as it is at that
\* moment; an overlaid one runs another command, whatever that comes to.
Observe(p, s, o) ==
  /\ Loaded(p)
  /\ s \in Unobserved(p) /\ \A t \in Unobserved(p) : Rank[s] <= Rank[t]
  /\ IF s \in ask[p].overlay THEN o \in OutcomesOf[s] ELSE o = outcome[s]
  /\ seen' = [seen EXCEPT ![p][s] = o]
  /\ UNCHANGED <<disk, history, begun, events, phase, ask, unlisted, listing, base, unsaved, writing, result>>

Observed(p) == Loaded(p) /\ Unobserved(p) = {}

\* Mutant of BrokenGate: refused when judging, not when recording.
BrokenVerdict(p) == ~ask[p].update /\ \E s \in Ran(p) : Broken(seen[p][s])

BrokenGate(p) == \E s \in Ran(p) : Broken(seen[p][s])

\* Exit 2 before anything is recorded or judged.
ReportBroken(p) ==
  /\ Observed(p) /\ BrokenGate(p)
  /\ End(p)
  /\ UNCHANGED <<disk, history, begun, events>>

StartSave(p) ==
  /\ Observed(p) /\ ~BrokenGate(p) /\ ask[p].update
  /\ phase' = [phase EXCEPT ![p] = "saving"]
  /\ unsaved' = [unsaved EXCEPT ![p] = { s \in Sensors : Recording(p)[s] # Absent }]
  /\ accepted' = [s \in Sensors |->
       accepted[s] \union IF s \in Ran(p) /\ Fails(seen[p][s]) THEN {seen[p][s]} ELSE {}]
  /\ UNCHANGED <<disk, begun, events, ask, unlisted, listing, base, seen, writing, result, word, overlapped>>

\* A failing command is forgiven by its entry; a files sensor fails on an
\* artifact that is not fresh; a focus sensor never gates.
Stands(p, s) ==
  LET o == seen[p][s] IN
  \/ Kind[s] = "focus"
  \/ o.status = "green"
  \/ s \in Commands /\ Forgiven(Base(p)[s], s, o)

Gates(p, s) == s \in Blocking /\ ~ask[p].soft

Stale(p) == \E s \in Ran(p) \ ask[p].overlay : Fixed(Base(p)[s], s, seen[p][s])

Judge(p) ==
  /\ Observed(p) /\ ~BrokenGate(p) /\ ~ask[p].update
  /\ phase' = [phase EXCEPT ![p] = "judged"]
  /\ result' = [result EXCEPT ![p] =
       [pass |-> \A s \in Wanted(p) : Stands(p, s) \/ ~Gates(p, s), stale |-> Stale(p)]]
  /\ Forget(p)
  /\ UNCHANGED <<disk, history, begun, events, ask, seen>>
-----------------------------------------------------------------------------
(* Save: every entry is written, also the ones this run did not look at; what *)
(* is no longer recorded is then removed. Nothing is atomic.                  *)

Truncate(p, s) ==
  /\ phase[p] = "saving" /\ writing[p] = NoSensor /\ s \in unsaved[p]
  /\ writing' = [writing EXCEPT ![p] = s]
  /\ file' = [file EXCEPT ![s] = Unreadable]
  /\ UNCHANGED <<outcome, history, begun, events, phase, ask, unlisted, listing, base, seen, unsaved, result>>

\* A file another run has written since it was truncated may end up with either
\* run's text or with the longer one's tail; one that was removed stays removed.
Lands(s, r) ==
  IF file[s] = Unreadable THEN {r} ELSE IF file[s] = Absent THEN {Absent} ELSE {r, file[s], Unreadable}

Write(p) ==
  /\ phase[p] = "saving" /\ writing[p] # NoSensor
  /\ \E r \in Lands(writing[p], Recording(p)[writing[p]]) : file' = [file EXCEPT ![writing[p]] = r]
  /\ unsaved' = [unsaved EXCEPT ![p] = @ \ {writing[p]}]
  /\ writing' = [writing EXCEPT ![p] = NoSensor]
  /\ UNCHANGED <<outcome, history, begun, events, phase, ask, unlisted, listing, base, seen, result>>

StartPrune(p) ==
  /\ phase[p] = "saving" /\ writing[p] = NoSensor /\ unsaved[p] = {}
  /\ phase' = [phase EXCEPT ![p] = "pruning"]
  /\ unlisted' = [unlisted EXCEPT ![p] = DirectoriesOnDisk]
  /\ UNCHANGED <<disk, history, begun, events, ask, listing, base, seen, unsaved, writing, result>>

ListToPrune(p, h) ==
  /\ phase[p] = "pruning"
  /\ List(p, h, { s \in Sensors : Recording(p)[s] = Absent })
  /\ UNCHANGED <<disk, history, begun, events, phase, ask, base, seen, unsaved, writing, result>>

\* What a run that has started to save leaves as the last word on the sensors
\* it ran: its decision if it finished, that or the word before it if not.
LeftBy(p, finished) ==
  [ s \in Sensors |->
      IF s \notin Ran(p) THEN word[s]
      ELSE IF finished THEN {Decision(p, s)} ELSE word[s] \union {Decision(p, s)} ]

\* Removing a file that is already gone is an error; the run ends there.
Remove(p, s) ==
  /\ phase[p] = "pruning" /\ s \in listing[p]
  /\ file' = [file EXCEPT ![s] = Absent]
  /\ IF file[s] = Absent
     THEN End(p) /\ word' = LeftBy(p, FALSE)
     ELSE /\ listing' = [listing EXCEPT ![p] = @ \ {s}]
          /\ UNCHANGED <<phase, ask, unlisted, base, seen, unsaved, writing, result, word>>
  /\ UNCHANGED <<outcome, accepted, overlapped, begun, events>>

Finish(p) ==
  /\ phase[p] = "pruning" /\ unlisted[p] = {} /\ listing[p] = {}
  /\ End(p)
  /\ word' = LeftBy(p, TRUE)
  /\ UNCHANGED <<disk, accepted, overlapped, begun, events>>
-----------------------------------------------------------------------------
(* Faults, and people *)

Happens == events < MaxEvents /\ events' = events + 1

\* A kill anywhere, and the errors that end a run: of a sensor's run, or of the
\* file system while saving.
Kill(p) ==
  /\ phase[p] \in {"running", "saving", "pruning"}
  /\ Happens
  /\ End(p)
  /\ word' = IF Saving(p) THEN LeftBy(p, FALSE) ELSE word
  /\ UNCHANGED <<disk, accepted, overlapped, begun>>

\* The code under the gate is edited.
Edit(s, o) ==
  /\ Happens
  /\ o \in OutcomesOf[s]
  /\ outcome' = [outcome EXCEPT ![s] = o]
  /\ UNCHANGED <<file, work, history, begun>>

\* Nobody merges, or repairs a baseline by hand, while one is being recorded.
NobodyRecords == \A p \in Checks : ~Updating(p)

Merge(s) ==
  /\ Happens /\ NobodyRecords /\ file[s] \in Records
  /\ file' = [file EXCEPT ![s] = Unreadable]
  /\ UNCHANGED <<outcome, work, history, begun>>

Repair(s, r) ==
  /\ Happens /\ NobodyRecords /\ file[s] = Unreadable
  /\ r \in {Absent} \union { Record(o) : o \in accepted[s] }
  /\ file' = [file EXCEPT ![s] = r]
  /\ word' = [word EXCEPT ![s] = {r}]
  /\ UNCHANGED <<outcome, work, accepted, overlapped, begun>>
-----------------------------------------------------------------------------
\* A repository as it is cloned: its code green, and the baseline it came with.
Init ==
  /\ outcome \in [Sensors -> { o \in Outcomes : o.status = "green" }]
  /\ \A s \in Sensors : outcome[s] \in OutcomesOf[s]
  /\ accepted \in { [s \in Sensors |-> {c[s]} \ {NotSeen}] : c \in Committed }
  /\ file = [s \in Sensors |-> IF accepted[s] = {} THEN Absent
                                           ELSE Record(CHOOSE o \in accepted[s] : TRUE)]
  /\ word = [s \in Sensors |-> {file[s]}]
  /\ phase = [p \in Checks |-> "idle"]
  /\ ask = [p \in Checks |-> NoAsk]
  /\ unlisted = [p \in Checks |-> {}]
  /\ listing = [p \in Checks |-> {}]
  /\ base = [p \in Checks |-> NoEntries]
  /\ seen = [p \in Checks |-> NothingSeen]
  /\ unsaved = [p \in Checks |-> {}]
  /\ writing = [p \in Checks |-> NoSensor]
  /\ result = [p \in Checks |-> NoResult]
  /\ overlapped = FALSE
  /\ begun = 0 /\ events = 0

CheckStep(p) ==
  \/ \E a \in Asks : Begin(p, a)
  \/ \E h \in Harnesses : ListToLoad(p, h) \/ ListToPrune(p, h)
  \/ \E s \in Sensors : ReadEntry(p, s) \/ Truncate(p, s) \/ Remove(p, s)
  \/ \E s \in Sensors, o \in Outcomes : Observe(p, s, o)
  \/ CannotLoad(p) \/ ReportBroken(p) \/ StartSave(p) \/ Judge(p)
  \/ Write(p) \/ StartPrune(p) \/ Finish(p)
  \/ Kill(p)

Next ==
  \/ \E p \in Checks : CheckStep(p)
  \/ \E s \in Sensors, o \in Outcomes : Edit(s, o)
  \/ \E s \in Sensors : Merge(s) \/ \E r \in Records \union {Absent} : Repair(s, r)

Spec == Init /\ [][Next]_vars
-----------------------------------------------------------------------------
(* Properties *)

Entries == Records \union {Absent}

RepositoryTypes ==
  /\ outcome \in [Sensors -> Outcomes]
  /\ file \in [Sensors -> Entries \union {Unreadable}]
  /\ accepted \in [Sensors -> SUBSET Outcomes]
  /\ word \in [Sensors -> SUBSET Entries]
  /\ overlapped \in BOOLEAN
  /\ begun \in 0..MaxRuns /\ events \in 0..MaxEvents

RunTypes ==
  /\ phase \in [Checks -> {"idle", "running", "saving", "pruning", "judged"}]
  /\ ask \in [Checks -> Asks \union {NoAsk}]
  /\ unlisted \in [Checks -> SUBSET Harnesses]
  /\ listing \in [Checks -> SUBSET Sensors]
  /\ base \in [Checks -> [Sensors -> Entries]]
  /\ seen \in [Checks -> [Sensors -> Outcomes \union {NotSeen}]]
  /\ unsaved \in [Checks -> SUBSET Sensors]
  /\ writing \in [Checks -> Sensors \union {NoSensor}]
  /\ result \in [Checks -> [pass : BOOLEAN, stale : BOOLEAN] \union {NoResult}]

PhasesFit ==
  \A p \in Checks : /\ ask[p] = NoAsk <=> phase[p] = "idle"
                    /\ result[p] = NoResult <=> phase[p] # "judged"

\* Every variable keeps to its type; a run has a question from when it begins, and an
\* answer once it has judged (cmdCheck, Load, Save, pruneStale).
TypeOK == RepositoryTypes /\ RunTypes /\ PhasesFit

\* What accepting the failure `a` of a sensor excuses: no more of it where the
\* quantity is the finding, or where there was too much to record; otherwise
\* nothing that was not in it. A silent failure excuses a silent failure.
Excused(s, o, a) ==
  IF Ratchet[s] = "count" THEN o.total <= a.total
  ELSE IF Truncates(a) THEN Cardinality(o.findings) <= Cardinality(a.findings)
  ELSE o.findings \subseteq a.findings

\* Less than what was accepted: a finding that is gone, or fewer lines.
Improved(o, a) == a.findings \ o.findings # {} \/ o.total < a.total

\* The gate opens only if every command and artifact that may block it came to
\* green, or failed in a way that one deliberate update, at some time, saw
\* and accepted: whatever runs were killed, failed or interleaved on the files
\* it read, and never for a run that forgives nothing (check.go cmdCheck).  And a
\* run calls the baseline stale, which tells the operator to narrow it, only if a
\* declared sensor, never a substitute command alone, did better than a failure that
\* was accepted (check.go:344-354, 398-404).
PassIsEarned ==
  \A p \in Checks : phase[p] = "judged" =>
    /\ result[p].pass =>
         \A s \in { x \in Wanted(p) : Gates(p, x) /\ Kind[x] # "focus" } :
           \/ seen[p][s].status = "green"
           \/ /\ Kind[s] = "command" /\ ~Broken(seen[p][s]) /\ ~ask[p].noBaseline
              /\ \E a \in accepted[s] : Excused(s, seen[p][s], a)
    /\ result[p].stale =>
         \E s \in Ran(p) \ ask[p].overlay : \E a \in accepted[s] : Improved(seen[p][s], a)

\* No file is touched by a run that was asked by an agent session or CI, ran a
\* substitute command, was not asked to record, has a sensor yet to observe, or
\* had one that could not: a broken gate is never recorded, not even of the
\* sensors that did run (check.go:134-161, 479-491).  Nor, as long as updates have
\* not overlapped, is an entry saved over or pruned that could not be read: one that
\* is unreadable meanwhile is the one being written (check.go:173-183, Load).
SavesAreDeliberate ==
  \A p \in Checks : Saving(p) =>
    /\ ask[p].update /\ ~ask[p].gated /\ ask[p].overlay = {}
    /\ Unobserved(p) = {}
    /\ \A s \in Wanted(p) \intersect Commands : ~Broken(seen[p][s])
    /\ ~overlapped => \A s \in Sensors : file[s] = Unreadable => writing[p] = s

\* As long as updates have not overlapped, a baseline file says what the last
\* update that ran its sensor decided, or is unreadable: an update leaves the
\* entries of the sensors it did not run, of other harnesses too, and a sensor
\* that went green stops being forgiven (check.go:190-198, Save, pruneStale).
\* Killed and failed updates count: they may have left either decision.
LastWordKept ==
  ~overlapped =>
    \A s \in Sensors : file[s] \in word[s] \union {Unreadable}
      \union { Decision(p, s) : p \in { q \in Checks : Saving(q) /\ s \in Ran(q) } }

\* The gate does not open over a command that may block it and whose process
\* could not be started: "A command that never ran is a broken gate, not a
\* finding." (check.go:300; the run is "a runner failure", sensors.go:512).
AbsenceNeverForgiven ==
  \A p \in Checks : phase[p] = "judged" /\ result[p].pass =>
    \A s \in Wanted(p) : Gates(p, s) => seen[p][s].status # "unstarted"
=============================================================================

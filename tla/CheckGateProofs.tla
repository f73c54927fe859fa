---------------------------- MODULE CheckGateProofs ----------------------------
(* Theorems about CheckGate, for any sensors, findings, outcomes, runs and      *)
(* limits: a gate opens only over what was accepted; what is saved is           *)
(* deliberate; and the files hold the last word, however runs interleave, are   *)
(* killed, or fail on what others do.                                           *)
EXTENDS CheckGate, FiniteSetTheorems, TLAPS

Accepted(s) == {Absent} \union { Record(o) : o \in accepted[s] }

\* What the sensors come to is theirs, and what is accepted of them are failures.
Known ==
  /\ \A s \in Sensors : outcome[s] \in OutcomesOf[s]
  /\ \A s \in Sensors : accepted[s] \subseteq { o \in OutcomesOf[s] : Fails(o) }
  /\ \A p \in Checks, s \in Sensors : seen[p][s] \in OutcomesOf[s] \union {NotSeen}

\* Whatever is in a file, or was read from one, was accepted at some time.
Backed ==
  /\ \A s \in Sensors : file[s] \in Accepted(s) \union {Unreadable}
  /\ \A p \in Checks, s \in Sensors : base[p][s] \in Accepted(s)

\* What a run keeps for later it keeps only while it is in a phase that uses it.
AtRest(p) ==
  /\ phase[p] \in {"idle", "judged"} => base[p] = NoEntries /\ unlisted[p] = {} /\ listing[p] = {}
  /\ phase[p] = "saving" => unlisted[p] = {} /\ listing[p] = {}
  /\ phase[p] # "saving" => unsaved[p] = {} /\ writing[p] = NoSensor

Resting == \A p \in Checks : AtRest(p)

\* A run that saves was asked to, saw all it should, and has accepted what it saw.
Means(p) ==
  /\ phase[p] # "idle" => ask[p] \in Asks /\ ~Refused(ask[p])
  /\ Saving(p) =>
       /\ ask[p].update /\ Unobserved(p) = {} /\ ~BrokenGate(p)
       /\ \A s \in Ran(p) : Fails(seen[p][s]) => seen[p][s] \in accepted[s]

Deliberate == \A p \in Checks : Means(p)

\* A run whose updating overlaps no other's, while it reads: what it has not read it
\* will, and nobody changes what it has.
ReadsAll(p) ==
  \A s \in Sensors :
    \/ base[p][s] = file[s]
    \/ base[p][s] = Absent /\ (HarnessOf[s] \in unlisted[p] \/ s \in listing[p])

\* And while it saves: what it has written is there, and what it has not is what it
\* read, or the last word on a sensor it ran.
SaveFits(p, s, r) ==
  /\ s \notin Ran(p) => r \in word[s]
  /\ file[s] \in word[s] \union {r, Unreadable}
  /\ file[s] = Unreadable <=> writing[p] = s
  /\ s \in unsaved[p] => r # Absent
  /\ r # Absent => s \in unsaved[p] \/ file[s] = r
  /\ phase[p] = "pruning" => /\ s \in listing[p] => r = Absent
                             /\ r = Absent => file[s] = Absent \/ HarnessOf[s] \in unlisted[p] \/ s \in listing[p]
  /\ writing[p] = s => s \in unsaved[p]

SavesAll(p) == \A s \in Sensors : SaveFits(p, s, Recording(p)[s])

Alone ==
  ~overlapped =>
    \A p \in Checks : Updating(p) =>
      /\ \A q \in Checks : Updating(q) => q = p
      /\ phase[p] = "running" => ReadsAll(p)
      /\ Saving(p) => SavesAll(p)

GateInv == TypeOK /\ Known /\ Backed /\ Resting /\ Deliberate /\ Alone /\ LastWordKept /\ PassIsEarned

\* A step of one run leaves what the others keep.
Unmoved(q) ==
  /\ phase'[q] = phase[q] /\ ask'[q] = ask[q] /\ unlisted'[q] = unlisted[q] /\ listing'[q] = listing[q]
  /\ base'[q] = base[q] /\ seen'[q] = seen[q] /\ unsaved'[q] = unsaved[q] /\ writing'[q] = writing[q]
  /\ result'[q] = result[q]

LEMMA OutcomesAreOutcomes ==
  ASSUME NEW s \in Sensors, NEW o \in OutcomesOf[s]
  PROVE  /\ o \in Outcomes /\ o # NotSeen /\ o.findings \subseteq Findings /\ o.total \in Nat
         /\ o.status \in {"green", "failing", "broken", "unstarted"}
         /\ o.status = "green" => o.findings = {}
         /\ Fails(o) => Record(o) \in Records
<1>1. o \in Outcomes
  BY DEF Outcomes
<1>2. o \in OutcomesType /\ (o.status = "green" => o.findings = {})
  BY GateAssumption
<1> QED BY <1>1, <1>2, MarkerAssumption DEF OutcomesType, Records

LEMMA NothingTyped ==
  NoEntries \in [Sensors -> Entries] /\ NothingSeen \in [Sensors -> Outcomes \union {NotSeen}]
BY DEF NoEntries, NothingSeen, Entries

LEMMA Sizes ==
  ASSUME NEW S \in SUBSET Findings
  PROVE  IsFiniteSet(S) /\ Cardinality(S) \in Nat
BY GateAssumption, FS_Subset, FS_CardinalityType

LEMMA RecordFields ==
  ASSUME NEW o
  PROVE  /\ Record(o).findings = (IF Truncates(o) THEN {} ELSE o.findings)
         /\ Record(o).count = Cardinality(o.findings)
         /\ Record(o).total = o.total /\ Record(o).truncated = Truncates(o)
BY DEF Record

\* What an entry forgives, the failure it records excuses.
LEMMA ForgivenIsExcused ==
  ASSUME NEW s \in Sensors, NEW o \in OutcomesOf[s], NEW a \in OutcomesOf[s],
         Record(a) # Absent, Forgiven(Record(a), s, o)
  PROVE  Excused(s, o, a)
<1> DEFINE r == Record(a)
<1>1. /\ r.findings = (IF Truncates(a) THEN {} ELSE a.findings) /\ r.count = Cardinality(a.findings)
      /\ r.total = a.total /\ r.truncated = Truncates(a)
  BY RecordFields
<1>2. /\ Cardinality(o.findings) \in Nat /\ Cardinality(a.findings) \in Nat
      /\ o.total \in Nat /\ a.total \in Nat
  BY OutcomesAreOutcomes, Sizes
<1>3. r # Absent /\ Moved(r, s, o).new = {} /\ ~Moved(r, s, o).regressed
  BY DEF Forgiven
<1> HIDE DEF r
<1>4. CASE Ratchet[s] = "count"
  <2>1. ~(o.total > r.total)
    BY <1>3, <1>4 DEF Moved, CompareTotals
  <2>2. o.total <= r.total
    BY <2>1, <1>1, <1>2
  <2> QED BY <2>2, <1>1, <1>4 DEF Excused
<1>5. CASE Ratchet[s] # "count" /\ Truncates(a)
  <2>1. ~(Cardinality(o.findings) > r.count)
    BY <1>1, <1>3, <1>5 DEF Moved, Compare
  <2>2. Cardinality(o.findings) <= r.count
    BY <2>1, <1>1, <1>2
  <2> QED BY <2>2, <1>1, <1>5 DEF Excused
<1>6. CASE Ratchet[s] # "count" /\ ~Truncates(a)
  <2>1. o.findings \ a.findings = {}
    BY <1>1, <1>3, <1>6 DEF Moved, Compare
  <2> QED BY <2>1, <1>6 DEF Excused
<1> QED BY <1>4, <1>5, <1>6

\* What an entry calls fixed is better than the failure it records.
LEMMA FixedIsImproved ==
  ASSUME NEW s \in Sensors, NEW o \in OutcomesOf[s], NEW a \in OutcomesOf[s],
         Record(a) # Absent, Fixed(Record(a), s, o)
  PROVE  Improved(o, a)
<1> DEFINE r == Record(a)
<1>1. /\ r.findings = (IF Truncates(a) THEN {} ELSE a.findings) /\ r.count = Cardinality(a.findings)
      /\ r.total = a.total /\ r.truncated = Truncates(a)
  BY RecordFields
<1>2. /\ Cardinality(o.findings) \in Nat /\ Cardinality(a.findings) \in Nat
      /\ o.total \in Nat /\ a.total \in Nat
      /\ o.findings \subseteq Findings /\ a.findings \subseteq Findings
  BY OutcomesAreOutcomes, Sizes
<1>3. r # Absent /\ Fixed(r, s, o)
  OBVIOUS
<1> HIDE DEF r
<1>4. CASE o.status = "green"
  <2>1. o.findings = {} /\ Cardinality(a.findings) > 0
    BY <1>1, <1>3, <1>4, OutcomesAreOutcomes DEF Fixed
  <2>2. a.findings # {}
    BY <2>1, FS_EmptySet
  <2> QED BY <2>1, <2>2 DEF Improved
<1>5. CASE o.status # "green" /\ Ratchet[s] = "count"
  BY <1>1, <1>3, <1>5 DEF Fixed, Moved, CompareTotals, Improved
<1>6. CASE o.status # "green" /\ Ratchet[s] # "count" /\ Truncates(a)
  <2>1. Cardinality(o.findings) < Cardinality(a.findings)
    BY <1>1, <1>3, <1>6 DEF Fixed, Moved, Compare
  <2>2. ~(a.findings \subseteq o.findings)
    BY <2>1, <1>2, Sizes, FS_Subset
  <2> QED BY <2>2 DEF Improved
<1>7. CASE o.status # "green" /\ Ratchet[s] # "count" /\ ~Truncates(a)
  BY <1>1, <1>3, <1>7 DEF Fixed, Moved, Compare, Improved
<1> QED BY <1>4, <1>5, <1>6, <1>7

\* A run that is not updating any more, or never was, leaves nothing to keep alone.
LEMMA NotUpdating ==
  ASSUME Alone, NEW p \in Checks, \A q \in Checks : q # p => Unmoved(q), overlapped' = overlapped,
         ~Updating(p)', Updating(p) \/ (file' = file /\ word' = word)
  PROVE  Alone'
<1> SUFFICES ASSUME ~overlapped, NEW q \in Checks, Updating(q)'
             PROVE  /\ \A x \in Checks : Updating(x)' => x = q
                    /\ phase'[q] = "running" => ReadsAll(q)'
                    /\ Saving(q)' => SavesAll(q)'
  BY DEF Alone
<1>1. \A x \in Checks : Updating(x)' => x # p /\ Unmoved(x) /\ Updating(x)
  BY DEF Updating, Unmoved
<1>2. file' = file /\ word' = word
  BY <1>1 DEF Alone
<1>3. \A x \in Checks : Updating(x)' => x = q
  BY <1>1 DEF Alone
<1>4. Unmoved(q) /\ (phase[q] = "running" => ReadsAll(q)) /\ (Saving(q) => SavesAll(q))
  BY <1>1 DEF Alone
<1>5. phase'[q] = "running" => ReadsAll(q)'
  BY <1>2, <1>4 DEF Unmoved, ReadsAll
<1>6. Saving(q)' => SavesAll(q)'
  BY <1>2, <1>4 DEF Unmoved, Saving, SavesAll, SaveFits, Recording, Decision, Ran
<1> QED BY <1>3, <1>5, <1>6

\* A run that is updating keeps it to itself.
LEMMA StillUpdating ==
  ASSUME Alone, NEW p \in Checks, \A q \in Checks : q # p => Unmoved(q), overlapped' = overlapped, Updating(p),
         ~overlapped /\ phase'[p] = "running" => ReadsAll(p)',
         ~overlapped /\ Saving(p)' => SavesAll(p)'
  PROVE  Alone'
<1> SUFFICES ASSUME ~overlapped, NEW q \in Checks, Updating(q)'
             PROVE  /\ \A x \in Checks : Updating(x)' => x = q
                    /\ phase'[q] = "running" => ReadsAll(q)'
                    /\ Saving(q)' => SavesAll(q)'
  BY DEF Alone
<1>1. \A x \in Checks : Updating(x)' => x = p
  BY DEF Alone, Updating, Unmoved
<1> QED BY <1>1

\* No step takes back what was accepted, or a verdict.
LEMMA VerdictsKept ==
  ASSUME PassIsEarned, NEW p \in Checks, \A q \in Checks : q # p => Unmoved(q), phase'[p] # "judged",
         \A s \in Sensors : accepted[s] \subseteq accepted'[s]
  PROVE  PassIsEarned'
<1> SUFFICES ASSUME NEW q \in Checks, phase'[q] = "judged"
             PROVE  /\ result'[q].pass =>
                         \A s \in { x \in Wanted(q)' : Gates(q, x)' /\ Kind[x] # "focus" } :
                           \/ seen'[q][s].status = "green"
                           \/ /\ Kind[s] = "command" /\ ~Broken(seen'[q][s]) /\ ~ask'[q].noBaseline
                              /\ \E a \in accepted'[s] : Excused(s, seen'[q][s], a)
                    /\ result'[q].stale =>
                         \E s \in Ran(q)' \ ask'[q].overlay : \E a \in accepted'[s] : Improved(seen'[q][s], a)
  BY DEF PassIsEarned
<1>1. Unmoved(q) /\ phase[q] = "judged"
  BY DEF Unmoved
<1>2. Wanted(q)' = Wanted(q) /\ Ran(q)' = Ran(q) /\ Ran(q) \subseteq Sensors /\ Wanted(q) \subseteq Sensors
      /\ \A s \in Sensors : Gates(q, s)' <=> Gates(q, s)
  BY <1>1 DEF Unmoved, Wanted, Ran, Gates, Commands
<1>3. ASSUME result[q].pass, NEW s \in Wanted(q), Gates(q, s), Kind[s] # "focus"
      PROVE  \/ seen[q][s].status = "green"
             \/ /\ Kind[s] = "command" /\ ~Broken(seen[q][s]) /\ ~ask[q].noBaseline
                /\ \E a \in accepted'[s] : Excused(s, seen[q][s], a)
  BY <1>1, <1>2, <1>3 DEF PassIsEarned
<1>4. ASSUME result[q].stale
      PROVE  \E s \in Ran(q) \ ask[q].overlay : \E a \in accepted'[s] : Improved(seen[q][s], a)
  BY <1>1, <1>2, <1>4 DEF PassIsEarned
<1> QED BY <1>1, <1>2, <1>3, <1>4 DEF Unmoved

\* What a run that saves has made of the files is what it decided, or the last word.
LEMMA WordOfSaves ==
  ASSUME NEW p \in Checks, ~overlapped' => Saving(p)' /\ SavesAll(p)'
  PROVE  LastWordKept'
<1> SUFFICES ASSUME ~overlapped', NEW s \in Sensors
             PROVE file'[s] \in word'[s] \union {Unreadable}
                     \union { Decision(q, s)' : q \in { x \in Checks : Saving(x)' /\ s \in Ran(x)' } }
  BY DEF LastWordKept
<1>1. CASE s \notin Ran(p)'
  BY <1>1 DEF SavesAll, SaveFits
<1>2. CASE s \in Ran(p)'
  BY <1>2 DEF SavesAll, SaveFits, Recording
<1> QED BY <1>1, <1>2

\* A run that neither saves nor did leaves the last word as it was.
LEMMA WordKept ==
  ASSUME LastWordKept, NEW p \in Checks, \A q \in Checks : q # p => Unmoved(q),
         overlapped => overlapped', ~Saving(p), file' = file, word' = word
  PROVE  LastWordKept'
<1> SUFFICES ASSUME ~overlapped', NEW s \in Sensors
             PROVE file'[s] \in word'[s] \union {Unreadable}
                     \union { Decision(q, s)' : q \in { x \in Checks : Saving(x)' /\ s \in Ran(x)' } }
  BY DEF LastWordKept
<1>1. ASSUME NEW q \in Checks, Saving(q), s \in Ran(q)
      PROVE  Saving(q)' /\ s \in Ran(q)' /\ Decision(q, s)' = Decision(q, s)
  BY <1>1 DEF Unmoved, Saving, Ran, Decision
<1>2. file[s] \in word[s] \union {Unreadable} \/ \E q \in Checks : Saving(q) /\ s \in Ran(q) /\ file[s] = Decision(q, s)
  BY DEF LastWordKept
<1> QED BY <1>1, <1>2

LEMMA MeansKept ==
  ASSUME NEW p \in Checks, Means(p), Unmoved(p),
         \A s \in Sensors : accepted[s] \subseteq accepted'[s]
  PROVE  Means(p)'
<1>1. Ran(p)' = Ran(p) /\ Unobserved(p)' = Unobserved(p) /\ (BrokenGate(p)' <=> BrokenGate(p)) /\ (Saving(p)' <=> Saving(p))
      /\ Ran(p) \subseteq Sensors
  BY DEF Unmoved, Ran, Commands, Unobserved, Wanted, BrokenGate, Saving
<1> QED BY <1>1 DEF Means, Unmoved

\* A run that saves would write what was accepted.
LEMMA RecordingIsEntry ==
  ASSUME TypeOK, Known, Backed, NEW p \in Checks, NEW s \in Sensors
  PROVE  Recording(p)[s] \in Entries
<1>1. base[p][s] \in Entries /\ Recording(p)[s] = (IF s \in Ran(p) THEN Decision(p, s) ELSE base[p][s])
  BY DEF TypeOK, RunTypes, Recording
<1>2. s \in Ran(p) => seen[p][s] \in OutcomesOf[s]
  BY DEF Known, Ran
<1>3. s \in Ran(p) => Decision(p, s) \in Entries
  BY <1>2, OutcomesAreOutcomes DEF Decision, Entries
<1> QED BY <1>1, <1>3

LEMMA RecordingAccepted ==
  ASSUME Known, Backed, NEW p \in Checks, Means(p), Saving(p), NEW s \in Sensors
  PROVE  Recording(p)[s] \in Accepted(s)
<1>1. s \notin Ran(p) => Recording(p)[s] \in Accepted(s)
  BY DEF Recording, Backed
<1>2. s \in Ran(p) => Recording(p)[s] \in Accepted(s)
  BY DEF Recording, Decision, Means, Accepted
<1> QED BY <1>1, <1>2

\* A repository no check has run in meets the invariant.
THEOREM GateBegins == Init => GateInv
<1> SUFFICES ASSUME Init PROVE GateInv
  OBVIOUS
<1>1. ASSUME NEW s \in Sensors PROVE accepted[s] \subseteq { o \in OutcomesOf[s] : Fails(o) }
  <2>1. PICK c \in Committed : accepted = [x \in Sensors |-> {c[x]} \ {NotSeen}]
    BY DEF Init
  <2> QED BY <2>1, GateAssumption DEF Fails
<1>2. ASSUME NEW s \in Sensors PROVE file[s] \in Accepted(s) /\ file[s] \in Entries
  <2>1. CASE accepted[s] = {}
    BY <2>1 DEF Init, Accepted, Entries
  <2>2. CASE accepted[s] # {}
    <3>1. PICK o \in accepted[s] : file[s] = Record(o)
      BY <2>2 DEF Init
    <3> QED BY <3>1, <1>1, OutcomesAreOutcomes DEF Accepted, Entries
  <2> QED BY <2>1, <2>2
<1>3. Known
  BY <1>1 DEF Init, Known, NothingSeen
<1>4. Backed
  BY <1>2 DEF Init, Backed, Accepted, NoEntries
<1>5. TypeOK
  <2>1. accepted \in [Sensors -> SUBSET Outcomes]
    BY <1>1, OutcomesAreOutcomes DEF Init
  <2>2. file \in [Sensors -> Entries \union {Unreadable}] /\ word \in [Sensors -> SUBSET Entries]
    BY <1>2 DEF Init
  <2>3. outcome \in [Sensors -> Outcomes] /\ base \in [Checks -> [Sensors -> Entries]]
    BY NothingTyped DEF Init, Outcomes
  <2>4. RepositoryTypes
    <3>1. overlapped \in BOOLEAN /\ begun \in 0..MaxRuns /\ events \in 0..MaxEvents
      <4>1. overlapped = FALSE /\ begun = 0 /\ events = 0 /\ MaxRuns \in Nat /\ MaxEvents \in Nat
        BY GateAssumption DEF Init
      <4>2. overlapped \in BOOLEAN
        BY ONLY <4>1, Zenon
      <4>3. begun \in 0..MaxRuns /\ events \in 0..MaxEvents
        BY ONLY <4>1
      <4> QED BY <4>2, <4>3
    <3> QED BY ONLY <2>1, <2>2, <2>3, <3>1 DEF RepositoryTypes
  <2>5. RunTypes
    BY <2>3, NothingTyped DEF Init, RunTypes
  <2> QED BY <2>4, <2>5 DEF Init, TypeOK, PhasesFit
<1>6. Resting /\ Deliberate /\ Alone /\ PassIsEarned
  BY DEF Init, Resting, AtRest, Deliberate, Means, Alone, Updating, Saving, PassIsEarned
<1>7. LastWordKept
  BY DEF Init, LastWordKept
<1> QED BY <1>3, <1>4, <1>5, <1>6, <1>7 DEF GateInv

\* No step of a check, an update or an edit of the repository breaks the invariant (check.go,
\* baseline.go).
THEOREM GateSteps == GateInv /\ [Next]_vars => GateInv'
<1> SUFFICES ASSUME GateInv, [Next]_vars PROVE GateInv'
  OBVIOUS
<1>0. TypeOK /\ Known /\ Backed /\ Resting /\ Deliberate /\ Alone /\ LastWordKept /\ PassIsEarned
  BY DEF GateInv
<1>1. ASSUME NEW p \in Checks, NEW a \in Asks, Begin(p, a) PROVE GateInv'
  <2>0. \A q \in Checks : q # p => Unmoved(q)
    BY <1>0, <1>1 DEF Begin, disk, TypeOK, RunTypes, Unmoved
  <2>1. TypeOK'
    <3>1. RepositoryTypes'
      BY <1>0, <1>1, GateAssumption DEF Begin, disk, TypeOK, RepositoryTypes, Entries
    <3>2. RunTypes'
      BY <1>0, <1>1, NothingTyped, GateAssumption DEF Begin, disk, TypeOK, RunTypes, Entries, DirectoriesOnDisk
    <3>3. PhasesFit'
      BY <1>0, <1>1, MarkerAssumption DEF Begin, disk, TypeOK, RunTypes, PhasesFit
    <3> QED BY <3>1, <3>2, <3>3 DEF TypeOK
  <2>2. Known'
    BY <1>0, <1>1 DEF Begin, disk, TypeOK, RunTypes, NothingSeen, Known
  <2>3. Backed'
    BY <1>0, <1>1 DEF Begin, disk, TypeOK, RunTypes, Backed, Accepted, NoEntries
  <2>4. Resting'
    <3>1. AtRest(p)'
      BY <1>0, <1>1 DEF Begin, disk, TypeOK, RunTypes, Resting, AtRest
    <3> QED BY ONLY <1>0, <2>0, <3>1 DEF Resting, AtRest, Unmoved
  <2>5. Deliberate'
    <3>1. Means(p)'
      BY <1>0, <1>1 DEF Begin, disk, TypeOK, RunTypes, Deliberate, Means, Saving, Ran, Unobserved, Wanted, BrokenGate
    <3>2. \A s_1 \in Sensors : accepted[s_1] \subseteq accepted'[s_1]
      BY <1>0, <1>1 DEF Begin, disk, TypeOK, RepositoryTypes
    <3> QED BY <1>0, <2>0, <3>1, <3>2, MeansKept DEF Deliberate
  <2>6. Alone'
    <3> SUFFICES ASSUME ~overlapped', NEW q \in Checks, Updating(q)'
                 PROVE  /\ \A x \in Checks : Updating(x)' => x = q
                        /\ phase'[q] = "running" => ReadsAll(q)'
                        /\ Saving(q)' => SavesAll(q)'
      BY DEF Alone
    <3>1. ~overlapped /\ file' = file /\ word' = word /\ ~Updating(p) /\ phase'[p] = "running" /\ ask'[p] = a
      BY <1>0, <1>1 DEF Begin, disk, TypeOK, RunTypes, Updating
    <3>2. \A x \in Checks : Updating(x)' /\ x # p => Updating(x) /\ Unmoved(x)
      BY <2>0 DEF Updating, Unmoved
    <3>3. Updating(p)' => \A x \in Checks : ~Updating(x)
      BY <1>0, <1>1, <3>1 DEF Begin, disk, Updating
    <3>4. CASE q = p
      <4>1. ReadsAll(p)'
        <5>1. AtRest(p) /\ base[p] = NoEntries
          BY <1>0, <1>1 DEF Begin, disk, Resting, AtRest
        <5>2. base'[p] = NoEntries /\ unlisted'[p] = { HarnessOf[s] : s \in { x \in Sensors : file[x] # Absent } }
          BY <1>0, <1>1, <5>1 DEF Begin, disk, DirectoriesOnDisk, TypeOK, RunTypes
        <5> QED BY <3>1, <5>2 DEF ReadsAll, NoEntries
      <4> QED BY <4>1, <3>1, <3>2, <3>3, <3>4 DEF Saving
    <3>5. CASE q # p
      <4>1. Updating(q) /\ Unmoved(q) /\ ~Updating(p)'
        BY <3>2, <3>3, <3>5
      <4>2. \A x \in Checks : Updating(x)' => x = q
        BY <1>0, <4>1, <3>1, <3>2 DEF Alone
      <4>3. (phase[q] = "running" => ReadsAll(q)) /\ (Saving(q) => SavesAll(q))
        BY <1>0, <4>1, <3>1 DEF Alone
      <4>4. phase'[q] = "running" => ReadsAll(q)'
        BY <3>1, <4>1, <4>3 DEF Unmoved, ReadsAll
      <4>5. Saving(q)' => SavesAll(q)'
        BY <3>1, <4>1, <4>3 DEF Unmoved, Saving, SavesAll, SaveFits, Recording, Decision, Ran
      <4> QED BY <4>2, <4>4, <4>5
    <3> QED BY <3>4, <3>5
  <2>7. LastWordKept'
    <3>1. ~Saving(p) /\ file' = file /\ word' = word /\ (overlapped => overlapped')
      BY <1>0, <1>1 DEF Begin, disk, Saving
    <3> QED BY ONLY <1>0, <2>0, <3>1, WordKept
  <2>8. PassIsEarned'
    <3>1. phase'[p] # "judged" /\ \A s_1 \in Sensors : accepted[s_1] \subseteq accepted'[s_1]
      BY <1>0, <1>1 DEF Begin, disk, TypeOK, RunTypes, RepositoryTypes
    <3> QED BY ONLY <1>0, <2>0, <3>1, VerdictsKept
  <2> QED BY <2>1, <2>2, <2>3, <2>4, <2>5, <2>6, <2>7, <2>8 DEF GateInv
<1>2. ASSUME NEW p \in Checks, NEW h \in Harnesses, ListToLoad(p, h) PROVE GateInv'
  <2>0. \A q \in Checks : q # p => Unmoved(q)
    BY <1>0, <1>2 DEF ListToLoad, List, disk, history, TypeOK, RunTypes, Unmoved
  <2>1. TypeOK'
    <3>1. RepositoryTypes'
      BY <1>0, <1>2, GateAssumption DEF ListToLoad, List, disk, history, TypeOK, RepositoryTypes, Entries
    <3>2. RunTypes'
      BY <1>0, <1>2, NothingTyped, GateAssumption DEF ListToLoad, List, disk, history, TypeOK, RunTypes, Entries, DirectoriesOnDisk
    <3>3. PhasesFit'
      BY <1>0, <1>2, MarkerAssumption DEF ListToLoad, List, disk, history, TypeOK, RunTypes, PhasesFit
    <3> QED BY <3>1, <3>2, <3>3 DEF TypeOK
  <2>2. Known'
    BY <1>0, <1>2 DEF ListToLoad, List, disk, history, TypeOK, RunTypes, NothingSeen, Known
  <2>3. Backed'
    BY <1>0, <1>2 DEF ListToLoad, List, disk, history, TypeOK, RunTypes, Backed, Accepted, NoEntries
  <2>4. Resting'
    <3>1. AtRest(p)'
      BY <1>0, <1>2 DEF ListToLoad, List, disk, history, TypeOK, RunTypes, Resting, AtRest
    <3> QED BY ONLY <1>0, <2>0, <3>1 DEF Resting, AtRest, Unmoved
  <2>5. Deliberate'
    <3>1. Means(p)'
      BY <1>0, <1>2 DEF ListToLoad, List, disk, history, TypeOK, RunTypes, Deliberate, Means, Saving, Ran, Unobserved, Wanted, BrokenGate
    <3>2. \A s_1 \in Sensors : accepted[s_1] \subseteq accepted'[s_1]
      BY <1>0, <1>2 DEF ListToLoad, List, disk, history, TypeOK, RepositoryTypes
    <3> QED BY <1>0, <2>0, <3>1, <3>2, MeansKept DEF Deliberate
  <2>6. Alone'
    <3>1. CASE ~ask[p].update
      <4>1. ~Updating(p)' /\ overlapped' = overlapped /\ file' = file /\ word' = word
        BY <1>0, <1>2, <3>1 DEF ListToLoad, List, disk, history, Updating
      <4> QED BY ONLY <1>0, <2>0, <4>1, NotUpdating
    <3>2. CASE ask[p].update
      <4>1. Updating(p) /\ overlapped' = overlapped /\ phase' = phase /\ phase[p] = "running" /\ ~Saving(p)'
        BY <1>0, <1>2, <3>2 DEF ListToLoad, List, disk, history, Updating, Saving
      <4>2. ASSUME ~overlapped PROVE ReadsAll(p)'
        <5>1. ReadsAll(p)
          BY <1>0, <4>1, <4>2 DEF Alone
        <5> QED BY <1>0, <1>2, <5>1 DEF ListToLoad, List, disk, history, TypeOK, RunTypes, ReadsAll
      <4> QED BY ONLY <1>0, <2>0, <4>1, <4>2, StillUpdating
    <3> QED BY <3>1, <3>2
  <2>7. LastWordKept'
    <3>1. ~Saving(p) /\ file' = file /\ word' = word /\ (overlapped => overlapped')
      BY <1>0, <1>2 DEF ListToLoad, List, disk, history, Saving
    <3> QED BY ONLY <1>0, <2>0, <3>1, WordKept
  <2>8. PassIsEarned'
    <3>1. phase'[p] # "judged" /\ \A s_1 \in Sensors : accepted[s_1] \subseteq accepted'[s_1]
      BY <1>0, <1>2 DEF ListToLoad, List, disk, history, TypeOK, RunTypes, RepositoryTypes
    <3> QED BY ONLY <1>0, <2>0, <3>1, VerdictsKept
  <2> QED BY <2>1, <2>2, <2>3, <2>4, <2>5, <2>6, <2>7, <2>8 DEF GateInv
<1>3. ASSUME NEW p \in Checks, NEW h \in Harnesses, ListToPrune(p, h) PROVE GateInv'
  <2>0. \A q \in Checks : q # p => Unmoved(q)
    BY <1>0, <1>3 DEF ListToPrune, List, disk, history, TypeOK, RunTypes, Unmoved
  <2>1. TypeOK'
    <3>1. RepositoryTypes'
      BY <1>0, <1>3, GateAssumption DEF ListToPrune, List, disk, history, TypeOK, RepositoryTypes, Entries
    <3>2. RunTypes'
      BY <1>0, <1>3, NothingTyped, GateAssumption DEF ListToPrune, List, disk, history, TypeOK, RunTypes, Entries, DirectoriesOnDisk
    <3>3. PhasesFit'
      BY <1>0, <1>3, MarkerAssumption DEF ListToPrune, List, disk, history, TypeOK, RunTypes, PhasesFit
    <3> QED BY <3>1, <3>2, <3>3 DEF TypeOK
  <2>2. Known'
    BY <1>0, <1>3 DEF ListToPrune, List, disk, history, TypeOK, RunTypes, NothingSeen, Known
  <2>3. Backed'
    BY <1>0, <1>3 DEF ListToPrune, List, disk, history, TypeOK, RunTypes, Backed, Accepted, NoEntries
  <2>4. Resting'
    <3>1. AtRest(p)'
      BY <1>0, <1>3 DEF ListToPrune, List, disk, history, TypeOK, RunTypes, Resting, AtRest
    <3> QED BY ONLY <1>0, <2>0, <3>1 DEF Resting, AtRest, Unmoved
  <2>5. Deliberate'
    <3>1. Means(p)'
      BY <1>0, <1>3 DEF ListToPrune, List, disk, history, TypeOK, RunTypes, Deliberate, Means, Saving, Ran, Unobserved, Wanted, BrokenGate
    <3>2. \A s_1 \in Sensors : accepted[s_1] \subseteq accepted'[s_1]
      BY <1>0, <1>3 DEF ListToPrune, List, disk, history, TypeOK, RepositoryTypes
    <3> QED BY <1>0, <2>0, <3>1, <3>2, MeansKept DEF Deliberate
  <2>6. Alone'
    <3>1. Updating(p) /\ Saving(p)' /\ phase'[p] # "running" /\ overlapped' = overlapped
      BY <1>0, <1>3 DEF ListToPrune, List, disk, history, TypeOK, RunTypes, Deliberate, Means, Updating, Saving
    <3>2. ASSUME ~overlapped PROVE SavesAll(p)'
      <4>1. SavesAll(p)
        BY <1>0, <1>3, <3>1, <3>2 DEF ListToPrune, List, disk, history, Alone, Saving
      <4>2. Ran(p)' = Ran(p) /\ Recording(p)' = Recording(p) /\ word' = word
        BY <1>0, <1>3 DEF ListToPrune, List, disk, history, Ran, Recording, Decision
      <4>3. ASSUME NEW x \in Sensors, NEW r, r = Recording(p)[x] PROVE SaveFits(p, x, r)'
        <5>1. SaveFits(p, x, r) /\ r # Unreadable
          BY <1>0, <4>1, <4>3, RecordingIsEntry, MarkerAssumption DEF SavesAll, Entries
        <5> QED BY <1>0, <1>3, <4>2, <5>1, <4>3, MarkerAssumption DEF ListToPrune, List, disk, history, TypeOK, RepositoryTypes, RunTypes, Resting, AtRest, Lands, DirectoriesOnDisk, SaveFits
      <4> QED BY <4>2, <4>3 DEF SavesAll
    <3> QED BY ONLY <1>0, <2>0, <3>1, <3>2, StillUpdating
  <2>7. LastWordKept'
    <3>1. ~overlapped' => Saving(p)' /\ SavesAll(p)'
      BY <1>0, <1>3, <2>6 DEF ListToPrune, List, disk, history, TypeOK, RunTypes, Deliberate, Means, Alone, Updating, Saving
    <3> QED BY ONLY <3>1, WordOfSaves
  <2>8. PassIsEarned'
    <3>1. phase'[p] # "judged" /\ \A s_1 \in Sensors : accepted[s_1] \subseteq accepted'[s_1]
      BY <1>0, <1>3 DEF ListToPrune, List, disk, history, TypeOK, RunTypes, RepositoryTypes
    <3> QED BY ONLY <1>0, <2>0, <3>1, VerdictsKept
  <2> QED BY <2>1, <2>2, <2>3, <2>4, <2>5, <2>6, <2>7, <2>8 DEF GateInv
<1>4. ASSUME NEW p \in Checks, NEW s \in Sensors, ReadEntry(p, s) PROVE GateInv'
  <2>0. \A q \in Checks : q # p => Unmoved(q)
    BY <1>0, <1>4 DEF ReadEntry, disk, history, TypeOK, RunTypes, Unmoved
  <2>1. TypeOK'
    <3>1. RepositoryTypes'
      BY <1>0, <1>4, GateAssumption DEF ReadEntry, disk, history, TypeOK, RepositoryTypes, Entries
    <3>2. RunTypes'
      BY <1>0, <1>4, NothingTyped, GateAssumption DEF ReadEntry, disk, history, TypeOK, RunTypes, Entries, DirectoriesOnDisk
    <3>3. PhasesFit'
      BY <1>0, <1>4, MarkerAssumption DEF ReadEntry, disk, history, TypeOK, RunTypes, PhasesFit
    <3> QED BY <3>1, <3>2, <3>3 DEF TypeOK
  <2>2. Known'
    BY <1>0, <1>4 DEF ReadEntry, disk, history, TypeOK, RunTypes, NothingSeen, Known
  <2>3. Backed'
    <3>1. file[s] \in Accepted(s)
      BY <1>0, <1>4, MarkerAssumption DEF ReadEntry, disk, history, Backed
    <3>2. base'[p] = [base[p] EXCEPT ![s] = file[s]] /\ file' = file /\ accepted' = accepted
          /\ \A q \in Checks : q # p => base'[q] = base[q]
      BY <1>0, <1>4 DEF ReadEntry, disk, history, TypeOK, RunTypes
    <3>3. \A x \in Sensors : base'[p][x] \in Accepted(x)
      BY <1>0, <3>1, <3>2 DEF TypeOK, RunTypes, Backed
    <3> QED BY <1>0, <3>2, <3>3 DEF Backed, Accepted
  <2>4. Resting'
    <3>1. AtRest(p)'
      BY <1>0, <1>4 DEF ReadEntry, disk, history, TypeOK, RunTypes, Resting, AtRest
    <3> QED BY ONLY <1>0, <2>0, <3>1 DEF Resting, AtRest, Unmoved
  <2>5. Deliberate'
    <3>1. Means(p)'
      BY <1>0, <1>4 DEF ReadEntry, disk, history, TypeOK, RunTypes, Deliberate, Means, Saving, Ran, Unobserved, Wanted, BrokenGate
    <3>2. \A s_1 \in Sensors : accepted[s_1] \subseteq accepted'[s_1]
      BY <1>0, <1>4 DEF ReadEntry, disk, history, TypeOK, RepositoryTypes
    <3> QED BY <1>0, <2>0, <3>1, <3>2, MeansKept DEF Deliberate
  <2>6. Alone'
    <3>1. CASE ~ask[p].update
      <4>1. ~Updating(p)' /\ overlapped' = overlapped /\ file' = file /\ word' = word
        BY <1>0, <1>4, <3>1 DEF ReadEntry, disk, history, Updating
      <4> QED BY ONLY <1>0, <2>0, <4>1, NotUpdating
    <3>2. CASE ask[p].update
      <4>1. Updating(p) /\ overlapped' = overlapped /\ phase' = phase /\ phase[p] = "running" /\ ~Saving(p)'
        BY <1>0, <1>4, <3>2 DEF ReadEntry, disk, history, Updating, Saving
      <4>2. ASSUME ~overlapped PROVE ReadsAll(p)'
        <5>1. ReadsAll(p)
          BY <1>0, <4>1, <4>2 DEF Alone
        <5> QED BY <1>0, <1>4, <5>1 DEF ReadEntry, disk, history, TypeOK, RunTypes, ReadsAll
      <4> QED BY ONLY <1>0, <2>0, <4>1, <4>2, StillUpdating
    <3> QED BY <3>1, <3>2
  <2>7. LastWordKept'
    <3>1. ~Saving(p) /\ file' = file /\ word' = word /\ (overlapped => overlapped')
      BY <1>0, <1>4 DEF ReadEntry, disk, history, Saving
    <3> QED BY ONLY <1>0, <2>0, <3>1, WordKept
  <2>8. PassIsEarned'
    <3>1. phase'[p] # "judged" /\ \A s_1 \in Sensors : accepted[s_1] \subseteq accepted'[s_1]
      BY <1>0, <1>4 DEF ReadEntry, disk, history, TypeOK, RunTypes, RepositoryTypes
    <3> QED BY ONLY <1>0, <2>0, <3>1, VerdictsKept
  <2> QED BY <2>1, <2>2, <2>3, <2>4, <2>5, <2>6, <2>7, <2>8 DEF GateInv
<1>5. ASSUME NEW p \in Checks, NEW s \in Sensors, Truncate(p, s) PROVE GateInv'
  <2>0. \A q \in Checks : q # p => Unmoved(q)
    BY <1>0, <1>5 DEF Truncate, history, TypeOK, RunTypes, Unmoved
  <2>1. TypeOK'
    <3>1. RepositoryTypes'
      BY <1>0, <1>5, GateAssumption DEF Truncate, history, TypeOK, RepositoryTypes, Entries
    <3>2. RunTypes'
      BY <1>0, <1>5, NothingTyped, GateAssumption DEF Truncate, history, TypeOK, RunTypes, Entries, DirectoriesOnDisk
    <3>3. PhasesFit'
      BY <1>0, <1>5, MarkerAssumption DEF Truncate, history, TypeOK, RunTypes, PhasesFit
    <3> QED BY <3>1, <3>2, <3>3 DEF TypeOK
  <2>2. Known'
    BY <1>0, <1>5 DEF Truncate, history, TypeOK, RunTypes, NothingSeen, Known
  <2>3. Backed'
    BY <1>0, <1>5 DEF Truncate, history, TypeOK, RunTypes, Backed, Accepted, NoEntries
  <2>4. Resting'
    <3>1. AtRest(p)'
      BY <1>0, <1>5 DEF Truncate, history, TypeOK, RunTypes, Resting, AtRest
    <3> QED BY ONLY <1>0, <2>0, <3>1 DEF Resting, AtRest, Unmoved
  <2>5. Deliberate'
    <3>1. Means(p)'
      BY <1>0, <1>5 DEF Truncate, history, TypeOK, RunTypes, Deliberate, Means, Saving, Ran, Unobserved, Wanted, BrokenGate
    <3>2. \A s_1 \in Sensors : accepted[s_1] \subseteq accepted'[s_1]
      BY <1>0, <1>5 DEF Truncate, history, TypeOK, RepositoryTypes
    <3> QED BY <1>0, <2>0, <3>1, <3>2, MeansKept DEF Deliberate
  <2>6. Alone'
    <3>1. Updating(p) /\ Saving(p)' /\ phase'[p] # "running" /\ overlapped' = overlapped
      BY <1>0, <1>5 DEF Truncate, history, TypeOK, RunTypes, Deliberate, Means, Updating, Saving
    <3>2. ASSUME ~overlapped PROVE SavesAll(p)'
      <4>1. SavesAll(p)
        BY <1>0, <1>5, <3>1, <3>2 DEF Truncate, history, Alone, Saving
      <4>2. Ran(p)' = Ran(p) /\ Recording(p)' = Recording(p) /\ word' = word
        BY <1>0, <1>5 DEF Truncate, history, Ran, Recording, Decision
      <4>3. ASSUME NEW x \in Sensors, NEW r, r = Recording(p)[x] PROVE SaveFits(p, x, r)'
        <5>1. SaveFits(p, x, r) /\ r # Unreadable
          BY <1>0, <4>1, <4>3, RecordingIsEntry, MarkerAssumption DEF SavesAll, Entries
        <5> QED BY <1>0, <1>5, <4>2, <5>1, <4>3, MarkerAssumption DEF Truncate, history, TypeOK, RepositoryTypes, RunTypes, Resting, AtRest, Lands, DirectoriesOnDisk, SaveFits
      <4> QED BY <4>2, <4>3 DEF SavesAll
    <3> QED BY ONLY <1>0, <2>0, <3>1, <3>2, StillUpdating
  <2>7. LastWordKept'
    <3>1. ~overlapped' => Saving(p)' /\ SavesAll(p)'
      BY <1>0, <1>5, <2>6 DEF Truncate, history, TypeOK, RunTypes, Deliberate, Means, Alone, Updating, Saving
    <3> QED BY ONLY <3>1, WordOfSaves
  <2>8. PassIsEarned'
    <3>1. phase'[p] # "judged" /\ \A s_1 \in Sensors : accepted[s_1] \subseteq accepted'[s_1]
      BY <1>0, <1>5 DEF Truncate, history, TypeOK, RunTypes, RepositoryTypes
    <3> QED BY ONLY <1>0, <2>0, <3>1, VerdictsKept
  <2> QED BY <2>1, <2>2, <2>3, <2>4, <2>5, <2>6, <2>7, <2>8 DEF GateInv
<1>6. ASSUME NEW p \in Checks, NEW s \in Sensors, Remove(p, s), file[s] # Absent PROVE GateInv'
  <2>0. \A q \in Checks : q # p => Unmoved(q)
    BY <1>0, <1>6 DEF Remove, TypeOK, RunTypes, Unmoved
  <2>1. TypeOK'
    <3>1. RepositoryTypes'
      BY <1>0, <1>6, GateAssumption DEF Remove, TypeOK, RepositoryTypes, Entries
    <3>2. RunTypes'
      <4>1. UNCHANGED <<phase, ask, unlisted, base, seen, unsaved, writing, result>>
        BY <1>0, <1>6 DEF Remove
      <4>2. listing' = [listing EXCEPT ![p] = listing[p] \ {s}]
        BY <1>0, <1>6 DEF Remove
      <4> QED BY <1>0, <4>1, <4>2 DEF TypeOK, RunTypes
    <3>3. PhasesFit'
      BY <1>0, <1>6, MarkerAssumption DEF Remove, TypeOK, RunTypes, PhasesFit
    <3> QED BY <3>1, <3>2, <3>3 DEF TypeOK
  <2>2. Known'
    BY <1>0, <1>6 DEF Remove, TypeOK, RunTypes, NothingSeen, Known
  <2>3. Backed'
    BY <1>0, <1>6 DEF Remove, TypeOK, RunTypes, Backed, Accepted, NoEntries
  <2>4. Resting'
    <3>1. AtRest(p)'
      BY <1>0, <1>6 DEF Remove, TypeOK, RunTypes, Resting, AtRest
    <3> QED BY ONLY <1>0, <2>0, <3>1 DEF Resting, AtRest, Unmoved
  <2>5. Deliberate'
    <3>1. Means(p)'
      BY <1>0, <1>6 DEF Remove, TypeOK, RunTypes, Deliberate, Means, Saving, Ran, Unobserved, Wanted, BrokenGate
    <3>2. \A s_1 \in Sensors : accepted[s_1] \subseteq accepted'[s_1]
      BY <1>0, <1>6 DEF Remove, TypeOK, RepositoryTypes
    <3> QED BY <1>0, <2>0, <3>1, <3>2, MeansKept DEF Deliberate
  <2>6. Alone'
    <3>1. Updating(p) /\ Saving(p)' /\ phase'[p] # "running" /\ overlapped' = overlapped
      BY <1>0, <1>6 DEF Remove, TypeOK, RunTypes, Deliberate, Means, Updating, Saving
    <3>2. ASSUME ~overlapped PROVE SavesAll(p)'
      <4>1. SavesAll(p)
        BY <1>0, <1>6, <3>1, <3>2 DEF Remove, Alone, Saving
      <4>2. Ran(p)' = Ran(p) /\ Recording(p)' = Recording(p) /\ word' = word
        BY <1>0, <1>6 DEF Remove, Ran, Recording, Decision
      <4>3. ASSUME NEW x \in Sensors, NEW r, r = Recording(p)[x] PROVE SaveFits(p, x, r)'
        <5>1. SaveFits(p, x, r) /\ r # Unreadable
          BY <1>0, <4>1, <4>3, RecordingIsEntry, MarkerAssumption DEF SavesAll, Entries
        <5> QED BY <1>0, <1>6, <4>2, <5>1, <4>3, MarkerAssumption DEF Remove, TypeOK, RepositoryTypes, RunTypes, Resting, AtRest, Lands, DirectoriesOnDisk, SaveFits
      <4> QED BY <4>2, <4>3 DEF SavesAll
    <3> QED BY ONLY <1>0, <2>0, <3>1, <3>2, StillUpdating
  <2>7. LastWordKept'
    <3>1. ~overlapped' => Saving(p)' /\ SavesAll(p)'
      BY <1>0, <1>6, <2>6 DEF Remove, TypeOK, RunTypes, Deliberate, Means, Alone, Updating, Saving
    <3> QED BY ONLY <3>1, WordOfSaves
  <2>8. PassIsEarned'
    <3>1. phase'[p] # "judged" /\ \A s_1 \in Sensors : accepted[s_1] \subseteq accepted'[s_1]
      BY <1>0, <1>6 DEF Remove, TypeOK, RunTypes, RepositoryTypes
    <3> QED BY ONLY <1>0, <2>0, <3>1, VerdictsKept
  <2> QED BY <2>1, <2>2, <2>3, <2>4, <2>5, <2>6, <2>7, <2>8 DEF GateInv
<1>7. ASSUME NEW p \in Checks, NEW s \in Sensors, Remove(p, s), file[s] = Absent PROVE GateInv'
  <2>0. \A q \in Checks : q # p => Unmoved(q)
    BY <1>0, <1>7 DEF Remove, End, Forget, TypeOK, RunTypes, Unmoved
  <2>1. TypeOK'
    <3>1. RepositoryTypes'
      <4>1. \A x \in Sensors : x \in Ran(p) => Decision(p, x) \in Entries
        BY <1>0, OutcomesAreOutcomes DEF Known, Ran, Decision, Entries
      <4>2. word' \in [Sensors -> SUBSET Entries]
        BY <1>0, <1>7, <4>1 DEF Remove, End, Forget, LeftBy, TypeOK, RepositoryTypes
      <4> QED BY <1>0, <1>7, <4>2, GateAssumption DEF Remove, End, Forget, TypeOK, RepositoryTypes, Entries
    <3>2. RunTypes'
      <4>1. End(p)
        BY <1>0, <1>7 DEF Remove
      <4> QED BY <1>0, <4>1, NothingTyped DEF End, Forget, TypeOK, RunTypes
    <3>3. PhasesFit'
      BY <1>0, <1>7, MarkerAssumption DEF Remove, End, Forget, TypeOK, RunTypes, PhasesFit
    <3> QED BY <3>1, <3>2, <3>3 DEF TypeOK
  <2>2. Known'
    BY <1>0, <1>7 DEF Remove, End, Forget, TypeOK, RunTypes, NothingSeen, Known
  <2>3. Backed'
    <3>1. file' = file /\ accepted' = accepted /\ base' = [base EXCEPT ![p] = NoEntries]
      BY <1>0, <1>7 DEF Remove, End, Forget, TypeOK, RepositoryTypes
    <3> QED BY <1>0, <3>1 DEF TypeOK, RunTypes, Backed, Accepted, NoEntries
  <2>4. Resting'
    <3>1. AtRest(p)'
      BY <1>0, <1>7 DEF Remove, End, Forget, TypeOK, RunTypes, Resting, AtRest
    <3> QED BY ONLY <1>0, <2>0, <3>1 DEF Resting, AtRest, Unmoved
  <2>5. Deliberate'
    <3>1. Means(p)'
      BY <1>0, <1>7 DEF Remove, End, Forget, TypeOK, RunTypes, Deliberate, Means, Saving, Ran, Unobserved, Wanted, BrokenGate
    <3>2. \A s_1 \in Sensors : accepted[s_1] \subseteq accepted'[s_1]
      BY <1>0, <1>7 DEF Remove, End, Forget, TypeOK, RepositoryTypes
    <3> QED BY <1>0, <2>0, <3>1, <3>2, MeansKept DEF Deliberate
  <2>6. Alone'
    <3>1. ~Updating(p)' /\ overlapped' = overlapped
      BY <1>0, <1>7 DEF Remove, End, Forget, TypeOK, RunTypes, Updating
    <3>2. Updating(p) \/ (file' = file /\ word' = word)
      BY <1>0, <1>7 DEF Remove, End, Forget, Deliberate, Means, Updating, Saving
    <3> QED BY ONLY <1>0, <2>0, <3>1, <3>2, NotUpdating
  <2>7. LastWordKept'
    <3>1. Updating(p) /\ ~Saving(p)' /\ overlapped' = overlapped /\ Saving(p)
      BY <1>0, <1>7 DEF Remove, End, Forget, TypeOK, RunTypes, Deliberate, Means, Updating, Saving
    <3>2. ASSUME ~overlapped, NEW x \in Sensors PROVE file'[x] \in word'[x] \union {Unreadable}
      <4> DEFINE r == Recording(p)[x]
      <4>1. /\ SavesAll(p)
            /\ x \notin Ran(p) => r \in word[x]
            /\ file[x] \in word[x] \union {r, Unreadable}
        BY <1>0, <3>1, <3>2 DEF Alone, SavesAll, SaveFits
      <4>2. x \in Ran(p) => r = Decision(p, x)
        BY DEF Recording
      <4>3. file'[x] \in {file[x], Absent} /\ (file'[x] # file[x] => x = s /\ file[s] = Absent)
        BY <1>0, <1>7 DEF Remove, End, Forget, TypeOK, RepositoryTypes
      <4>4. word'[x] = IF x \notin Ran(p) THEN word[x] ELSE word[x] \union {Decision(p, x)}
        BY <1>0, <1>7 DEF Remove, End, Forget, LeftBy
      <4> QED BY <4>1, <4>2, <4>3, <4>4
    <3> QED BY ONLY <3>1, <3>2 DEF LastWordKept
  <2>8. PassIsEarned'
    <3>1. phase'[p] # "judged" /\ \A s_1 \in Sensors : accepted[s_1] \subseteq accepted'[s_1]
      BY <1>0, <1>7 DEF Remove, End, Forget, TypeOK, RunTypes, RepositoryTypes
    <3> QED BY ONLY <1>0, <2>0, <3>1, VerdictsKept
  <2> QED BY <2>1, <2>2, <2>3, <2>4, <2>5, <2>6, <2>7, <2>8 DEF GateInv
<1>8. ASSUME NEW p \in Checks, NEW s \in Sensors, NEW o \in Outcomes, Observe(p, s, o) PROVE GateInv'
  <2>0. \A q \in Checks : q # p => Unmoved(q)
    BY <1>0, <1>8 DEF Observe, Loaded, disk, history, TypeOK, RunTypes, Unmoved
  <2>1. TypeOK'
    <3>1. RepositoryTypes'
      BY <1>0, <1>8, GateAssumption DEF Observe, Loaded, disk, history, TypeOK, RepositoryTypes, Entries
    <3>2. RunTypes'
      BY <1>0, <1>8, NothingTyped, GateAssumption DEF Observe, Loaded, disk, history, TypeOK, RunTypes, Entries, DirectoriesOnDisk
    <3>3. PhasesFit'
      BY <1>0, <1>8, MarkerAssumption DEF Observe, Loaded, disk, history, TypeOK, RunTypes, PhasesFit
    <3> QED BY <3>1, <3>2, <3>3 DEF TypeOK
  <2>2. Known'
    BY <1>0, <1>8 DEF Observe, Loaded, disk, history, TypeOK, RunTypes, NothingSeen, Known
  <2>3. Backed'
    BY <1>0, <1>8 DEF Observe, Loaded, disk, history, TypeOK, RunTypes, Backed, Accepted, NoEntries
  <2>4. Resting'
    <3>1. AtRest(p)'
      BY <1>0, <1>8 DEF Observe, Loaded, disk, history, TypeOK, RunTypes, Resting, AtRest
    <3> QED BY ONLY <1>0, <2>0, <3>1 DEF Resting, AtRest, Unmoved
  <2>5. Deliberate'
    <3>1. Means(p)'
      BY <1>0, <1>8 DEF Observe, Loaded, disk, history, TypeOK, RunTypes, Deliberate, Means, Saving, Ran, Unobserved, Wanted, BrokenGate
    <3>2. \A s_1 \in Sensors : accepted[s_1] \subseteq accepted'[s_1]
      BY <1>0, <1>8 DEF Observe, Loaded, disk, history, TypeOK, RepositoryTypes
    <3> QED BY <1>0, <2>0, <3>1, <3>2, MeansKept DEF Deliberate
  <2>6. Alone'
    <3>1. CASE ~ask[p].update
      <4>1. ~Updating(p)' /\ overlapped' = overlapped /\ file' = file /\ word' = word
        BY <1>0, <1>8, <3>1 DEF Observe, Loaded, disk, history, Updating
      <4> QED BY ONLY <1>0, <2>0, <4>1, NotUpdating
    <3>2. CASE ask[p].update
      <4>1. Updating(p) /\ overlapped' = overlapped /\ phase' = phase /\ phase[p] = "running" /\ ~Saving(p)'
        BY <1>0, <1>8, <3>2 DEF Observe, Loaded, disk, history, Updating, Saving
      <4>2. ASSUME ~overlapped PROVE ReadsAll(p)'
        <5>1. ReadsAll(p)
          BY <1>0, <4>1, <4>2 DEF Alone
        <5> QED BY <1>0, <1>8, <5>1 DEF Observe, Loaded, disk, history, TypeOK, RunTypes, ReadsAll
      <4> QED BY ONLY <1>0, <2>0, <4>1, <4>2, StillUpdating
    <3> QED BY <3>1, <3>2
  <2>7. LastWordKept'
    <3>1. ~Saving(p) /\ file' = file /\ word' = word /\ (overlapped => overlapped')
      BY <1>0, <1>8 DEF Observe, Loaded, disk, history, Saving
    <3> QED BY ONLY <1>0, <2>0, <3>1, WordKept
  <2>8. PassIsEarned'
    <3>1. phase'[p] # "judged" /\ \A s_1 \in Sensors : accepted[s_1] \subseteq accepted'[s_1]
      BY <1>0, <1>8 DEF Observe, Loaded, disk, history, TypeOK, RunTypes, RepositoryTypes
    <3> QED BY ONLY <1>0, <2>0, <3>1, VerdictsKept
  <2> QED BY <2>1, <2>2, <2>3, <2>4, <2>5, <2>6, <2>7, <2>8 DEF GateInv
<1>9. ASSUME NEW p \in Checks, CannotLoad(p) PROVE GateInv'
  <2>0. \A q \in Checks : q # p => Unmoved(q)
    BY <1>0, <1>9 DEF CannotLoad, End, Forget, disk, history, TypeOK, RunTypes, Unmoved
  <2>1. TypeOK'
    <3>1. RepositoryTypes'
      BY <1>0, <1>9, GateAssumption DEF CannotLoad, End, Forget, disk, history, TypeOK, RepositoryTypes, Entries
    <3>2. RunTypes'
      BY <1>0, <1>9, NothingTyped, GateAssumption DEF CannotLoad, End, Forget, disk, history, TypeOK, RunTypes, Entries, DirectoriesOnDisk
    <3>3. PhasesFit'
      BY <1>0, <1>9, MarkerAssumption DEF CannotLoad, End, Forget, disk, history, TypeOK, RunTypes, PhasesFit
    <3> QED BY <3>1, <3>2, <3>3 DEF TypeOK
  <2>2. Known'
    BY <1>0, <1>9 DEF CannotLoad, End, Forget, disk, history, TypeOK, RunTypes, NothingSeen, Known
  <2>3. Backed'
    BY <1>0, <1>9 DEF CannotLoad, End, Forget, disk, history, TypeOK, RunTypes, Backed, Accepted, NoEntries
  <2>4. Resting'
    <3>1. AtRest(p)'
      BY <1>0, <1>9 DEF CannotLoad, End, Forget, disk, history, TypeOK, RunTypes, Resting, AtRest
    <3> QED BY ONLY <1>0, <2>0, <3>1 DEF Resting, AtRest, Unmoved
  <2>5. Deliberate'
    <3>1. Means(p)'
      BY <1>0, <1>9 DEF CannotLoad, End, Forget, disk, history, TypeOK, RunTypes, Deliberate, Means, Saving, Ran, Unobserved, Wanted, BrokenGate
    <3>2. \A s_1 \in Sensors : accepted[s_1] \subseteq accepted'[s_1]
      BY <1>0, <1>9 DEF CannotLoad, End, Forget, disk, history, TypeOK, RepositoryTypes
    <3> QED BY <1>0, <2>0, <3>1, <3>2, MeansKept DEF Deliberate
  <2>6. Alone'
    <3>1. ~Updating(p)' /\ overlapped' = overlapped
      BY <1>0, <1>9 DEF CannotLoad, End, Forget, disk, history, TypeOK, RunTypes, Updating
    <3>2. Updating(p) \/ (file' = file /\ word' = word)
      BY <1>0, <1>9 DEF CannotLoad, End, Forget, disk, history, Deliberate, Means, Updating, Saving
    <3> QED BY ONLY <1>0, <2>0, <3>1, <3>2, NotUpdating
  <2>7. LastWordKept'
    <3>1. ~Saving(p) /\ file' = file /\ word' = word /\ (overlapped => overlapped')
      BY <1>0, <1>9 DEF CannotLoad, End, Forget, disk, history, Saving
    <3> QED BY ONLY <1>0, <2>0, <3>1, WordKept
  <2>8. PassIsEarned'
    <3>1. phase'[p] # "judged" /\ \A s_1 \in Sensors : accepted[s_1] \subseteq accepted'[s_1]
      BY <1>0, <1>9 DEF CannotLoad, End, Forget, disk, history, TypeOK, RunTypes, RepositoryTypes
    <3> QED BY ONLY <1>0, <2>0, <3>1, VerdictsKept
  <2> QED BY <2>1, <2>2, <2>3, <2>4, <2>5, <2>6, <2>7, <2>8 DEF GateInv
<1>10. ASSUME NEW p \in Checks, ReportBroken(p) PROVE GateInv'
  <2>0. \A q \in Checks : q # p => Unmoved(q)
    BY <1>0, <1>10 DEF ReportBroken, Observed, Loaded, End, Forget, disk, history, TypeOK, RunTypes, Unmoved
  <2>1. TypeOK'
    <3>1. RepositoryTypes'
      BY <1>0, <1>10, GateAssumption DEF ReportBroken, Observed, Loaded, End, Forget, disk, history, TypeOK, RepositoryTypes, Entries
    <3>2. RunTypes'
      BY <1>0, <1>10, NothingTyped, GateAssumption DEF ReportBroken, Observed, Loaded, End, Forget, disk, history, TypeOK, RunTypes, Entries, DirectoriesOnDisk
    <3>3. PhasesFit'
      BY <1>0, <1>10, MarkerAssumption DEF ReportBroken, Observed, Loaded, End, Forget, disk, history, TypeOK, RunTypes, PhasesFit
    <3> QED BY <3>1, <3>2, <3>3 DEF TypeOK
  <2>2. Known'
    BY <1>0, <1>10 DEF ReportBroken, Observed, Loaded, End, Forget, disk, history, TypeOK, RunTypes, NothingSeen, Known
  <2>3. Backed'
    BY <1>0, <1>10 DEF ReportBroken, Observed, Loaded, End, Forget, disk, history, TypeOK, RunTypes, Backed, Accepted, NoEntries
  <2>4. Resting'
    <3>1. AtRest(p)'
      BY <1>0, <1>10 DEF ReportBroken, Observed, Loaded, End, Forget, disk, history, TypeOK, RunTypes, Resting, AtRest
    <3> QED BY ONLY <1>0, <2>0, <3>1 DEF Resting, AtRest, Unmoved
  <2>5. Deliberate'
    <3>1. Means(p)'
      BY <1>0, <1>10 DEF ReportBroken, Observed, Loaded, End, Forget, disk, history, TypeOK, RunTypes, Deliberate, Means, Saving, Ran, Unobserved, Wanted, BrokenGate
    <3>2. \A s_1 \in Sensors : accepted[s_1] \subseteq accepted'[s_1]
      BY <1>0, <1>10 DEF ReportBroken, Observed, Loaded, End, Forget, disk, history, TypeOK, RepositoryTypes
    <3> QED BY <1>0, <2>0, <3>1, <3>2, MeansKept DEF Deliberate
  <2>6. Alone'
    <3>1. ~Updating(p)' /\ overlapped' = overlapped
      BY <1>0, <1>10 DEF ReportBroken, Observed, Loaded, End, Forget, disk, history, TypeOK, RunTypes, Updating
    <3>2. Updating(p) \/ (file' = file /\ word' = word)
      BY <1>0, <1>10 DEF ReportBroken, Observed, Loaded, End, Forget, disk, history, Deliberate, Means, Updating, Saving
    <3> QED BY ONLY <1>0, <2>0, <3>1, <3>2, NotUpdating
  <2>7. LastWordKept'
    <3>1. ~Saving(p) /\ file' = file /\ word' = word /\ (overlapped => overlapped')
      BY <1>0, <1>10 DEF ReportBroken, Observed, Loaded, End, Forget, disk, history, Saving
    <3> QED BY ONLY <1>0, <2>0, <3>1, WordKept
  <2>8. PassIsEarned'
    <3>1. phase'[p] # "judged" /\ \A s_1 \in Sensors : accepted[s_1] \subseteq accepted'[s_1]
      BY <1>0, <1>10 DEF ReportBroken, Observed, Loaded, End, Forget, disk, history, TypeOK, RunTypes, RepositoryTypes
    <3> QED BY ONLY <1>0, <2>0, <3>1, VerdictsKept
  <2> QED BY <2>1, <2>2, <2>3, <2>4, <2>5, <2>6, <2>7, <2>8 DEF GateInv
<1>11. ASSUME NEW p \in Checks, StartSave(p) PROVE GateInv'
  <2>0. \A q \in Checks : q # p => Unmoved(q)
    BY <1>0, <1>11 DEF StartSave, Observed, Loaded, disk, TypeOK, RunTypes, Unmoved
  <2>1. TypeOK'
    <3>1. RepositoryTypes'
      <4>1. ASSUME NEW x \in Sensors, x \in Ran(p) PROVE seen[p][x] \in Outcomes
        BY <1>0, <4>1, OutcomesAreOutcomes DEF Known, Ran
      <4>2. accepted' \in [Sensors -> SUBSET Outcomes]
        BY <1>0, <1>11, <4>1 DEF StartSave, Observed, Loaded, disk, TypeOK, RepositoryTypes
      <4> QED BY <1>0, <1>11, <4>2 DEF StartSave, Observed, Loaded, disk, TypeOK, RepositoryTypes
    <3>2. RunTypes'
      BY <1>0, <1>11, NothingTyped, GateAssumption DEF StartSave, Observed, Loaded, disk, TypeOK, RunTypes, Entries, DirectoriesOnDisk
    <3>3. PhasesFit'
      BY <1>0, <1>11, MarkerAssumption DEF StartSave, Observed, Loaded, disk, TypeOK, RunTypes, PhasesFit
    <3> QED BY <3>1, <3>2, <3>3 DEF TypeOK
  <2>2. Known'
    <3>1. outcome' = outcome /\ seen' = seen
      BY <1>0, <1>11 DEF StartSave, Observed, Loaded, disk
    <3>2. ASSUME NEW x \in Sensors PROVE accepted'[x] \subseteq { y \in OutcomesOf[x] : Fails(y) }
      <4>1. accepted'[x] = accepted[x] \union IF x \in Ran(p) /\ Fails(seen[p][x]) THEN {seen[p][x]} ELSE {}
        BY <1>0, <1>11 DEF StartSave, Observed, Loaded, disk
      <4>2. x \in Ran(p) => seen[p][x] \in OutcomesOf[x]
        BY <1>0 DEF Known, Ran
      <4> QED BY <1>0, <4>1, <4>2 DEF Known
    <3> QED BY <1>0, <3>1, <3>2 DEF Known
  <2>3. Backed'
    <3>1. file' = file /\ base' = base /\ \A x \in Sensors : accepted[x] \subseteq accepted'[x]
      BY <1>0, <1>11 DEF StartSave, Observed, Loaded, disk
    <3>2. \A x \in Sensors : Accepted(x) \subseteq Accepted(x)'
      BY <3>1 DEF Accepted
    <3> QED BY <1>0, <3>1, <3>2 DEF Backed
  <2>4. Resting'
    <3>1. AtRest(p)'
      BY <1>0, <1>11 DEF StartSave, Observed, Loaded, disk, TypeOK, RunTypes, Resting, AtRest
    <3> QED BY ONLY <1>0, <2>0, <3>1 DEF Resting, AtRest, Unmoved
  <2>5. Deliberate'
    <3>1. \A x \in Sensors : accepted'[x] =
             accepted[x] \union IF x \in Ran(p) /\ Fails(seen[p][x]) THEN {seen[p][x]} ELSE {}
      BY <1>0, <1>11 DEF StartSave, Observed, Loaded, disk
    <3>2. ask' = ask /\ seen' = seen /\ ask[p].update /\ Unobserved(p) = {} /\ ~BrokenGate(p) /\ ask[p] \in Asks /\ ~Refused(ask[p])
      BY <1>0, <1>11 DEF StartSave, Observed, Loaded, disk, Deliberate, Means
    <3>3. Ran(p)' = Ran(p) /\ Unobserved(p)' = Unobserved(p) /\ (BrokenGate(p)' <=> BrokenGate(p)) /\ Ran(p) \subseteq Sensors
      BY <3>2 DEF Ran, Commands, Unobserved, Wanted, BrokenGate
    <3>4. Means(p)'
      BY <3>1, <3>2, <3>3 DEF Means
    <3> QED BY <1>0, <2>0, <3>1, <3>4, MeansKept DEF Deliberate
  <2>6. Alone'
    <3>1. Updating(p) /\ Saving(p)' /\ phase'[p] = "saving" /\ overlapped' = overlapped /\ phase[p] = "running"
      BY <1>0, <1>11 DEF StartSave, Observed, Loaded, disk, TypeOK, RunTypes, Updating, Saving
    <3>2. ASSUME ~overlapped PROVE SavesAll(p)'
      <4>1. ReadsAll(p) /\ \A q \in Checks : ~Saving(q)
        BY <1>0, <1>11, <3>1, <3>2 DEF Alone, Deliberate, Means, Updating, Saving
      <4>2. Ran(p)' = Ran(p) /\ Recording(p)' = Recording(p) /\ word' = word /\ file' = file /\ writing' = writing
            /\ unsaved'[p] = { x \in Sensors : Recording(p)[x] # Absent }
        BY <1>0, <1>11 DEF StartSave, Observed, Loaded, disk, TypeOK, RunTypes, Ran, Recording, Decision
      <4>3. unlisted[p] = {} /\ listing[p] = {} /\ writing[p] = NoSensor
        BY <1>0, <1>11 DEF StartSave, Observed, Loaded, disk, Resting, AtRest
      <4>4. ASSUME NEW x \in Sensors
            PROVE  /\ file[x] = base[p][x] /\ file[x] # Unreadable /\ file[x] \in word[x]
                   /\ x \notin Ran(p) => Recording(p)[x] = base[p][x]
        <5>1. file[x] = base[p][x] /\ base[p][x] \in Entries
          BY <1>0, <4>1, <4>3 DEF ReadsAll, TypeOK, RunTypes
        <5>2. file[x] # Unreadable
          BY <5>1, MarkerAssumption DEF Entries
        <5>3. file[x] \in word[x] \union {Unreadable}
          BY <1>0, <3>2, <4>1 DEF LastWordKept
        <5> QED BY <5>1, <5>2, <5>3 DEF Recording
      <4>5. NoSensor \notin Sensors
        BY MarkerAssumption
      <4> QED BY <3>1, <4>2, <4>3, <4>4, <4>5 DEF SavesAll, SaveFits
    <3> QED BY ONLY <1>0, <2>0, <3>1, <3>2, StillUpdating
  <2>7. LastWordKept'
    <3>1. ~overlapped' => Saving(p)' /\ SavesAll(p)'
      BY <1>0, <1>11, <2>6 DEF StartSave, Observed, Loaded, disk, TypeOK, RunTypes, Deliberate, Means, Alone, Updating, Saving
    <3> QED BY ONLY <3>1, WordOfSaves
  <2>8. PassIsEarned'
    <3>1. phase'[p] # "judged" /\ \A s_1 \in Sensors : accepted[s_1] \subseteq accepted'[s_1]
      BY <1>0, <1>11 DEF StartSave, Observed, Loaded, disk, TypeOK, RunTypes, RepositoryTypes
    <3> QED BY ONLY <1>0, <2>0, <3>1, VerdictsKept
  <2> QED BY <2>1, <2>2, <2>3, <2>4, <2>5, <2>6, <2>7, <2>8 DEF GateInv
<1>12. ASSUME NEW p \in Checks, Judge(p) PROVE GateInv'
  <2>0. \A q \in Checks : q # p => Unmoved(q)
    BY <1>0, <1>12 DEF Judge, Observed, Loaded, Forget, disk, history, TypeOK, RunTypes, Unmoved
  <2>1. TypeOK'
    <3>1. RepositoryTypes'
      BY <1>0, <1>12, GateAssumption DEF Judge, Observed, Loaded, Forget, disk, history, TypeOK, RepositoryTypes, Entries
    <3>2. RunTypes'
      <4>1. result' \in [Checks -> [pass : BOOLEAN, stale : BOOLEAN] \union {NoResult}]
        <5>1. Stale(p) \in BOOLEAN
          BY DEF Stale
        <5> DEFINE verdict == [pass |-> \A s \in Wanted(p) : Stands(p, s) \/ ~Gates(p, s), stale |-> Stale(p)]
        <5>2. verdict \in [pass : BOOLEAN, stale : BOOLEAN]
          BY <5>1
        <5>3. result' = [result EXCEPT ![p] = verdict]
          BY <1>0, <1>12 DEF Judge, Observed, Loaded, Forget, disk, history
        <5> HIDE DEF verdict
        <5> QED BY <1>0, <5>2, <5>3 DEF TypeOK, RunTypes
      <4> QED BY <1>0, <1>12, <4>1, NothingTyped DEF Judge, Observed, Loaded, Forget, disk, history, TypeOK, RunTypes
    <3>3. PhasesFit'
      <4>1. result'[p] \in [pass : BOOLEAN, stale : BOOLEAN] \union {NoResult} /\ result'[p] # NoResult
        <5>1. result'[p] = [pass |-> \A s \in Wanted(p) : Stands(p, s) \/ ~Gates(p, s), stale |-> Stale(p)]
          BY <1>0, <1>12 DEF Judge, Observed, Loaded, Forget, disk, history, TypeOK, RunTypes
        <5>2. result'[p] \in [pass : BOOLEAN, stale : BOOLEAN]
          BY <5>1 DEF Stale
        <5> QED BY <5>2, MarkerAssumption
      <4>2. phase'[p] = "judged" /\ ask' = ask /\ phase[p] # "idle" /\ \A q \in Checks : q # p => phase'[q] = phase[q] /\ result'[q] = result[q]
        BY <1>0, <1>12 DEF Judge, Observed, Loaded, Forget, disk, history, TypeOK, RunTypes
      <4> QED BY <1>0, <4>1, <4>2 DEF TypeOK, PhasesFit
    <3> QED BY <3>1, <3>2, <3>3 DEF TypeOK
  <2>2. Known'
    BY <1>0, <1>12 DEF Judge, Observed, Loaded, Forget, disk, history, TypeOK, RunTypes, NothingSeen, Known
  <2>3. Backed'
    BY <1>0, <1>12 DEF Judge, Observed, Loaded, Forget, disk, history, TypeOK, RunTypes, Backed, Accepted, NoEntries
  <2>4. Resting'
    <3>1. AtRest(p)'
      BY <1>0, <1>12 DEF Judge, Observed, Loaded, Forget, disk, history, TypeOK, RunTypes, Resting, AtRest
    <3> QED BY ONLY <1>0, <2>0, <3>1 DEF Resting, AtRest, Unmoved
  <2>5. Deliberate'
    <3>1. Means(p)'
      BY <1>0, <1>12 DEF Judge, Observed, Loaded, Forget, disk, history, TypeOK, RunTypes, Deliberate, Means, Saving, Ran, Unobserved, Wanted, BrokenGate
    <3>2. \A s_1 \in Sensors : accepted[s_1] \subseteq accepted'[s_1]
      BY <1>0, <1>12 DEF Judge, Observed, Loaded, Forget, disk, history, TypeOK, RepositoryTypes
    <3> QED BY <1>0, <2>0, <3>1, <3>2, MeansKept DEF Deliberate
  <2>6. Alone'
    <3>1. ~Updating(p)' /\ overlapped' = overlapped
      BY <1>0, <1>12 DEF Judge, Observed, Loaded, Forget, disk, history, TypeOK, RunTypes, Updating
    <3>2. Updating(p) \/ (file' = file /\ word' = word)
      BY <1>0, <1>12 DEF Judge, Observed, Loaded, Forget, disk, history, Deliberate, Means, Updating, Saving
    <3> QED BY ONLY <1>0, <2>0, <3>1, <3>2, NotUpdating
  <2>7. LastWordKept'
    <3>1. ~Saving(p) /\ file' = file /\ word' = word /\ (overlapped => overlapped')
      BY <1>0, <1>12 DEF Judge, Observed, Loaded, Forget, disk, history, Saving
    <3> QED BY ONLY <1>0, <2>0, <3>1, WordKept
  <2>8. PassIsEarned'
    <3> DEFINE Judged(q) == /\ result[q].pass =>
                                  \A s \in { x \in Wanted(q) : Gates(q, x) /\ Kind[x] # "focus" } :
                                    \/ seen[q][s].status = "green"
                                    \/ /\ Kind[s] = "command" /\ ~Broken(seen[q][s]) /\ ~ask[q].noBaseline
                                       /\ \E a \in accepted[s] : Excused(s, seen[q][s], a)
                            /\ result[q].stale =>
                                  \E s \in Ran(q) \ ask[q].overlay : \E a \in accepted[s] : Improved(seen[q][s], a)
    <3>1. ask' = ask /\ seen' = seen /\ accepted' = accepted /\ Unobserved(p) = {} /\ ~BrokenGate(p)
          /\ result'[p] = [pass |-> \A s \in Wanted(p) : Stands(p, s) \/ ~Gates(p, s), stale |-> Stale(p)]
      BY <1>0, <1>12 DEF Judge, Observed, Loaded, Forget, disk, history, TypeOK, RunTypes
    <3>2. Wanted(p)' = Wanted(p) /\ Ran(p)' = Ran(p) /\ Ran(p) \subseteq Sensors /\ Wanted(p) \subseteq Sensors
          /\ \A s \in Sensors : Gates(p, s)' <=> Gates(p, s)
      BY <3>1 DEF Wanted, Ran, Gates, Commands
    <3>3. ASSUME NEW s \in Sensors, Base(p)[s] # Absent
          PROVE ~ask[p].noBaseline /\ \E a \in accepted[s] : a \in OutcomesOf[s] /\ Base(p)[s] = Record(a)
      <4>1. ~ask[p].noBaseline /\ Base(p) = base[p]
        BY <3>3 DEF Base, NoEntries
      <4> QED BY <1>0, <3>3, <4>1 DEF Backed, Accepted, Known
    <3>4. ASSUME NEW s \in Wanted(p), Gates(p, s), Kind[s] # "focus", \A x \in Wanted(p) : Stands(p, x) \/ ~Gates(p, x)
          PROVE  \/ seen[p][s].status = "green"
                 \/ /\ Kind[s] = "command" /\ ~Broken(seen[p][s]) /\ ~ask[p].noBaseline
                    /\ \E a \in accepted[s] : Excused(s, seen[p][s], a)
      <4>1. CASE seen[p][s].status = "green"
        BY <4>1
      <4>2. CASE seen[p][s].status # "green"
        <5>1. s \in Commands /\ Forgiven(Base(p)[s], s, seen[p][s])
          BY <3>4, <4>2 DEF Stands
        <5>2. seen[p][s] # NotSeen /\ s \in Sensors
          BY <3>1, <3>2, <3>4 DEF Unobserved
        <5>3. s \in Ran(p) /\ Kind[s] = "command" /\ seen[p][s] \in OutcomesOf[s] /\ ~Broken(seen[p][s])
          BY <1>0, <3>1, <5>1, <5>2 DEF Known, Ran, Commands, BrokenGate
        <5>4. Base(p)[s] # Absent
          BY <5>1 DEF Forgiven
        <5>5. PICK a \in accepted[s] : a \in OutcomesOf[s] /\ Base(p)[s] = Record(a)
          BY <3>3, <5>2, <5>4
        <5>6. Excused(s, seen[p][s], a)
          BY <5>1, <5>2, <5>3, <5>4, <5>5, ForgivenIsExcused
        <5> QED BY <3>3, <5>2, <5>3, <5>4, <5>5, <5>6
      <4> QED BY <4>1, <4>2
    <3>5. ASSUME Stale(p)
          PROVE  \E s \in Ran(p) \ ask[p].overlay : \E a \in accepted[s] : Improved(seen[p][s], a)
      <4>1. PICK s \in Ran(p) \ ask[p].overlay : Fixed(Base(p)[s], s, seen[p][s])
        BY <3>5 DEF Stale
      <4>2. s \in Sensors /\ seen[p][s] \in OutcomesOf[s]
        BY <1>0, <3>2, <4>1 DEF Known, Ran
      <4>3. Base(p)[s] # Absent
        BY <4>1 DEF Fixed, Moved, Compare, CompareTotals
      <4>4. PICK a \in accepted[s] : a \in OutcomesOf[s] /\ Base(p)[s] = Record(a)
        BY <3>3, <4>2, <4>3
      <4>5. Improved(seen[p][s], a)
        BY <4>1, <4>2, <4>3, <4>4, FixedIsImproved
      <4> QED BY <4>1, <4>4, <4>5
    <3>6. Judged(p)'
      BY <3>1, <3>2, <3>4, <3>5
    <3>7. ASSUME NEW q \in Checks, q # p, phase'[q] = "judged" PROVE Judged(q)'
      <4>1. Unmoved(q) /\ Judged(q)
        BY <1>0, <2>0, <3>7 DEF PassIsEarned, Unmoved
      <4>2. Wanted(q)' = Wanted(q) /\ Ran(q)' = Ran(q) /\ Wanted(q) \subseteq Sensors /\ \A s \in Sensors : Gates(q, s)' <=> Gates(q, s)
        BY <4>1 DEF Unmoved, Wanted, Ran, Gates
      <4> QED BY <3>1, <4>1, <4>2 DEF Unmoved
    <3>8. \A q \in Checks : phase'[q] = "judged" => Judged(q)'
      BY <3>6, <3>7
    <3> QED BY <3>8 DEF PassIsEarned
  <2> QED BY <2>1, <2>2, <2>3, <2>4, <2>5, <2>6, <2>7, <2>8 DEF GateInv
<1>13. ASSUME NEW p \in Checks, Write(p) PROVE GateInv'
  <2>0. \A q \in Checks : q # p => Unmoved(q)
    BY <1>0, <1>13 DEF Write, history, TypeOK, RunTypes, Unmoved
  <2>1. TypeOK'
    <3>1. RepositoryTypes'
      <4> DEFINE w == writing[p]
      <4>1. w \in Sensors
        BY <1>0, <1>13 DEF Write, history, TypeOK, RunTypes
      <4>2. Recording(p)[w] \in Entries /\ file[w] \in Entries \union {Unreadable}
        BY <1>0, <4>1, RecordingIsEntry DEF TypeOK, RepositoryTypes
      <4>3. PICK x \in Lands(w, Recording(p)[w]) : file' = [file EXCEPT ![w] = x]
        BY <1>0, <1>13 DEF Write, history
      <4>4. x \in Entries \union {Unreadable}
        BY <4>2, <4>3 DEF Lands, Entries
      <4> HIDE DEF w
      <4> QED BY <1>0, <1>13, <4>1, <4>3, <4>4 DEF Write, history, TypeOK, RepositoryTypes
    <3>2. RunTypes'
      BY <1>0, <1>13, NothingTyped, GateAssumption DEF Write, history, TypeOK, RunTypes, Entries, DirectoriesOnDisk
    <3>3. PhasesFit'
      BY <1>0, <1>13, MarkerAssumption DEF Write, history, TypeOK, RunTypes, PhasesFit
    <3> QED BY <3>1, <3>2, <3>3 DEF TypeOK
  <2>2. Known'
    BY <1>0, <1>13 DEF Write, history, TypeOK, RunTypes, NothingSeen, Known
  <2>3. Backed'
    <3> DEFINE w == writing[p]
    <3>1. w \in Sensors /\ Means(p) /\ Saving(p)
      BY <1>0, <1>13 DEF Write, history, TypeOK, RunTypes, Deliberate, Saving
    <3>2. Recording(p)[w] \in Accepted(w)
      BY <1>0, <3>1, RecordingAccepted
    <3>3. PICK x \in Lands(w, Recording(p)[w]) : file' = [file EXCEPT ![w] = x]
      BY <1>0, <1>13 DEF Write, history
    <3>4. x \in Accepted(w) \union {Unreadable}
      BY <1>0, <3>1, <3>2, <3>3 DEF Lands, Backed, Accepted
    <3>5. accepted' = accepted /\ base' = base
      BY <1>0, <1>13 DEF Write, history
    <3> HIDE DEF w
    <3> QED BY <1>0, <3>1, <3>3, <3>4, <3>5 DEF TypeOK, RepositoryTypes, Backed, Accepted
  <2>4. Resting'
    <3>1. AtRest(p)'
      BY <1>0, <1>13 DEF Write, history, TypeOK, RunTypes, Resting, AtRest
    <3> QED BY ONLY <1>0, <2>0, <3>1 DEF Resting, AtRest, Unmoved
  <2>5. Deliberate'
    <3>1. Means(p)'
      BY <1>0, <1>13 DEF Write, history, TypeOK, RunTypes, Deliberate, Means, Saving, Ran, Unobserved, Wanted, BrokenGate
    <3>2. \A s_1 \in Sensors : accepted[s_1] \subseteq accepted'[s_1]
      BY <1>0, <1>13 DEF Write, history, TypeOK, RepositoryTypes
    <3> QED BY <1>0, <2>0, <3>1, <3>2, MeansKept DEF Deliberate
  <2>6. Alone'
    <3>1. Updating(p) /\ Saving(p)' /\ phase'[p] # "running" /\ overlapped' = overlapped
      BY <1>0, <1>13 DEF Write, history, TypeOK, RunTypes, Deliberate, Means, Updating, Saving
    <3>2. ASSUME ~overlapped PROVE SavesAll(p)'
      <4>1. SavesAll(p)
        BY <1>0, <1>13, <3>1, <3>2 DEF Write, history, Alone, Saving
      <4>2. Ran(p)' = Ran(p) /\ Recording(p)' = Recording(p) /\ word' = word
        BY <1>0, <1>13 DEF Write, history, Ran, Recording, Decision
      <4>3. ASSUME NEW x \in Sensors, NEW r, r = Recording(p)[x] PROVE SaveFits(p, x, r)'
        <5>1. SaveFits(p, x, r) /\ r # Unreadable
          BY <1>0, <4>1, <4>3, RecordingIsEntry, MarkerAssumption DEF SavesAll, Entries
        <5> QED BY <1>0, <1>13, <4>2, <5>1, <4>3, MarkerAssumption DEF Write, history, TypeOK, RepositoryTypes, RunTypes, Resting, AtRest, Lands, DirectoriesOnDisk, SaveFits
      <4> QED BY <4>2, <4>3 DEF SavesAll
    <3> QED BY ONLY <1>0, <2>0, <3>1, <3>2, StillUpdating
  <2>7. LastWordKept'
    <3>1. ~overlapped' => Saving(p)' /\ SavesAll(p)'
      BY <1>0, <1>13, <2>6 DEF Write, history, TypeOK, RunTypes, Deliberate, Means, Alone, Updating, Saving
    <3> QED BY ONLY <3>1, WordOfSaves
  <2>8. PassIsEarned'
    <3>1. phase'[p] # "judged" /\ \A s_1 \in Sensors : accepted[s_1] \subseteq accepted'[s_1]
      BY <1>0, <1>13 DEF Write, history, TypeOK, RunTypes, RepositoryTypes
    <3> QED BY ONLY <1>0, <2>0, <3>1, VerdictsKept
  <2> QED BY <2>1, <2>2, <2>3, <2>4, <2>5, <2>6, <2>7, <2>8 DEF GateInv
<1>14. ASSUME NEW p \in Checks, StartPrune(p) PROVE GateInv'
  <2>0. \A q \in Checks : q # p => Unmoved(q)
    BY <1>0, <1>14 DEF StartPrune, disk, history, TypeOK, RunTypes, Unmoved
  <2>1. TypeOK'
    <3>1. RepositoryTypes'
      BY <1>0, <1>14, GateAssumption DEF StartPrune, disk, history, TypeOK, RepositoryTypes, Entries
    <3>2. RunTypes'
      BY <1>0, <1>14, NothingTyped, GateAssumption DEF StartPrune, disk, history, TypeOK, RunTypes, Entries, DirectoriesOnDisk
    <3>3. PhasesFit'
      BY <1>0, <1>14, MarkerAssumption DEF StartPrune, disk, history, TypeOK, RunTypes, PhasesFit
    <3> QED BY <3>1, <3>2, <3>3 DEF TypeOK
  <2>2. Known'
    BY <1>0, <1>14 DEF StartPrune, disk, history, TypeOK, RunTypes, NothingSeen, Known
  <2>3. Backed'
    BY <1>0, <1>14 DEF StartPrune, disk, history, TypeOK, RunTypes, Backed, Accepted, NoEntries
  <2>4. Resting'
    <3>1. AtRest(p)'
      BY <1>0, <1>14 DEF StartPrune, disk, history, TypeOK, RunTypes, Resting, AtRest
    <3> QED BY ONLY <1>0, <2>0, <3>1 DEF Resting, AtRest, Unmoved
  <2>5. Deliberate'
    <3>1. Means(p)'
      BY <1>0, <1>14 DEF StartPrune, disk, history, TypeOK, RunTypes, Deliberate, Means, Saving, Ran, Unobserved, Wanted, BrokenGate
    <3>2. \A s_1 \in Sensors : accepted[s_1] \subseteq accepted'[s_1]
      BY <1>0, <1>14 DEF StartPrune, disk, history, TypeOK, RepositoryTypes
    <3> QED BY <1>0, <2>0, <3>1, <3>2, MeansKept DEF Deliberate
  <2>6. Alone'
    <3>1. Updating(p) /\ Saving(p)' /\ phase'[p] # "running" /\ overlapped' = overlapped
      BY <1>0, <1>14 DEF StartPrune, disk, history, TypeOK, RunTypes, Deliberate, Means, Updating, Saving
    <3>2. ASSUME ~overlapped PROVE SavesAll(p)'
      <4>1. SavesAll(p)
        BY <1>0, <1>14, <3>1, <3>2 DEF StartPrune, disk, history, Alone, Saving
      <4>2. Ran(p)' = Ran(p) /\ Recording(p)' = Recording(p) /\ word' = word
        BY <1>0, <1>14 DEF StartPrune, disk, history, Ran, Recording, Decision
      <4>3. ASSUME NEW x \in Sensors, NEW r, r = Recording(p)[x] PROVE SaveFits(p, x, r)'
        <5>1. SaveFits(p, x, r) /\ r # Unreadable
          BY <1>0, <4>1, <4>3, RecordingIsEntry, MarkerAssumption DEF SavesAll, Entries
        <5> QED BY <1>0, <1>14, <4>2, <5>1, <4>3, MarkerAssumption DEF StartPrune, disk, history, TypeOK, RepositoryTypes, RunTypes, Resting, AtRest, Lands, DirectoriesOnDisk, SaveFits
      <4> QED BY <4>2, <4>3 DEF SavesAll
    <3> QED BY ONLY <1>0, <2>0, <3>1, <3>2, StillUpdating
  <2>7. LastWordKept'
    <3>1. ~overlapped' => Saving(p)' /\ SavesAll(p)'
      BY <1>0, <1>14, <2>6 DEF StartPrune, disk, history, TypeOK, RunTypes, Deliberate, Means, Alone, Updating, Saving
    <3> QED BY ONLY <3>1, WordOfSaves
  <2>8. PassIsEarned'
    <3>1. phase'[p] # "judged" /\ \A s_1 \in Sensors : accepted[s_1] \subseteq accepted'[s_1]
      BY <1>0, <1>14 DEF StartPrune, disk, history, TypeOK, RunTypes, RepositoryTypes
    <3> QED BY ONLY <1>0, <2>0, <3>1, VerdictsKept
  <2> QED BY <2>1, <2>2, <2>3, <2>4, <2>5, <2>6, <2>7, <2>8 DEF GateInv
<1>15. ASSUME NEW p \in Checks, Finish(p) PROVE GateInv'
  <2>0. \A q \in Checks : q # p => Unmoved(q)
    BY <1>0, <1>15 DEF Finish, End, Forget, disk, TypeOK, RunTypes, Unmoved
  <2>1. TypeOK'
    <3>1. RepositoryTypes'
      <4>1. \A x \in Sensors : x \in Ran(p) => Decision(p, x) \in Entries
        BY <1>0, OutcomesAreOutcomes DEF Known, Ran, Decision, Entries
      <4>2. word' \in [Sensors -> SUBSET Entries]
        BY <1>0, <1>15, <4>1 DEF Finish, End, Forget, disk, LeftBy, TypeOK, RepositoryTypes
      <4> QED BY <1>0, <1>15, <4>2, GateAssumption DEF Finish, End, Forget, disk, TypeOK, RepositoryTypes, Entries
    <3>2. RunTypes'
      BY <1>0, <1>15, NothingTyped, GateAssumption DEF Finish, End, Forget, disk, TypeOK, RunTypes, Entries, DirectoriesOnDisk
    <3>3. PhasesFit'
      BY <1>0, <1>15, MarkerAssumption DEF Finish, End, Forget, disk, TypeOK, RunTypes, PhasesFit
    <3> QED BY <3>1, <3>2, <3>3 DEF TypeOK
  <2>2. Known'
    BY <1>0, <1>15 DEF Finish, End, Forget, disk, TypeOK, RunTypes, NothingSeen, Known
  <2>3. Backed'
    BY <1>0, <1>15 DEF Finish, End, Forget, disk, TypeOK, RunTypes, Backed, Accepted, NoEntries
  <2>4. Resting'
    <3>1. AtRest(p)'
      BY <1>0, <1>15 DEF Finish, End, Forget, disk, TypeOK, RunTypes, Resting, AtRest
    <3> QED BY ONLY <1>0, <2>0, <3>1 DEF Resting, AtRest, Unmoved
  <2>5. Deliberate'
    <3>1. Means(p)'
      BY <1>0, <1>15 DEF Finish, End, Forget, disk, TypeOK, RunTypes, Deliberate, Means, Saving, Ran, Unobserved, Wanted, BrokenGate
    <3>2. \A s_1 \in Sensors : accepted[s_1] \subseteq accepted'[s_1]
      BY <1>0, <1>15 DEF Finish, End, Forget, disk, TypeOK, RepositoryTypes
    <3> QED BY <1>0, <2>0, <3>1, <3>2, MeansKept DEF Deliberate
  <2>6. Alone'
    <3>1. ~Updating(p)' /\ overlapped' = overlapped
      BY <1>0, <1>15 DEF Finish, End, Forget, disk, TypeOK, RunTypes, Updating
    <3>2. Updating(p) \/ (file' = file /\ word' = word)
      BY <1>0, <1>15 DEF Finish, End, Forget, disk, Deliberate, Means, Updating, Saving
    <3> QED BY ONLY <1>0, <2>0, <3>1, <3>2, NotUpdating
  <2>7. LastWordKept'
    <3>1. Updating(p) /\ ~Saving(p)' /\ overlapped' = overlapped /\ Saving(p)
      BY <1>0, <1>15 DEF Finish, End, Forget, disk, TypeOK, RunTypes, Deliberate, Means, Updating, Saving
    <3>2. ASSUME ~overlapped, NEW x \in Sensors PROVE file'[x] \in word'[x] \union {Unreadable}
      <4> DEFINE r == Recording(p)[x]
      <4>1. /\ SavesAll(p)
            /\ x \notin Ran(p) => r \in word[x]
            /\ file[x] \in word[x] \union {r, Unreadable}
        BY <1>0, <3>1, <3>2 DEF Alone, SavesAll, SaveFits
      <4>2. x \in Ran(p) => r = Decision(p, x)
        BY DEF Recording
      <4>3. file' = file /\ word'[x] = IF x \notin Ran(p) THEN word[x] ELSE {Decision(p, x)}
        BY <1>0, <1>15 DEF Finish, End, Forget, disk, LeftBy
      <4>4. /\ file[x] = Unreadable <=> writing[p] = x
            /\ r # Absent => x \in unsaved[p] \/ file[x] = r
            /\ phase[p] = "pruning" => (r = Absent => file[x] = Absent \/ HarnessOf[x] \in unlisted[p] \/ x \in listing[p])
        BY <4>1 DEF SavesAll, SaveFits
      <4>5. phase[p] = "pruning" /\ unlisted[p] = {} /\ listing[p] = {} /\ unsaved[p] = {}
        BY <1>0, <1>15 DEF Finish, End, Forget, disk, Resting, AtRest
      <4>6. file[x] = r
        BY <4>4, <4>5
      <4> QED BY <4>1, <4>2, <4>3, <4>6
    <3> QED BY ONLY <3>1, <3>2 DEF LastWordKept
  <2>8. PassIsEarned'
    <3>1. phase'[p] # "judged" /\ \A s_1 \in Sensors : accepted[s_1] \subseteq accepted'[s_1]
      BY <1>0, <1>15 DEF Finish, End, Forget, disk, TypeOK, RunTypes, RepositoryTypes
    <3> QED BY ONLY <1>0, <2>0, <3>1, VerdictsKept
  <2> QED BY <2>1, <2>2, <2>3, <2>4, <2>5, <2>6, <2>7, <2>8 DEF GateInv
<1>16. ASSUME NEW p \in Checks, Kill(p) PROVE GateInv'
  <2>0. \A q \in Checks : q # p => Unmoved(q)
    BY <1>0, <1>16 DEF Kill, Happens, End, Forget, disk, TypeOK, RunTypes, Unmoved
  <2>1. TypeOK'
    <3>1. RepositoryTypes'
      <4>1. \A x \in Sensors : x \in Ran(p) => Decision(p, x) \in Entries
        BY <1>0, OutcomesAreOutcomes DEF Known, Ran, Decision, Entries
      <4>2. word' \in [Sensors -> SUBSET Entries]
        BY <1>0, <1>16, <4>1 DEF Kill, Happens, End, Forget, disk, LeftBy, TypeOK, RepositoryTypes
      <4>3. events' \in 0..MaxEvents
        BY <1>0, <1>16, GateAssumption DEF Kill, Happens, TypeOK, RepositoryTypes
      <4>4. UNCHANGED <<outcome, file, accepted, overlapped, begun>>
        BY <1>0, <1>16 DEF Kill, disk
      <4> QED BY ONLY <1>0, <4>2, <4>3, <4>4 DEF TypeOK, RepositoryTypes
    <3>2. RunTypes'
      BY <1>0, <1>16, NothingTyped, GateAssumption DEF Kill, Happens, End, Forget, disk, TypeOK, RunTypes, Entries, DirectoriesOnDisk
    <3>3. PhasesFit'
      BY <1>0, <1>16, MarkerAssumption DEF Kill, Happens, End, Forget, disk, TypeOK, RunTypes, PhasesFit
    <3> QED BY <3>1, <3>2, <3>3 DEF TypeOK
  <2>2. Known'
    BY <1>0, <1>16 DEF Kill, Happens, End, Forget, disk, TypeOK, RunTypes, NothingSeen, Known
  <2>3. Backed'
    BY <1>0, <1>16 DEF Kill, Happens, End, Forget, disk, TypeOK, RunTypes, Backed, Accepted, NoEntries
  <2>4. Resting'
    <3>1. AtRest(p)'
      BY <1>0, <1>16 DEF Kill, Happens, End, Forget, disk, TypeOK, RunTypes, Resting, AtRest
    <3> QED BY ONLY <1>0, <2>0, <3>1 DEF Resting, AtRest, Unmoved
  <2>5. Deliberate'
    <3>1. Means(p)'
      BY <1>0, <1>16 DEF Kill, Happens, End, Forget, disk, TypeOK, RunTypes, Deliberate, Means, Saving, Ran, Unobserved, Wanted, BrokenGate
    <3>2. \A s_1 \in Sensors : accepted[s_1] \subseteq accepted'[s_1]
      BY <1>0, <1>16 DEF Kill, Happens, End, Forget, disk, TypeOK, RepositoryTypes
    <3> QED BY <1>0, <2>0, <3>1, <3>2, MeansKept DEF Deliberate
  <2>6. Alone'
    <3>1. ~Updating(p)' /\ overlapped' = overlapped
      BY <1>0, <1>16 DEF Kill, Happens, End, Forget, disk, TypeOK, RunTypes, Updating
    <3>2. Updating(p) \/ (file' = file /\ word' = word)
      BY <1>0, <1>16 DEF Kill, Happens, End, Forget, disk, Deliberate, Means, Updating, Saving
    <3> QED BY ONLY <1>0, <2>0, <3>1, <3>2, NotUpdating
  <2>7. LastWordKept'
    <3>1. CASE ~Saving(p)
      <4>1. file' = file /\ word' = word /\ (overlapped => overlapped')
        BY <1>0, <1>16, <3>1 DEF Kill, Happens, End, Forget, disk
      <4> QED BY ONLY <1>0, <2>0, <3>1, <4>1, WordKept
    <3>2. CASE Saving(p)
      <4>1. Updating(p) /\ ~Saving(p)' /\ overlapped' = overlapped /\ Saving(p)
        BY <1>0, <1>16, <3>2 DEF Kill, Happens, End, Forget, disk, TypeOK, RunTypes, Deliberate, Means, Updating, Saving
      <4>2. ASSUME ~overlapped, NEW x \in Sensors PROVE file'[x] \in word'[x] \union {Unreadable}
        <5> DEFINE r == Recording(p)[x]
        <5>1. /\ SavesAll(p)
              /\ x \notin Ran(p) => r \in word[x]
              /\ file[x] \in word[x] \union {r, Unreadable}
          BY <1>0, <4>1, <4>2 DEF Alone, SavesAll, SaveFits
        <5>2. x \in Ran(p) => r = Decision(p, x)
          BY DEF Recording
        <5>3. file' = file /\ word'[x] = IF x \notin Ran(p) THEN word[x] ELSE word[x] \union {Decision(p, x)}
          BY <1>0, <1>16, <3>2 DEF Kill, Happens, End, Forget, disk, LeftBy
        <5> QED BY <5>1, <5>2, <5>3
      <4> QED BY ONLY <4>1, <4>2 DEF LastWordKept
    <3> QED BY <3>1, <3>2
  <2>8. PassIsEarned'
    <3>1. phase'[p] # "judged" /\ \A s_1 \in Sensors : accepted[s_1] \subseteq accepted'[s_1]
      BY <1>0, <1>16 DEF Kill, Happens, End, Forget, disk, TypeOK, RunTypes, RepositoryTypes
    <3> QED BY ONLY <1>0, <2>0, <3>1, VerdictsKept
  <2> QED BY <2>1, <2>2, <2>3, <2>4, <2>5, <2>6, <2>7, <2>8 DEF GateInv
<1>17. ASSUME NEW s \in Sensors, NEW o \in Outcomes, Edit(s, o) PROVE GateInv'
  <2>0. UNCHANGED <<file, phase, ask, unlisted, listing, base, seen, unsaved, writing, result, accepted, word, overlapped>>
    BY <1>17 DEF Edit, work, history
  <2>1. TypeOK' /\ Known'
    <3>1. outcome' \in [Sensors -> Outcomes] /\ \A x \in Sensors : outcome'[x] \in OutcomesOf[x]
      BY <1>0, <1>17 DEF Edit, TypeOK, RepositoryTypes, Known
    <3>2. begun' \in 0..MaxRuns /\ events' \in 0..MaxEvents
      BY <1>0, <1>17, GateAssumption DEF Edit, Happens, TypeOK, RepositoryTypes
    <3> QED BY <1>0, <2>0, <3>1, <3>2 DEF TypeOK, RepositoryTypes, RunTypes, PhasesFit, Known
  <2>2. Backed' /\ Resting' /\ Deliberate'
    BY <1>0, <2>0 DEF Backed, Accepted, Resting, AtRest, Deliberate, Means, Saving, Unobserved, Wanted, BrokenGate, Ran
  <2>3. Alone'
    BY <1>0, <2>0 DEF Alone, Updating, Saving, ReadsAll, SavesAll, SaveFits, Recording, Decision, Ran
  <2>4. LastWordKept' /\ PassIsEarned'
    BY <1>0, <2>0 DEF LastWordKept, Saving, Ran, Decision, PassIsEarned, Wanted, Gates
  <2> QED BY <2>1, <2>2, <2>3, <2>4 DEF GateInv
<1>18. ASSUME NEW s \in Sensors, Merge(s) PROVE GateInv'
  <2>1. \E x \in Entries \union {Unreadable} : file' = [file EXCEPT ![s] = x] /\ x = Unreadable
    BY <1>18 DEF Merge
  <2>2. UNCHANGED <<outcome, phase, ask, unlisted, listing, base, seen, unsaved, writing, result, accepted, word, overlapped, begun>>
    BY <1>18 DEF Merge, work, history
  <2>3. events' \in 0..MaxEvents /\ NobodyRecords
    BY <1>0, <1>18, GateAssumption DEF Merge, Happens, TypeOK, RepositoryTypes
  <2>4. TypeOK' /\ Known'
    BY <1>0, <2>1, <2>2, <2>3 DEF TypeOK, RepositoryTypes, RunTypes, PhasesFit, Known
  <2>5. Backed'
    BY <1>0, <2>1, <2>2 DEF TypeOK, RepositoryTypes, Backed, Accepted
  <2>6. Resting' /\ Deliberate' /\ PassIsEarned'
    BY <1>0, <2>2 DEF Resting, AtRest, Deliberate, Means, Saving, Unobserved, Wanted, BrokenGate, Ran, PassIsEarned, Gates
  <2>7. \A p \in Checks : ~Updating(p)' /\ ~Saving(p)
    BY <1>0, <2>2, <2>3 DEF NobodyRecords, Updating, Saving, Deliberate, Means
  <2>8. Alone'
    BY <2>7 DEF Alone
  <2>9. LastWordKept'
    <3>1. \A x \in Sensors : ~overlapped => file'[x] \in word[x] \union {Unreadable}
      BY <1>0, <2>1, <2>7 DEF TypeOK, RepositoryTypes, LastWordKept
    <3> QED BY <2>2, <3>1 DEF LastWordKept
  <2> QED BY <2>4, <2>5, <2>6, <2>8, <2>9 DEF GateInv
<1>19. ASSUME NEW s \in Sensors, NEW r \in Records \union {Absent}, Repair(s, r) PROVE GateInv'
  <2>1. file' = [file EXCEPT ![s] = r] /\ word' = [word EXCEPT ![s] = {r}] /\ r \in Accepted(s) /\ r \in Entries
    BY <1>19 DEF Repair, Accepted, Entries
  <2>2. UNCHANGED <<outcome, phase, ask, unlisted, listing, base, seen, unsaved, writing, result, accepted, overlapped, begun>>
    BY <1>19 DEF Repair, work
  <2>3. events' \in 0..MaxEvents /\ NobodyRecords
    BY <1>0, <1>19, GateAssumption DEF Repair, Happens, TypeOK, RepositoryTypes
  <2>4. TypeOK' /\ Known'
    BY <1>0, <2>1, <2>2, <2>3 DEF TypeOK, RepositoryTypes, RunTypes, PhasesFit, Known
  <2>5. Backed'
    BY <1>0, <2>1, <2>2 DEF TypeOK, RepositoryTypes, Backed, Accepted
  <2>6. Resting' /\ Deliberate' /\ PassIsEarned'
    BY <1>0, <2>2 DEF Resting, AtRest, Deliberate, Means, Saving, Unobserved, Wanted, BrokenGate, Ran, PassIsEarned, Gates
  <2>7. \A p \in Checks : ~Updating(p)' /\ ~Saving(p)
    BY <1>0, <2>2, <2>3 DEF NobodyRecords, Updating, Saving, Deliberate, Means
  <2>8. Alone'
    BY <2>7 DEF Alone
  <2>9. LastWordKept'
    <3>1. \A x \in Sensors : ~overlapped => file'[x] \in word'[x] \union {Unreadable}
      BY <1>0, <2>1, <2>7 DEF TypeOK, RepositoryTypes, LastWordKept
    <3> QED BY <2>2, <3>1 DEF LastWordKept
  <2> QED BY <2>4, <2>5, <2>6, <2>8, <2>9 DEF GateInv
<1>20. ASSUME UNCHANGED vars PROVE GateInv'
  <2>1. TypeOK' /\ Known' /\ Backed' /\ Resting' /\ Deliberate'
    BY <1>0, <1>20 DEF vars, disk, work, history, TypeOK, RepositoryTypes, RunTypes, PhasesFit, Known, Backed, Accepted, Resting, AtRest,
      Deliberate, Means, Saving, Unobserved, Wanted, BrokenGate, Ran
  <2>2. Alone' /\ LastWordKept' /\ PassIsEarned'
    BY <1>0, <1>20 DEF vars, disk, work, history, Alone, Updating, Saving, ReadsAll, SavesAll, SaveFits, Recording, Decision, Ran, LastWordKept,
      PassIsEarned, Wanted, Gates
  <2> QED BY <2>1, <2>2 DEF GateInv
<1> QED
  BY <1>1, <1>2, <1>3, <1>4, <1>5, <1>6, <1>7, <1>8, <1>9, <1>10, <1>11, <1>12, <1>13, <1>14, <1>15, <1>16, <1>17, <1>18, <1>19, <1>20 DEF Next, CheckStep

\* The invariant is one.
THEOREM GateInvariant == Spec => []GateInv
BY GateBegins, GateSteps, PTL DEF Spec

\* Every variable keeps to its type.
THEOREM GateTyping == Spec => []TypeOK
<1>1. GateInv => TypeOK
  BY DEF GateInv
<1> QED BY <1>1, GateInvariant, PTL

\* The gate opens only over what was green or accepted, and a baseline is called stale
\* only by a sensor that did better than what was accepted (check.go cmdCheck, 344-404).
THEOREM PassesAreEarned == Spec => []PassIsEarned
<1>1. GateInv => PassIsEarned
  BY DEF GateInv
<1> QED BY <1>1, GateInvariant, PTL

\* What is saved was asked for, seen whole, and not saved over what could not be read
\* (check.go:134-183, 479-491).
THEOREM NothingSavedUnread == Spec => []SavesAreDeliberate
<1>1. GateInv => SavesAreDeliberate
  <2> SUFFICES ASSUME GateInv, NEW p \in Checks, Saving(p)
               PROVE  /\ ask[p].update /\ ~ask[p].gated /\ ask[p].overlay = {}
                      /\ Unobserved(p) = {}
                      /\ \A s \in Wanted(p) \intersect Commands : ~Broken(seen[p][s])
                      /\ ~overlapped => \A s \in Sensors : file[s] = Unreadable => writing[p] = s
    BY DEF SavesAreDeliberate
  <2>1. Means(p) /\ phase[p] # "idle"
    BY DEF GateInv, Deliberate, Saving
  <2>2. ask[p].update /\ ~ask[p].gated /\ ask[p].overlay = {} /\ Unobserved(p) = {} /\ ~BrokenGate(p)
    BY <2>1 DEF Means, Refused
  <2>3. \A s \in Wanted(p) \intersect Commands : ~Broken(seen[p][s])
    BY <2>2 DEF Unobserved, BrokenGate, Ran
  <2>4. ASSUME ~overlapped PROVE \A s \in Sensors : file[s] = Unreadable => writing[p] = s
    BY <2>2, <2>4 DEF GateInv, Alone, Updating, Saving, SavesAll, SaveFits
  <2> QED BY <2>2, <2>3, <2>4
<1> QED BY <1>1, GateInvariant, PTL

\* Until updates overlap, the files say what the last update of each sensor decided
\* (check.go:190-198, Save, pruneStale).
THEOREM LastWordStands == Spec => []LastWordKept
<1>1. GateInv => LastWordKept
  BY DEF GateInv
<1> QED BY <1>1, GateInvariant, PTL
================================================================================

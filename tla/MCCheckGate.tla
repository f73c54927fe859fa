---------------------------- MODULE MCCheckGate ----------------------------
(* Finite instances of CheckGate for TLC. *)
EXTENDS CheckGate, TLC

CONSTANTS gate, other,        \* two harnesses in one repository
          lint, report,       \* sensors of the first: a command, and a files sensor
          todo,               \* a count-ratchet sensor of the second
          a, b, c

MCHarnesses == {gate, other}
MCFindings == {a, b, c}
MCHarnessOf == [s \in Sensors |-> IF s = todo THEN other ELSE gate]
MCKind == [s \in Sensors |-> IF s = report THEN "files" ELSE "command"]
MCRank == [s \in Sensors |-> IF s = lint THEN 1 ELSE IF s = report THEN 2 ELSE 3]
MCRatchet == [s \in Sensors |-> IF s = todo THEN "count" ELSE "findings"]

Outcome(status, findings, total) == [status |-> status, findings |-> findings, total |-> total]
Green   == Outcome("green", {}, 0)
NotRun  == Outcome("broken", {}, 0)
Silent  == Outcome("failing", {}, 0)
One(f)  == Outcome("failing", {f}, 1)
Twice   == Outcome("failing", {a}, 2)
TooMany == Outcome("failing", {a, b}, 2)
AndMore == Outcome("failing", {a, b, c}, 3)
NotStarted == Outcome("unstarted", {b}, 1)

Interchangeable == Permutations(Checks)

MCOutcomesOf ==
  [s \in Sensors |-> CASE s = lint   -> {Green, NotRun, One(a), TooMany, AndMore}
                       [] s = todo   -> {Green, One(a), Twice}
                       [] s = report -> {Green, Silent}]

\* A machine on which the lint sensor's process cannot be started either.
WithoutProcess == [MCOutcomesOf EXCEPT ![lint] = {Green, One(a), NotStarted}]

\* Nothing, what two sensors fail of singly, or more than can be recorded.
Commit(l, t) == [s \in Sensors |-> IF s = lint THEN l ELSE IF s = todo THEN t ELSE NotSeen]
FreshRepository == {Commit(NotSeen, NotSeen)}
MCCommitted == {Commit(NotSeen, NotSeen), Commit(One(a), Twice), Commit(TooMany, NotSeen)}

\* An edit shows only to a run that has yet to observe the sensor: made at any
\* other time it has the same effects as made when such a run gets that far.
EditsShow ==
  \A s \in Sensors : outcome'[s] # outcome[s] =>
    \E p \in Checks : Loaded(p) /\ s \in Unobserved(p)

Plain == [ harness |-> gate, only |-> {}, overlay |-> {},
           update |-> FALSE, noBaseline |-> FALSE, soft |-> FALSE, gated |-> FALSE ]
Update == [Plain EXCEPT !.update = TRUE]

OnlyLint == [Plain EXCEPT !.only = {lint}]

MCAsks ==
  { Plain, [Plain EXCEPT !.harness = other], [OnlyLint EXCEPT !.noBaseline = TRUE],
    [OnlyLint EXCEPT !.overlay = {lint}], [OnlyLint EXCEPT !.soft = TRUE],
    Update, [Update EXCEPT !.only = {lint}], [Update EXCEPT !.harness = other],
    [Update EXCEPT !.gated = TRUE], [Update EXCEPT !.overlay = {lint}] }
=============================================================================

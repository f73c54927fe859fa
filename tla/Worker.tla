------------------------------- MODULE Worker -------------------------------
(***************************************************************************)
(* The worker of `ynh agent run`: a vendor CLI that leads a process group   *)
(* of its own, and how ynh reads, interrupts, closes and reaps it           *)
(* (internal/agent/worker.go, claude.go; codex.go, cursor.go and            *)
(* opencode.go for the backends that start one process a turn).  The model  *)
(* has a clock, for what it is about is a handful of timeouts: two of       *)
(* ynh's (grace, term), one of os/exec (delay), one left behind by an       *)
(* interrupt (kill).  Time passes only when nothing is left to do at once.  *)
(***************************************************************************)
EXTENDS Integers

CONSTANTS
  Kinds,     \* the backends: "session" (claude) keeps one process, "perTurn" starts one a turn
  Grace,     \* workerExitGrace
  Term,      \* workerTermGrace
  Delay,     \* cmd.WaitDelay
  MaxTurns,  \* bound: messages sent
  None       \* a timer that is not running

ASSUME WorkerAssumption ==
  /\ Kinds \subseteq {"session", "perTurn"}
  /\ {Grace, Term, Delay, MaxTurns} \subseteq Nat \ {0}
  /\ Term < Delay
  /\ None \notin Int

VARIABLES
  kind,       \* which backend this run has
  pc,         \* where the driver is: between calls, in Next, in cmd.Wait, in Close, ...
  leader,     \* the process ynh started
  child,      \* what else is alive in its group
  holds,      \* the pipes of the worker that the child has kept open
  stray,      \* does something of an earlier turn's group live on
  open,       \* turnOpen: a message was sent and its result not read
  waiter,     \* cmd.Wait: not called, waiting for the exit, then for the pipes, returned
  cancelled,  \* the run's context is cancelled
  timer,      \* what is left of each timer
  elapsed,    \* how long Close, or an interrupted turn, has taken
  signal,     \* the worst the group was sent while its leader lived
  termed,     \* how long ago it was first sent SIGTERM
  turns

group == <<leader, child, holds, stray>>
vars == <<kind, pc, leader, child, holds, stray, open, waiter, cancelled, timer,
          elapsed, signal, termed, turns>>

Timers == {"stage", "kill", "delay"}
Bound == Grace + Term + Delay   \* no clock of the model needs to count further
Closing == {"grace", "term", "kill"}
Running == pc \notin {"closed", "swept", "gone"}

TypeOK ==
  /\ kind \in Kinds
  /\ pc \in {"idle", "next", "wait", "ended", "closed", "swept", "gone"} \union Closing
  /\ leader \in {"none", "up", "zombie", "reaped"}
  /\ child \in {"none", "up", "down"}
  /\ holds \in SUBSET {"stdout", "stderr"}
  /\ stray \in BOOLEAN /\ open \in BOOLEAN /\ cancelled \in BOOLEAN
  /\ waiter \in {"none", "exit", "pipes", "done"}
  /\ timer \in [Timers -> Nat \union {None}]
  /\ elapsed \in 0..Bound /\ turns \in 0..MaxTurns
  /\ signal \in {"none", "term", "kill"}
  /\ termed \in Nat \union {None}
  /\ leader = "reaped" => waiter \in {"pipes", "done"}
  /\ timer["stage"] # None => pc \in Closing

(***************************************************************************)
(* The process group.  A process may leave, or start another, at any time;  *)
(* what it does about SIGTERM is its own affair; SIGKILL ends all that is   *)
(* in the group.                                                            *)
(***************************************************************************)
Set(t, n) == [timer EXCEPT ![t] = n]

Holding(pipe) == leader = "up" \/ (child = "up" /\ pipe \in holds)

SpawnChild ==
  /\ leader = "up" /\ child # "up"
  /\ child' = "up" /\ \E h \in SUBSET {"stdout", "stderr"} : holds' = h
  /\ UNCHANGED <<kind, pc, leader, stray, open, waiter, cancelled, timer, elapsed,
                 signal, termed, turns>>

LeaderExits ==
  /\ leader = "up" /\ leader' = "zombie"
  /\ UNCHANGED <<kind, pc, child, holds, stray, open, waiter, cancelled, timer,
                 elapsed, signal, termed, turns>>

ChildExits ==
  /\ child = "up" /\ child' = "down"
  /\ UNCHANGED <<kind, pc, leader, holds, stray, open, waiter, cancelled, timer,
                 elapsed, signal, termed, turns>>

\* signalGroup: SIGTERM asks
SignalTerm ==
  /\ signal' = IF leader = "up" /\ signal = "none" THEN "term" ELSE signal
  /\ termed' = IF termed = None THEN 0 ELSE termed
  /\ UNCHANGED <<leader, child>>

\* signalGroup: SIGKILL does not
SignalKill ==
  /\ signal' = IF leader = "up" THEN "kill" ELSE signal
  /\ leader' = IF leader = "up" THEN "zombie" ELSE leader
  /\ child' = IF child = "up" THEN "down" ELSE child
  /\ UNCHANGED termed

(***************************************************************************)
(* Sending and reading                                                      *)
(***************************************************************************)
\* claudeSession.Send to a process that reads.
Send ==
  /\ kind = "session" /\ pc = "idle" /\ turns < MaxTurns
  /\ open' = TRUE /\ turns' = turns + 1 /\ pc' = "next"
  /\ UNCHANGED <<kind, group, waiter, cancelled, timer, elapsed, signal, termed>>

\* writeLine fails: the worker has left, and how it left is asked of cmd.Wait.
SendFails ==
  /\ kind = "session" /\ pc = "idle" /\ turns < MaxTurns /\ leader # "up"
  /\ open' = TRUE /\ turns' = turns + 1
  /\ pc' = "wait" /\ waiter' = "exit"
  /\ UNCHANGED <<kind, group, cancelled, timer, elapsed, signal, termed>>

\* The other backends start a process for each message, which os/exec refuses once
\* the context is cancelled (startWorker fails, and Next with it).
StartTurn ==
  /\ kind = "perTurn" /\ pc = "idle" /\ turns < MaxTurns /\ ~cancelled
  /\ turns' = turns + 1 /\ pc' = "next"
  /\ leader' = "up" /\ child' = "none" /\ holds' = {}
  /\ stray' = (stray \/ child = "up")
  /\ waiter' = "none" /\ signal' = "none" /\ termed' = None
  /\ timer' = Set("delay", None)
  /\ UNCHANGED <<kind, open, cancelled, elapsed>>

StartFails ==
  /\ kind = "perTurn" /\ pc = "idle" /\ pc' = "ended"
  /\ UNCHANGED <<kind, group, open, waiter, cancelled, timer, elapsed, signal, termed, turns>>

\* Next reads the turn's result, of a worker that may have left since it wrote it.
ReadResult ==
  /\ kind = "session" /\ pc = "next" /\ leader \in {"up", "zombie"}
  /\ open' = FALSE /\ pc' = "idle"
  /\ UNCHANGED <<kind, group, waiter, cancelled, timer, elapsed, signal, termed, turns>>

\* Next gives up on a worker that lives: a line it cannot read, or a session in the wrong
\* permission mode, whose process it kills (the process alone, not its group).
ReadFails ==
  /\ kind = "session" /\ pc = "next" /\ leader = "up" /\ pc' = "ended"
  /\ leader' \in {"up", "zombie"}
  /\ UNCHANGED <<kind, child, holds, stray, open, waiter, cancelled, timer, elapsed,
                 signal, termed, turns>>

\* Nobody holds stdout any more: Next reaps the worker.  A backend of one process a turn
\* reads or drains to this point whatever it has parsed.
ReadEOF ==
  /\ pc = "next" /\ ~Holding("stdout")
  /\ pc' = "wait" /\ waiter' = "exit"
  /\ UNCHANGED <<kind, group, open, cancelled, timer, elapsed, signal, termed, turns>>

(***************************************************************************)
(* cmd.Wait.  It waits for the exit, then for the copy of stderr to end,    *)
(* which a child can put off by WaitDelay; the delay counts from the        *)
(* interrupt, if there was one.                                             *)
(***************************************************************************)
WaitSees ==
  /\ waiter = "exit" /\ leader = "zombie"
  /\ leader' = "reaped" /\ waiter' = "pipes"
  /\ \E n \in IF cancelled THEN 0..Delay ELSE {Delay} : timer' = Set("delay", n)
  /\ UNCHANGED <<kind, pc, child, holds, stray, open, cancelled, elapsed, signal, termed, turns>>

Drained == ~Holding("stderr") \/ timer["delay"] = 0

WaitReturns ==
  /\ waiter = "pipes" /\ Drained
  /\ waiter' = "done" /\ timer' = Set("delay", None)
  /\ UNCHANGED <<kind, pc, group, open, cancelled, elapsed, signal, termed, turns>>

\* Next, or Send, has its answer: a turn of a backend with one process a turn, or an error.
Answered ==
  /\ pc = "wait" /\ waiter = "done"
  /\ pc' \in IF kind = "session" THEN {"ended"} ELSE {"idle", "ended"}
  /\ UNCHANGED <<kind, group, open, waiter, cancelled, timer, elapsed, signal, termed, turns>>

(***************************************************************************)
(* An interrupt: cmd.Cancel is stopGroup.  os/exec watches the context from *)
(* the start of the process until Wait has seen its exit.                   *)
(***************************************************************************)
Interrupt ==
  /\ Running /\ ~cancelled /\ cancelled' = TRUE
  /\ elapsed' = IF pc \in Closing THEN elapsed ELSE 0
  /\ IF leader \in {"up", "zombie"}
       THEN SignalTerm /\ timer' = Set("kill", Term)
       ELSE UNCHANGED <<leader, child, signal, termed, timer>>
  /\ UNCHANGED <<kind, pc, holds, stray, open, waiter, turns>>

KillAfterTerm ==
  /\ timer["kill"] = 0 /\ pc # "gone"
  /\ SignalKill /\ timer' = Set("kill", None)
  /\ UNCHANGED <<kind, pc, holds, stray, open, waiter, cancelled, elapsed, turns>>

(***************************************************************************)
(* Close and reapWorker                                                     *)
(***************************************************************************)
\* Next, or Send, has reaped the worker already; or the backend has nothing to close.
CloseReaped ==
  /\ pc \in {"idle", "ended"} /\ (kind = "perTurn" \/ waiter = "done")
  /\ pc' = "closed"
  /\ UNCHANGED <<kind, group, open, waiter, cancelled, timer, elapsed, signal, termed, turns>>

\* With no turn open, stdin is closed and the worker left to leave.
CloseGracefully ==
  /\ kind = "session" /\ pc \in {"idle", "ended"} /\ waiter = "none" /\ ~open
  /\ waiter' = "exit" /\ pc' = "grace" /\ timer' = Set("stage", Grace) /\ elapsed' = 0
  /\ UNCHANGED <<kind, group, open, cancelled, signal, termed, turns>>

\* A worker in a turn is asked to stop at once.
CloseAtOnce ==
  /\ kind = "session" /\ pc \in {"idle", "ended"} /\ waiter = "none" /\ open
  /\ SignalTerm
  /\ waiter' = "exit" /\ pc' = "term" /\ timer' = Set("stage", Term) /\ elapsed' = 0
  /\ UNCHANGED <<kind, holds, stray, open, cancelled, turns>>

GraceOver ==
  /\ pc = "grace" /\ timer["stage"] = 0
  /\ SignalTerm
  /\ pc' = "term" /\ timer' = Set("stage", Term)
  /\ UNCHANGED <<kind, holds, stray, open, waiter, cancelled, elapsed, turns>>

\* mutant: SIGKILL for the process ynh started, and not for its group
TermOverAlone ==
  /\ pc = "term" /\ timer["stage"] = 0
  /\ leader' = IF leader = "up" THEN "zombie" ELSE leader
  /\ pc' = "kill" /\ timer' = Set("stage", None)
  /\ UNCHANGED <<kind, child, holds, stray, open, waiter, cancelled, elapsed, signal, termed, turns>>

TermOver ==
  /\ pc = "term" /\ timer["stage"] = 0
  /\ SignalKill
  /\ pc' = "kill" /\ timer' = Set("stage", None)
  /\ UNCHANGED <<kind, holds, stray, open, waiter, cancelled, elapsed, turns>>

\* mutant: only the process is waited for, and its group left alone
ReapedAlone ==
  /\ pc \in Closing /\ waiter = "done"
  /\ pc' = "swept" /\ timer' = Set("stage", None)
  /\ UNCHANGED <<kind, group, open, waiter, cancelled, elapsed, signal, termed, turns>>

\* The worker is reaped; whatever it left in its group is killed.
Reaped ==
  /\ pc \in Closing /\ waiter = "done"
  /\ SignalKill
  /\ pc' = "swept" /\ timer' = Set("stage", None)
  /\ UNCHANGED <<kind, holds, stray, open, waiter, cancelled, elapsed, turns>>

\* RunLoop has returned, and ynh with it; its timers are no more.
Exit ==
  /\ pc \in {"closed", "swept"} /\ pc' = "gone"
  /\ timer' = [t \in Timers |-> None]
  /\ UNCHANGED <<kind, group, open, waiter, cancelled, elapsed, signal, termed, turns>>

(***************************************************************************)
(* Time passes when nobody has anything to do at once.                      *)
(***************************************************************************)
Prompt ==
  \/ \E t \in Timers : timer[t] = 0
  \/ waiter = "exit" /\ leader = "zombie"
  \/ waiter = "pipes" /\ Drained
  \/ pc \in Closing \union {"wait"} /\ waiter = "done"
  \/ pc = "next" /\ ~Holding("stdout")

Later(n) == IF n = None THEN None ELSE n - 1

Tick ==
  /\ ~Prompt /\ pc # "gone"
  /\ \E t \in Timers : timer[t] # None
  /\ timer' = [t \in Timers |-> Later(timer[t])]
  /\ elapsed' = IF elapsed < Bound THEN elapsed + 1 ELSE Bound
  /\ termed' = IF termed = None THEN None ELSE IF termed < Bound THEN termed + 1 ELSE Bound
  /\ UNCHANGED <<kind, pc, group, open, waiter, cancelled, signal, turns>>

Init ==
  /\ kind \in Kinds
  /\ pc = "idle" /\ leader = (IF kind = "session" THEN "up" ELSE "none")
  /\ child = "none" /\ holds = {} /\ stray = FALSE /\ open = FALSE
  /\ waiter = "none" /\ cancelled = FALSE
  /\ timer = [t \in Timers |-> None]
  /\ elapsed = 0 /\ signal = "none" /\ termed = None /\ turns = 0

Over == pc = "gone" /\ UNCHANGED vars

Workers == SpawnChild \/ LeaderExits \/ ChildExits
Turns == Send \/ SendFails \/ StartTurn \/ StartFails \/ ReadResult \/ ReadFails
         \/ ReadEOF \/ Answered
Waits == WaitSees \/ WaitReturns
Close == CloseReaped \/ CloseGracefully \/ CloseAtOnce \/ GraceOver \/ TermOver \/ Reaped

Next == Workers \/ Turns \/ Waits \/ Interrupt \/ KillAfterTerm \/ Close \/ Exit \/ Tick \/ Over

Spec == Init /\ [][Next]_vars

(***************************************************************************)
(* Properties                                                               *)
(***************************************************************************)
\* A worker that Close itself reaped has left nothing in its group, however its
\* exit, its children's and the timeouts fell (worker.go:371-402).
CloseLeavesNobody == pc = "swept" => leader = "reaped" /\ child # "up"

\* Whatever the worker, its children and their pipes do, Close takes no longer than the
\* two graces together, and an interrupted turn no longer than term: what is left over
\* of the pipes of a worker that had already left may take os/exec's delay.
StopsInTime ==
  /\ pc \in Closing => elapsed <= Grace + Term
  /\ cancelled /\ pc = "next" => elapsed <= Term
  /\ cancelled /\ pc = "wait" => elapsed <= Delay

\* The group of a living worker is killed only when it was asked to stop and had its time,
\* and is asked only when the run was interrupted, a turn is open, or it had its time to
\* leave by itself (worker.go:318-321, 371-376).
GraceIsGiven ==
  /\ signal = "kill" => termed # None /\ termed >= Term
  /\ signal # "none" => cancelled \/ open \/ elapsed >= Grace

\* Stopping a worker takes its time, no more and no less.
StopsOnTime == StopsInTime /\ GraceIsGiven

\* Nothing of a worker outlives the run (worker_group_test.go:78).  The code lets it: a
\* worker that left in a turn was reaped by Next, and Close then signals nobody.
NobodyLeftBehind == pc = "gone" => child # "up" /\ ~stray

=============================================================================

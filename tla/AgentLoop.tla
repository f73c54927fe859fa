----------------------------- MODULE AgentLoop -----------------------------
(***************************************************************************)
(* One durable session of `ynh agent run` (internal/agent): RunLoop over   *)
(* any number of launches of the process, its budgets, checkpoint.json,    *)
(* the gate it consults every turn, the watchdog, the approval gates and   *)
(* the stop signals.  A launch is a fresh start or a --resume; between two *)
(* launches the process has exited or crashed.                             *)
(*                                                                         *)
(* Message texts are abstracted to what they stand for: the task, a plan   *)
(* request, the first act message of plan i, the feedback of turn n.       *)
(* Wall-clock time passes only while the loop is blocked (worker turn,     *)
(* gate, verifiers, approval), and tokens and wall saturate at their caps, *)
(* which are the only values the code compares them with.                  *)
(***************************************************************************)
EXTENDS Integers

CONSTANTS
  Harnesses,       \* harnesses a launch can name
  NoHarness,       \* no --harness given
  WithSensors,     \* those that declare regular sensors
  WithVerifiers,   \* those that declare convergence verifiers
  LaunchOptions,   \* flag combinations a launch may carry
  DefaultMaxTurns, MaxTokens, MaxWall,
  MaxPlanIterations,
  EditLoopThreshold, NoProgressThreshold,
  Responses,       \* distinguishable worker replies
  Findings,        \* distinguishable fingerprints of a gate result
  Baselines,       \* contents of the baseline directory
  Unreadable,      \* a baseline directory that cannot be read
  MaxLaunches,     \* bound: launches of the session
  MaxFaults        \* bound: checkpoint writes that fail

ASSUME LoopAssumption ==
  /\ NoHarness \notin Harnesses
  /\ Unreadable \notin Baselines
  /\ WithSensors \subseteq Harnesses
  /\ WithVerifiers \subseteq Harnesses
  /\ {DefaultMaxTurns, MaxTokens, MaxWall, MaxPlanIterations,
      EditLoopThreshold, NoProgressThreshold} \subseteq Nat \ {0}
  /\ LaunchOptions \subseteq
       [interactive : BOOLEAN, noPlan : BOOLEAN, maxTurns : Nat,
        harness : Harnesses \union {NoHarness}]
  /\ {MaxLaunches, MaxFaults} \subseteq Nat

VARIABLES
  pc,         \* where the driver is; "down" between launches
  exit,       \* why the last launch ended
  opts,       \* the launch's flags, after the checkpoint filled the gaps
  resumed,    \* this launch is a --resume
  used,       \* budget consumed: turns, tokens, wall
  planIter,   \* plan request in progress
  plan,       \* the approved plan (the iteration that produced it), 0 if none
  msg,        \* the message about to be sent
  cancelled,  \* the run's context is cancelled (SIGINT, SIGTERM, interrupt)
  worker,     \* "none", "idle", "turn" (owes a reply) or "dead"
  baseline,   \* the baseline directory in the worktree
  fp,         \* its fingerprint, taken at act entry
  env,        \* the gate envelope of the turn being judged
  watch,      \* the watchdog: last reply and its run, last findings and theirs
  disk,       \* checkpoint.json
  completed,  \* history: turns recorded over the whole session
  launches,   \* history: launches so far
  faults,     \* history: checkpoint writes that failed
  missed      \* history: of those, since the last one that succeeded

loopVars == <<pc, exit, opts, resumed, used, planIter, plan, msg, cancelled,
              worker, baseline, fp, env, watch, disk>>
history  == <<completed, launches, faults, missed>>
vars     == <<loopVars, history>>
session  == <<opts, resumed>>

Nothing    == "nothing"
NoResult   == "no envelope"
NoEnvelope == [ran |-> FALSE, canGate |-> FALSE, blocked |-> FALSE,
               findings |-> Nothing, turn |-> 0]
NoMessage  == [kind |-> "none", n |-> 0]
First(i)   == [kind |-> "first", n |-> i]
Feedback(i) == [kind |-> "feedback", n |-> i]
FreshWatch == [reply |-> Nothing, same |-> 0, findings |-> Nothing, still |-> 0]
NoCheckpoint == [phase |-> "none"]

Smaller(a, b) == IF a <= b THEN a ELSE b

------------------------------------------------------------------------------
(* Budget *)

\* Budget.Exceeded: which cap is hit, asked in this order.
Exceeded(u) ==
  IF u.turns >= opts.maxTurns THEN "turnCap"
  ELSE IF u.tokens >= MaxTokens THEN "tokenBudget"
  ELSE IF u.wall >= MaxWall THEN "wallClock"
  ELSE "within"

\* RecordTurn and RecordUsage of a reply, after w units of blocking.
Record(u, k, t, w) ==
  [turns  |-> u.turns + k,
   tokens |-> Smaller(u.tokens + t, MaxTokens),
   wall   |-> Smaller(u.wall + w, MaxWall)]

Waited(u, w) == Record(u, 0, 0, w)

\* stopRun: an interrupt, then a spent cap, ends the run.
StopRun(u) == IF cancelled THEN "interrupted" ELSE Exceeded(u)

\* stopForWall: the cap that Exceeded reports is the wall clock.
StopForWall(u) == IF Exceeded(u) = "wallClock" THEN StopRun(u) ELSE "within"

------------------------------------------------------------------------------
(* Checkpoint *)

\* Mutant: the turn count is left out of the file.
CheckpointWithoutTurns(phase, last, pending, i, p, u) ==
  [phase |-> phase, last |-> 0, pending |-> pending, planIter |-> i,
   plan |-> p, used |-> [u EXCEPT !.turns = 0], harness |-> opts.harness,
   maxTurns |-> opts.maxTurns]

Checkpoint(phase, last, pending, i, p, u) ==
  [phase |-> phase, last |-> last, pending |-> pending, planIter |-> i,
   plan |-> p, used |-> u, harness |-> opts.harness,
   maxTurns |-> opts.maxTurns]

\* saveCheckpoint: write a temporary file and rename it.  A failed write is
\* reported and the run goes on with the previous file in place.
Save(cp) ==
  \/ /\ disk' = cp
     /\ missed' = 0
     /\ UNCHANGED faults
  \/ /\ faults < MaxFaults
     /\ faults' = faults + 1
     /\ missed' = missed + 1
     /\ UNCHANGED disk

NoSave == UNCHANGED <<disk, faults, missed>>

\* Every return closes the worker session.
Exit(code) ==
  /\ pc' = "down"
  /\ exit' = code
  /\ worker' = "none"

Goto(l) == pc' = l /\ UNCHANGED exit

------------------------------------------------------------------------------
(* Launching *)

NewLaunch ==
  /\ pc = "down"
  /\ launches < MaxLaunches
  /\ launches' = launches + 1
  /\ cancelled' = FALSE
  /\ watch' = FreshWatch
  /\ env' = NoEnvelope
  /\ UNCHANGED <<baseline, fp, completed>>

\* A fresh run: no checkpoint yet, budgets start at zero.
Start(o) ==
  /\ launches = 0
  /\ NewLaunch
  /\ opts' = [o EXCEPT !.maxTurns = IF @ = 0 THEN DefaultMaxTurns ELSE @]
  /\ resumed' = FALSE
  /\ used' = [turns |-> 0, tokens |-> 0, wall |-> 0]
  /\ planIter' = 0 /\ plan' = 0 /\ msg' = NoMessage
  /\ Goto("boot")
  /\ UNCHANGED worker
  /\ NoSave

\* --resume: identity and caps the flags leave out come from the checkpoint,
\* counters always do, and a spent cap ends the run before any worker starts.
Resume(o) ==
  /\ launches > 0
  /\ NewLaunch
  /\ resumed' = TRUE
  /\ msg' = NoMessage
  /\ UNCHANGED <<faults, disk>>
  /\ IF disk = NoCheckpoint
       THEN /\ Exit("resumeError")
            /\ UNCHANGED missed
            /\ opts' = [o EXCEPT !.maxTurns = IF @ = 0 THEN DefaultMaxTurns ELSE @]
            /\ UNCHANGED <<used, planIter, plan>>
       ELSE /\ opts' = [o EXCEPT
                  !.maxTurns = IF @ = 0 THEN disk.maxTurns ELSE @,
                  !.harness  = IF @ = NoHarness THEN disk.harness ELSE @]
            /\ used' = disk.used
            /\ missed' = 0
            /\ planIter' = disk.planIter
            /\ plan' = IF disk.phase = "act" THEN disk.plan ELSE 0
            /\ IF Exceeded(disk.used)' = "within"
                 THEN Goto("boot") /\ UNCHANGED worker
                 ELSE Exit(Exceeded(disk.used)')

ResumingAct == resumed /\ disk.phase = "act"
\* Mutant: a resume of an acting session plans again.
RunPlanAlways == ~opts.noPlan

RunPlan     == ~opts.noPlan /\ ~ResumingAct

\* The worker starts; a run that plans first persists a plan-phase
\* checkpoint, so a crash while planning is resumable.
StartWorker ==
  /\ pc = "boot"
  /\ ~cancelled
  /\ worker' = "idle"
  /\ IF RunPlan
       THEN /\ Goto("sendPlan")
            /\ planIter' = 1
            /\ Save(Checkpoint("plan", 0, NoMessage, planIter, plan, used))
       ELSE Goto("actEntry") /\ NoSave /\ UNCHANGED planIter
  /\ UNCHANGED <<session, used, plan, msg, cancelled, baseline, fp, env, watch,
                 completed, launches>>

StartFails ==
  /\ pc = "boot"
  /\ Exit(IF cancelled THEN "interrupted" ELSE "workerError")
  /\ UNCHANGED <<session, used, planIter, plan, msg, cancelled, baseline, fp,
                 env, watch, disk, history>>

------------------------------------------------------------------------------
(* Plan phase *)

\* sess.Send: delivered to a live worker, an error from a dead one.
SendTo(here, next) ==
  /\ pc = here
  /\ \/ worker = "idle" /\ worker' = "turn" /\ Goto(next)
     \/ worker = "dead" /\ Exit(IF cancelled THEN "interrupted" ELSE "workerError")
  /\ UNCHANGED <<session, used, planIter, plan, msg, cancelled, baseline, fp,
                 env, watch, disk, history>>

SendPlan == SendTo("sendPlan", "planTurn")

\* Mutant: the end of the worker's output is not an error.
NextIgnoresExit(here) ==
  /\ pc = here
  /\ worker \in {"turn", "dead"}
  /\ UNCHANGED vars

\* sess.Next failed: a cancelled context, a dead worker, a vendor error or an
\* unmetered reply.  The partial turn is discarded.
NextFails(here) ==
  /\ pc = here
  /\ worker \in {"turn", "dead"}
  /\ Exit(IF cancelled THEN "interrupted" ELSE "workerError")
  /\ UNCHANGED <<session, used, planIter, plan, msg, cancelled, baseline, fp,
                 env, watch, disk, history>>

\* A plan reply costs tokens and time, not a turn; the caps are asked at once.
PlanReply(t, w) ==
  /\ pc = "planTurn"
  /\ worker = "turn"
  /\ ~cancelled
  /\ used' = Record(used, 0, t, w)
  /\ IF Exceeded(used') # "within"
       THEN Exit(Exceeded(used')) /\ UNCHANGED plan
       ELSE /\ worker' = "idle"
            /\ IF opts.interactive
                 THEN Goto("planAsk") /\ UNCHANGED plan
                 ELSE Goto("actEntry") /\ plan' = planIter
  /\ UNCHANGED <<session, planIter, msg, cancelled, baseline, fp, env, watch,
                 disk, history>>

\* The operator's answer at the plan gate; the wait counts as wall clock.
PlanAnswer(a, w) ==
  /\ pc = "planAsk"
  /\ used' = Waited(used, w)
  /\ \/ /\ a = "approve"
        /\ plan' = planIter
        /\ Goto("actEntry")
        /\ UNCHANGED <<planIter, worker>>
     \/ /\ a = "refine"
        /\ IF planIter >= MaxPlanIterations
             THEN Exit("planIterationCap") /\ UNCHANGED planIter
             ELSE Goto("sendPlan") /\ planIter' = planIter + 1 /\ UNCHANGED worker
        /\ UNCHANGED plan
     \/ /\ a = "reject"
        /\ Exit("userAborted")
        /\ UNCHANGED <<planIter, plan>>
     \/ /\ a = "interrupt"
        /\ Exit("interrupted")
        /\ UNCHANGED <<planIter, plan>>
  /\ UNCHANGED <<session, msg, cancelled, baseline, fp, env, watch, disk, history>>

------------------------------------------------------------------------------
(* Act phase *)

\* The first message, the act-entry checkpoint (not on a resume that was
\* already acting) and the fingerprint of the gate's reference point.
ActEntry ==
  /\ pc = "actEntry"
  /\ LET first == IF ResumingAct THEN disk.pending ELSE First(plan)
     IN /\ msg' = first
        /\ IF ResumingAct
             THEN NoSave
             ELSE Save(Checkpoint("act", used.turns, first, planIter, plan, used))
  /\ fp' = baseline
  /\ IF baseline = Unreadable
       THEN Exit("gateError")
       ELSE Goto("sendFirst") /\ UNCHANGED worker
  /\ UNCHANGED <<session, used, planIter, plan, cancelled, baseline, env, watch,
                 completed, launches>>

SendFirst == SendTo("sendFirst", "loopTop")

LoopTop ==
  /\ pc = "loopTop"
  /\ IF StopRun(used) = "within"
       THEN Goto("actTurn") /\ UNCHANGED worker
       ELSE Exit(StopRun(used))
  /\ UNCHANGED <<session, used, planIter, plan, msg, cancelled, baseline, fp,
                 env, watch, disk, history>>

\* The reply half of Watchdog.RecordTurn: how often in a row it has been given.
Heard(r) ==
  [reply |-> r, same |-> IF r = watch.reply THEN watch.same + 1 ELSE 1,
   findings |-> watch.findings, still |-> watch.still]

\* A completed turn is counted, then the baseline must still be the one the
\* launch started from; only then is the gate consulted.
TurnReply(r, t, w) ==
  /\ pc = "actTurn"
  /\ worker = "turn"
  /\ ~cancelled
  /\ used' = Record(used, 1, t, w)
  /\ completed' = completed + 1
  /\ env' = NoEnvelope
  /\ watch' = Heard(r)
  /\ IF baseline # fp
       THEN Exit("tamper")
       ELSE /\ worker' = "idle"
            /\ Goto(IF opts.harness \in WithSensors THEN "gate" ELSE "judge")
  /\ UNCHANGED <<session, planIter, plan, msg, cancelled, baseline, fp, disk,
                 launches, faults, missed>>

\* One `ynh check` over the regular sensors; a check that cannot run is an
\* operator fault and ends the run.
Envelopes == { e \in [ran : BOOLEAN, canGate : BOOLEAN, blocked : BOOLEAN,
                      findings : Findings, turn : {used.turns}] :
                 (e.canGate \/ e.blocked) => e.ran }

Gate(e, w) ==
  /\ pc = "gate"
  /\ used' = Waited(used, w)
  /\ \/ Goto("judge") /\ env' = e /\ UNCHANGED worker
     \/ Exit("gateError") /\ UNCHANGED env
  /\ UNCHANGED <<session, planIter, plan, msg, cancelled, baseline, fp, watch,
                 disk, history>>

VerificationExpected == opts.harness # NoHarness \/ resumed

\* Mutant: any sensor that ran is evidence enough.
GatePassedByAnySensor ==
  /\ VerificationExpected => env.ran
  /\ ~env.blocked

\* checkConvergence up to the verifiers.
GatePassed ==
  /\ VerificationExpected => env.ran /\ env.canGate
  /\ ~env.blocked

Judge ==
  /\ pc = "judge"
  /\ IF ~GatePassed
       THEN Goto("feedback") /\ UNCHANGED worker
       ELSE IF opts.harness \notin WithVerifiers
              THEN Exit("converged")
              ELSE IF StopForWall(used) = "within"
                     THEN Goto("verify") /\ UNCHANGED worker
                     ELSE Exit(StopForWall(used))
  /\ UNCHANGED <<session, used, planIter, plan, msg, cancelled, baseline, fp,
                 env, watch, disk, history>>

\* runVerifiers: one more `ynh check`, judged by its own envelope.
Verify(verdict, w) ==
  /\ pc = "verify"
  /\ used' = Waited(used, w)
  /\ \/ verdict = "pass"  /\ Exit("converged")
     \/ verdict = "fail"  /\ Goto("feedback") /\ UNCHANGED worker
     \/ verdict = "error" /\ Exit("gateError")
  /\ UNCHANGED <<session, planIter, plan, msg, cancelled, baseline, fp, env,
                 watch, disk, history>>

\* stopBeforeSend: a run that ends here keeps the unsent feedback as the
\* checkpoint's pending message.
StopBeforeSend(u, go) ==
  IF StopRun(u) = "within"
    THEN Goto(go) /\ UNCHANGED worker /\ NoSave
    ELSE /\ Exit(StopRun(u))
         /\ Save(Checkpoint("act", u.turns, Feedback(u.turns), planIter, plan, u))

\* Watchdog.RecordTurn, whose reply half TurnReply has already counted.
SeenFindings == IF env = NoEnvelope THEN NoResult ELSE env.findings
NextStill == IF SeenFindings = watch.findings THEN watch.still + 1 ELSE 0
Judged == [reply |-> watch.reply, same |-> watch.same, findings |-> SeenFindings,
           still |-> NextStill]

NotConverged ==
  /\ pc = "feedback"
  /\ msg' = Feedback(used.turns)
  /\ IF watch.same >= EditLoopThreshold
       THEN Exit("stuck") /\ NoSave /\ UNCHANGED watch
       ELSE /\ watch' = Judged
            /\ IF NextStill >= NoProgressThreshold
                 THEN Exit("stuck") /\ NoSave
                 ELSE StopBeforeSend(used,
                        IF opts.interactive THEN "turnAsk" ELSE "sendFeedback")
  /\ UNCHANGED <<session, used, planIter, plan, cancelled, baseline, fp, env,
                 completed, launches>>

\* The turn gate: approve, replace and reject all let the turn go ahead; an
\* interrupt or a closed control channel ends the run with no save.
TurnAnswer(a, w) ==
  /\ pc = "turnAsk"
  /\ used' = Waited(used, w)
  /\ IF a = "interrupt"
       THEN Exit("interrupted") /\ NoSave
       ELSE StopBeforeSend(used', "sendFeedback")
  /\ UNCHANGED <<session, planIter, plan, msg, cancelled, baseline, fp, env,
                 watch, completed, launches>>

SendFeedback == SendTo("sendFeedback", "save")

\* Mutant: only the phase boundaries are checkpointed.
SaveNothing ==
  /\ pc = "save"
  /\ NoSave
  /\ Goto("loopTop")
  /\ UNCHANGED <<session, used, planIter, plan, msg, cancelled, worker,
                 baseline, fp, env, watch, completed, launches>>

SaveTurn ==
  /\ pc = "save"
  /\ Save(Checkpoint("act", used.turns, msg, planIter, plan, used))
  /\ Goto("loopTop")
  /\ UNCHANGED <<session, used, planIter, plan, msg, cancelled, worker,
                 baseline, fp, env, watch, completed, launches>>

------------------------------------------------------------------------------
(* The world around the loop *)

Running == pc # "down"

\* SIGINT, SIGTERM, or {"action":"interrupt"} when nothing else reads the
\* control channel: the context is cancelled, and the loop finds out later.
Signal ==
  /\ Running /\ ~cancelled
  /\ cancelled' = TRUE
  /\ UNCHANGED <<pc, exit, session, used, planIter, plan, msg, worker, baseline,
                 fp, env, watch, disk, history>>

\* A worker process exits on its own, or is stopped by the cancelled context.
WorkerDies ==
  /\ worker \in {"idle", "turn"}
  /\ worker' = "dead"
  /\ UNCHANGED <<pc, exit, session, used, planIter, plan, msg, cancelled,
                 baseline, fp, env, watch, disk, history>>

\* A worker that has a turn may write anything, the baseline included.
WorkerEditsBaseline(b) ==
  /\ worker = "turn"
  /\ baseline # b
  /\ baseline' = b
  /\ UNCHANGED <<pc, exit, session, used, planIter, plan, msg, cancelled,
                 worker, fp, env, watch, disk, history>>

\* The ynh process is killed: memory is lost, the file stays.
Crash ==
  /\ Running
  /\ Exit("crash")
  /\ UNCHANGED <<session, used, planIter, plan, msg, cancelled, baseline, fp,
                 env, watch, disk, history>>

------------------------------------------------------------------------------

Init ==
  /\ pc = "down" /\ exit = "none" /\ worker = "none"
  /\ opts \in LaunchOptions
  /\ resumed = FALSE /\ cancelled = FALSE
  /\ used = [turns |-> 0, tokens |-> 0, wall |-> 0]
  /\ planIter = 0 /\ plan = 0 /\ msg = NoMessage
  /\ baseline \in Baselines /\ fp = baseline
  /\ env = NoEnvelope /\ watch = FreshWatch
  /\ disk = NoCheckpoint
  /\ completed = 0 /\ launches = 0 /\ faults = 0 /\ missed = 0

Launch == \E o \in LaunchOptions : Start(o) \/ Resume(o)

\* Steps the loop takes by itself once what it waits for has happened.
LoopStep ==
  \/ StartWorker \/ StartFails \/ SendPlan \/ ActEntry \/ SendFirst \/ LoopTop
  \/ \E w \in 0..1 : \E e \in Envelopes : Gate(e, w)
  \/ Judge
  \/ \E w \in 0..1 : \E v \in {"pass", "fail", "error"} : Verify(v, w)
  \/ NotConverged \/ SendFeedback \/ SaveTurn

\* Replies and failures of the worker that Next returns to the loop.
WorkerStep ==
  \/ NextFails("planTurn") \/ NextFails("actTurn")
  \/ \E t, w \in 0..1 : PlanReply(t, w)
  \/ \E r \in Responses : \E t, w \in 0..1 : TurnReply(r, t, w)

OperatorAnswers ==
  \E w \in 0..1 :
    \/ \E a \in {"approve", "refine", "reject", "interrupt"} : PlanAnswer(a, w)
    \/ \E a \in {"approve", "replace", "reject", "interrupt"} : TurnAnswer(a, w)

Environment ==
  \/ Signal \/ WorkerDies \/ Crash
  \/ \E b \in Baselines \union {Unreadable} : WorkerEditsBaseline(b)

Next == Launch \/ LoopStep \/ WorkerStep \/ OperatorAnswers \/ Environment

Spec == Init /\ [][Next]_vars

\* The driver is never blocked for good on its own work, and a worker with a
\* turn answers or fails.  Nothing is assumed of the operator, of signals or
\* of the person who launches a session.
FairSpec == Spec /\ WF_vars(LoopStep) /\ WF_vars(WorkerStep)

------------------------------------------------------------------------------
(* Properties *)

Uses == [turns : Nat, tokens : 0..MaxTokens, wall : 0..MaxWall]
Messages == [kind : {"none", "first", "feedback"}, n : Nat]
Stages == {"down", "boot", "sendPlan", "planTurn", "planAsk", "actEntry",
           "sendFirst", "loopTop", "actTurn", "gate", "judge", "verify",
           "feedback", "turnAsk", "sendFeedback", "save"}
Exits == {"none", "crash", "resumeError", "workerError", "interrupted",
          "turnCap", "tokenBudget", "wallClock", "planIterationCap",
          "userAborted", "gateError", "tamper", "stuck", "converged"}
Envs == [ran : BOOLEAN, canGate : BOOLEAN, blocked : BOOLEAN,
         findings : Findings \union {Nothing}, turn : Nat]
Checkpoints ==
  [phase : {"plan", "act"}, last : Nat, pending : Messages, planIter : Nat,
   plan : Nat, used : Uses, harness : Harnesses \union {NoHarness},
   maxTurns : Nat]

ControlType == pc \in Stages /\ exit \in Exits /\ worker \in {"none", "idle", "turn", "dead"}

LaunchType ==
  /\ opts \in [interactive : BOOLEAN, noPlan : BOOLEAN, maxTurns : Nat,
               harness : Harnesses \union {NoHarness}]
  /\ resumed \in BOOLEAN
  /\ cancelled \in BOOLEAN

CountType == used \in Uses /\ planIter \in Nat /\ plan \in Nat /\ msg \in Messages

WorktreeType ==
  baseline \in Baselines \union {Unreadable} /\ fp \in Baselines \union {Unreadable}

VerdictType ==
  /\ env \in Envs
  /\ watch \in [reply : Responses \union {Nothing}, same : Nat,
                findings : Findings \union {Nothing, NoResult}, still : Nat]

DiskType ==
  disk \in Checkpoints \union {NoCheckpoint} /\ faults \in Nat /\ missed \in Nat

HistoryType == completed \in Nat /\ launches \in Nat

\* Every variable keeps to the values the code can give it.
TypeOK ==
  /\ ControlType /\ LaunchType /\ CountType /\ WorktreeType /\ VerdictType
  /\ DiskType /\ HistoryType

\* A run that was to be verified converges only on evidence of its last turn:
\* an envelope of that very turn in which a blocking command sensor ran and
\* nothing blocked, judged by the baseline the launch started from.
ConvergedOnEvidence ==
  (pc = "down" /\ exit = "converged" /\ VerificationExpected) =>
    /\ env.turn = used.turns
    /\ env.ran /\ env.canGate /\ ~env.blocked
    /\ baseline = fp

CheckpointedTurns == IF disk = NoCheckpoint THEN 0 ELSE disk.used.turns

\* Whenever the session is killed, it has lost at most the turn in flight and
\* the turns whose checkpoint could not be written.
AtMostOneTurnLost == used.turns - CheckpointedTurns <= 1 + missed

\* The turn cap holds over the whole session, not over each launch of it: a
\* relaunch redoes at most one turn, and a failed checkpoint write costs one.
SessionTurnsBounded ==
  (launches > 0 /\ pc # "down") =>
    completed <= opts.maxTurns + (launches - 1) + faults

\* However often a session is killed and resumed, no more of its turns are lost,
\* and no more are run, than its kills and its failed writes account for.
TurnsAccountedFor == AtMostOneTurnLost /\ SessionTurnsBounded

\* What the worker is about to be told answers its last counted turn, also
\* when a resume sends it from the checkpoint: no feedback is sent twice for
\* two turns, skipped, or replaced by the task after work was done.
Answers(m, turns) == m = Feedback(turns) \/ (m.kind = "first" /\ turns = 0)

FeedbackIsCurrent ==
  /\ pc \in {"sendFirst", "sendFeedback", "save"} => Answers(msg, used.turns)
  /\ disk.phase = "act" =>
       /\ disk.last = disk.used.turns
       /\ Answers(disk.pending, disk.last)

\* The checkpoint never forgets: consumed budget only grows, and a session
\* that reached the act phase never plans again.
CheckpointAdvances ==
  [][ (disk # NoCheckpoint /\ disk' # disk) =>
        /\ disk'.used.turns >= disk.used.turns
        /\ disk'.used.tokens >= disk.used.tokens
        /\ disk'.used.wall >= disk.used.wall
        /\ disk.phase = "act" => disk'.phase = "act" ]_vars

\* Feedback reaches the worker only while every cap has room left.
NoFeedbackPastACap ==
  [][ (pc = "sendFeedback" /\ pc' = "save") => Exceeded(used) = "within" ]_vars

\* Given a worker that answers or dies, a run ends by itself or waits for its
\* operator: the caps and the watchdog leave no endless session.
RunEnds == (pc # "down") ~> (pc \in {"down", "planAsk", "turnAsk"})

------------------------------------------------------------------------------
(* What the comments and the docs say, and the code does not do *)

\* loop.go: "an interrupt at any point of a run is caught and exits
\* ExitInterrupted": a cancelled run comes to an end.
CancelEndsRun == cancelled ~> (pc = "down")

\* docs/agent.md: "The worker is never sent a turn beyond a cap".
NeverSentBeyondACap ==
  [][ (pc \in {"sendFirst", "sendFeedback"} /\ worker = "idle" /\ worker' = "turn")
        => Exceeded(used) = "within" ]_vars
=============================================================================

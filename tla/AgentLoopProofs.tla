-------------------------- MODULE AgentLoopProofs --------------------------
(***************************************************************************)
(* What holds of a durable agent session for every harness, cap, number of *)
(* launches and number of failed checkpoint writes; and, from `The         *)
(* delegates of a harness' on, what holds of the agents that its delegates *)
(* become, of the packages that an export writes and of the directory that *)
(* a launch assembles, for every graph of delegates, every request and all *)
(* content.                                                                *)
(*                                                                         *)
(* The safety properties of AgentLoop are not inductive: each relates the  *)
(* driver's memory to the checkpoint, and needs to know how far apart the  *)
(* two may be at each stage of the loop.  SessionInv says so.              *)
(***************************************************************************)
EXTENDS AgentLoop, Export, FiniteSetTheorems, SequenceTheorems, WellFoundedInduction, TLAPS

\* Before the first act message: nothing has been counted by this launch.
Planning == {"sendPlan", "planTurn", "planAsk"}
Preparing == {"boot", "sendPlan", "planTurn", "planAsk", "actEntry"}
\* No turn has been counted since the last save that was attempted.
Settled == Preparing \union {"sendFirst", "loopTop", "actTurn"}
\* The turn just counted is being judged or answered.
Judging == {"gate", "judge", "verify", "feedback", "turnAsk"}

NeverLaunched ==
  launches = 0 =>
    pc = "down" /\ exit = "none" /\ disk = NoCheckpoint /\ completed = 0 /\ used.turns = 0
    /\ faults = 0 /\ missed = 0

\* Memory is ahead of the file, by the turn in flight and the missed saves.
MemoryAhead ==
  /\ disk # NoCheckpoint => /\ used.turns >= disk.used.turns
                            /\ used.tokens >= disk.used.tokens
                            /\ used.wall >= disk.used.wall
  /\ used.turns - CheckpointedTurns <= 1 + missed
  /\ pc \in Settled => used.turns - CheckpointedTurns <= missed

\* Every turn the count has forgotten was lost at a relaunch.
Forgotten ==
  launches > 0 => completed - used.turns <= (launches - 1) + (faults - missed)

WithinCap ==
  /\ pc # "down" => used.turns <= opts.maxTurns
  /\ pc = "actTurn" => used.turns < opts.maxTurns

\* The plan phase comes before any turn, and never after the act phase.
PlansFirst ==
  /\ disk.phase = "plan" => disk.used.turns = 0
  /\ pc \in Preparing => used.turns = CheckpointedTurns
  /\ (pc \in Preparing /\ disk.phase = "act") => resumed
  /\ pc \in Planning => disk.phase # "act"

PendingAnswers ==
  /\ disk.phase = "act" => disk.last = disk.used.turns /\ Answers(disk.pending, disk.last)
  /\ pc \in {"sendFirst", "sendFeedback", "save", "turnAsk"} => Answers(msg, used.turns)

\* From the count of a turn to its verdict nobody holds the worktree.
Undisturbed ==
  /\ pc = "down" => worker = "none"
  /\ pc \in Judging => worker # "turn" /\ baseline = fp
  /\ pc \in {"judge", "verify"} => env = NoEnvelope \/ env.turn = used.turns
  /\ pc = "verify" => GatePassed

SessionInv ==
  /\ TypeOK
  /\ NeverLaunched
  /\ MemoryAhead
  /\ Forgotten
  /\ WithinCap
  /\ PlansFirst
  /\ PendingAnswers
  /\ Undisturbed
  /\ ConvergedOnEvidence

------------------------------------------------------------------------------
(* Constants and records *)

LEMMA Constants ==
  /\ DefaultMaxTurns \in Nat /\ DefaultMaxTurns > 0
  /\ MaxTokens \in Nat /\ MaxWall \in Nat
  /\ \A o \in LaunchOptions : o \in [interactive : BOOLEAN, noPlan : BOOLEAN,
                                     maxTurns : Nat, harness : Harnesses \union {NoHarness}]
  /\ Unreadable \notin Baselines
BY LoopAssumption DEF LoopAssumption

\* Recording a reply or a wait keeps the counters in range and only raises them.
LEMMA RecordGrows ==
  ASSUME NEW u \in Uses, NEW k \in Nat, NEW t \in Nat, NEW w \in Nat
  PROVE  /\ Record(u, k, t, w) \in Uses
         /\ Record(u, k, t, w).turns = u.turns + k
         /\ Record(u, k, t, w).tokens >= u.tokens
         /\ Record(u, k, t, w).wall >= u.wall
BY Constants DEF Record, Smaller, Uses

LEMMA WaitedGrows ==
  ASSUME NEW u \in Uses, NEW w \in Nat
  PROVE  /\ Waited(u, w) \in Uses
         /\ Waited(u, w).turns = u.turns
         /\ Waited(u, w).tokens >= u.tokens
         /\ Waited(u, w).wall >= u.wall
BY Constants DEF Waited, Record, Smaller, Uses

LEMMA CheckpointTypes ==
  /\ NoCheckpoint.phase = "none"
  /\ \A c \in Checkpoints :
       /\ c.phase \in {"plan", "act"} /\ c # NoCheckpoint
       /\ c.last \in Nat /\ c.pending \in Messages /\ c.planIter \in Nat /\ c.plan \in Nat
       /\ c.used \in Uses
       /\ c.maxTurns \in Nat /\ c.harness \in Harnesses \union {NoHarness}
BY DEF NoCheckpoint, Checkpoints

\* What a checkpoint holds, field by field.
LEMMA CheckpointFields ==
  ASSUME LaunchType, NEW phase \in {"plan", "act"}, NEW last \in Nat,
         NEW pending \in Messages, NEW i \in Nat, NEW p \in Nat, NEW u \in Uses
  PROVE  LET c == Checkpoint(phase, last, pending, i, p, u)
         IN  /\ c \in Checkpoints
             /\ c.phase = phase /\ c.last = last /\ c.pending = pending /\ c.used = u
BY DEF Checkpoint, Checkpoints, LaunchType

LEMMA MessageTypes ==
  /\ NoMessage \in Messages
  /\ \A n \in Nat : First(n) \in Messages /\ Feedback(n) \in Messages
BY DEF Messages, NoMessage, First, Feedback

LEMMA ExitCodes ==
  \A u : /\ Exceeded(u) \in {"within", "turnCap", "tokenBudget", "wallClock"}
        /\ StopRun(u) \in {"within", "interrupted", "turnCap", "tokenBudget", "wallClock"}
        /\ StopForWall(u) \in {"within", "interrupted", "turnCap", "tokenBudget", "wallClock"}
BY DEF Exceeded, StopRun, StopForWall

------------------------------------------------------------------------------
(* Types *)

Watches == [reply : Responses \union {Nothing}, same : Nat,
            findings : Findings \union {Nothing, NoResult}, still : Nat]

LEMMA VerdictParts ==
  /\ NoEnvelope \in Envs
  /\ FreshWatch \in Watches
  /\ VerdictType => Judged \in Watches /\ \A r \in Responses : Heard(r) \in Watches
<1>1. NoEnvelope \in Envs
  BY DEF NoEnvelope, Envs
<1>2. FreshWatch \in Watches
  BY DEF FreshWatch, Watches
<1>3. ASSUME VerdictType, NEW r \in Responses PROVE Heard(r) \in Watches
  BY <1>3 DEF VerdictType, Watches, Heard
<1>4. ASSUME VerdictType PROVE Judged \in Watches
  BY <1>4 DEF VerdictType, Watches, Judged, NextStill, SeenFindings, Envs
<1> QED BY <1>1, <1>2, <1>3, <1>4

\* What Save may leave in the file and in the fault counters.
LEMMA SaveKeepsTypes ==
  ASSUME DiskType, NEW c \in Checkpoints, Save(c)
  PROVE  DiskType'
BY DEF Save, DiskType

\* stopBeforeSend either lets the send go ahead or ends the run.
LEMMA StopBeforeSendTypes ==
  ASSUME ControlType, LaunchType, CountType, DiskType, NEW u \in Uses, NEW go \in Stages,
         StopBeforeSend(u, go)
  PROVE  ControlType' /\ DiskType'
<1> DEFINE c == Checkpoint("act", u.turns, Feedback(u.turns), planIter, plan, u)
<1>1. c \in Checkpoints
  BY CheckpointFields, MessageTypes DEF CountType, Uses
<1>2. CASE StopRun(u) = "within"
  BY <1>2 DEF StopBeforeSend, Goto, NoSave, ControlType, DiskType
<1>3. CASE StopRun(u) # "within"
  <2>1. Save(c) /\ Exit(StopRun(u))
    BY <1>3 DEF StopBeforeSend
  <2> QED BY <1>1, <1>3, <2>1, SaveKeepsTypes, ExitCodes DEF Exit, ControlType, Stages,
     Exits
<1> QED BY <1>2, <1>3

\* The first act message, and what act entry leaves on disk.
LEMMA FirstMessageType ==
  CountType /\ DiskType => (IF ResumingAct THEN disk.pending ELSE First(plan)) \in Messages
BY CheckpointTypes, MessageTypes DEF CountType, DiskType, ResumingAct

LEMMA ActEntryDisk == ASSUME LaunchType, CountType, DiskType, ActEntry PROVE DiskType'
<1> DEFINE first == IF ResumingAct THEN disk.pending ELSE First(plan)
           c == Checkpoint("act", used.turns, first, planIter, plan, used)
<1>1. c \in Checkpoints
  BY FirstMessageType, CheckpointFields DEF CountType, Uses
<1>2. NoSave \/ Save(c)
  BY DEF ActEntry
<1> QED BY <1>1, <1>2, SaveKeepsTypes DEF NoSave, DiskType

LEMMA InitTypes == Init => TypeOK
<1> SUFFICES ASSUME Init PROVE TypeOK
  OBVIOUS
<1>1. ControlType /\ LaunchType /\ WorktreeType /\ DiskType /\ HistoryType
  BY Constants DEF Init, ControlType, Stages, Exits, LaunchType, WorktreeType, DiskType,
     HistoryType
<1>2. CountType /\ VerdictType
  BY Constants, MessageTypes, VerdictParts DEF Init, CountType, Uses, VerdictType, Watches
<1> QED BY <1>1, <1>2 DEF TypeOK

LEMMA NextTypes == TypeOK /\ [Next]_vars => TypeOK'
<1> SUFFICES ASSUME TypeOK, [Next]_vars PROVE TypeOK'
  OBVIOUS
<1>0. /\ ControlType /\ LaunchType /\ CountType /\ WorktreeType /\ VerdictType
      /\ DiskType /\ HistoryType
  BY DEF TypeOK
<1> USE <1>0
<1>1. CASE \E o \in LaunchOptions : Start(o)
  <2> PICK o \in LaunchOptions : Start(o)
    BY <1>1
  <2>1. ControlType'
    BY DEF Start, NewLaunch, Goto, ControlType, Stages, Exits
  <2>2. LaunchType'
    BY Constants DEF Start, NewLaunch, LaunchType
  <2>3. CountType'
    BY Constants, MessageTypes DEF Start, CountType, Uses
  <2>4. VerdictType'
    BY VerdictParts DEF Start, NewLaunch, VerdictType, Watches
  <2>5. DiskType'
    BY DEF Start, NoSave, DiskType
  <2>6. HistoryType'
    BY DEF Start, NewLaunch, HistoryType
  <2>7. WorktreeType'
    BY DEF WorktreeType, Start, NewLaunch
  <2> QED BY <2>1, <2>2, <2>3, <2>4, <2>5, <2>6, <2>7 DEF TypeOK
<1>2. CASE \E o \in LaunchOptions : Resume(o)
  <2> PICK o \in LaunchOptions : Resume(o)
    BY <1>2
  <2>1. ControlType'
    <3>1. Exceeded(disk.used)' \in {"within", "turnCap", "tokenBudget", "wallClock"}
      BY DEF Exceeded
    <3> QED BY <3>1 DEF Resume, NewLaunch, Goto, Exit, ControlType, Stages, Exits
  <2>2. LaunchType'
    <3>1. resumed' \in BOOLEAN /\ cancelled' \in BOOLEAN
      BY DEF Resume, NewLaunch
    <3>2. opts' \in [interactive : BOOLEAN, noPlan : BOOLEAN, maxTurns : Nat,
                    harness : Harnesses \union {NoHarness}]
      BY Constants, CheckpointTypes DEF DiskType, Resume
    <3> QED BY <3>1, <3>2 DEF LaunchType
  <2>3. CountType'
    BY CheckpointTypes, MessageTypes DEF Resume, CountType, DiskType
  <2>4. VerdictType'
    BY VerdictParts DEF Resume, NewLaunch, VerdictType, Watches
  <2>5. DiskType'
    BY DEF Resume, DiskType
  <2>6. HistoryType'
    BY DEF Resume, NewLaunch, HistoryType
  <2>7. WorktreeType'
    BY DEF WorktreeType, Resume, NewLaunch
  <2> QED BY <2>1, <2>2, <2>3, <2>4, <2>5, <2>6, <2>7 DEF TypeOK
<1>3. CASE StartWorker
  <2>1. ControlType'
    BY <1>3 DEF StartWorker, Goto, ControlType, Stages, Exits
  <2>2. CountType'
    BY <1>3 DEF StartWorker, CountType
  <2>3. DiskType'
    <3>1. Checkpoint("plan", 0, NoMessage, planIter, plan, used) \in Checkpoints
      BY CheckpointFields, MessageTypes DEF CountType
    <3> QED BY <1>3, <3>1, SaveKeepsTypes DEF StartWorker, NoSave, DiskType
  <2>4. LaunchType' /\ WorktreeType' /\ VerdictType' /\ HistoryType'
    BY <1>3 DEF LaunchType, WorktreeType, VerdictType, HistoryType, StartWorker, session
  <2> QED BY <2>1, <2>2, <2>3, <2>4 DEF TypeOK
<1>4. CASE StartFails
  <2>1. ControlType'
    BY <1>4 DEF StartFails, Exit, ControlType, Stages, Exits
  <2>2. LaunchType' /\ CountType' /\ WorktreeType' /\ VerdictType' /\ DiskType' /\ HistoryType'
    BY <1>4 DEF LaunchType, CountType, WorktreeType, VerdictType, DiskType, HistoryType,
       StartFails, session, history
  <2> QED BY <2>1, <2>2 DEF TypeOK
<1>5. CASE SendPlan \/ SendFirst \/ SendFeedback
  <2>1. ControlType'
    BY <1>5 DEF SendPlan, SendFirst, SendFeedback, SendTo, Goto, Exit, ControlType,
       Stages, Exits
  <2>2. LaunchType' /\ CountType' /\ WorktreeType' /\ VerdictType' /\ DiskType' /\ HistoryType'
    BY <1>5 DEF LaunchType, CountType, WorktreeType, VerdictType, DiskType, HistoryType,
       SendPlan, SendFirst, SendFeedback, SendTo, session, history
  <2> QED BY <2>1, <2>2 DEF TypeOK
<1>6. CASE NextFails("planTurn") \/ NextFails("actTurn")
  <2>1. ControlType'
    BY <1>6 DEF NextFails, Exit, ControlType, Stages, Exits
  <2>2. LaunchType' /\ CountType' /\ WorktreeType' /\ VerdictType' /\ DiskType' /\ HistoryType'
    BY <1>6 DEF LaunchType, CountType, WorktreeType, VerdictType, DiskType, HistoryType,
       NextFails, session, history
  <2> QED BY <2>1, <2>2 DEF TypeOK
<1>7. CASE \E t, w \in 0..1 : PlanReply(t, w)
  <2> PICK t \in 0..1, w \in 0..1 : PlanReply(t, w)
    BY <1>7
  <2>1. ControlType'
    BY ExitCodes DEF PlanReply, Goto, Exit, ControlType, Stages, Exits
  <2>2. CountType'
    <3>1. used' \in Uses
      BY RecordGrows DEF PlanReply, CountType
    <3> QED BY <3>1 DEF PlanReply, CountType
  <2>3. LaunchType' /\ WorktreeType' /\ VerdictType' /\ DiskType' /\ HistoryType'
    BY DEF LaunchType, WorktreeType, VerdictType, DiskType, HistoryType, PlanReply,
       session, history
  <2> QED BY <2>1, <2>2, <2>3 DEF TypeOK
<1>8. CASE \E w \in 0..1 : \E a \in {"approve", "refine", "reject", "interrupt"} : PlanAnswer(a, w)
  <2> PICK w \in 0..1, a \in {"approve", "refine", "reject", "interrupt"} : PlanAnswer(a, w)
    BY <1>8
  <2>1. ControlType'
    BY DEF PlanAnswer, Goto, Exit, ControlType, Stages, Exits
  <2>2. CountType'
    <3>1. used' \in Uses
      BY WaitedGrows DEF PlanAnswer, CountType
    <3> QED BY <3>1 DEF PlanAnswer, CountType
  <2>3. LaunchType' /\ WorktreeType' /\ VerdictType' /\ DiskType' /\ HistoryType'
    BY DEF LaunchType, WorktreeType, VerdictType, DiskType, HistoryType, PlanAnswer,
       session, history
  <2> QED BY <2>1, <2>2, <2>3 DEF TypeOK
<1>9. CASE ActEntry
  <2>1. ControlType'
    BY <1>9 DEF ActEntry, Goto, Exit, ControlType, Stages, Exits
  <2>2. CountType'
    BY <1>9, FirstMessageType DEF ActEntry, CountType
  <2>3. WorktreeType'
    BY <1>9 DEF ActEntry, WorktreeType
  <2>4. DiskType'
    BY <1>9, ActEntryDisk
  <2>5. LaunchType' /\ VerdictType' /\ HistoryType'
    BY <1>9 DEF LaunchType, VerdictType, HistoryType, ActEntry, session
  <2> QED BY <2>1, <2>2, <2>3, <2>4, <2>5 DEF TypeOK
<1>10. CASE LoopTop
  <2>1. ControlType'
    BY <1>10, ExitCodes DEF LoopTop, Goto, Exit, ControlType, Stages, Exits
  <2>2. LaunchType' /\ CountType' /\ WorktreeType' /\ VerdictType' /\ DiskType' /\ HistoryType'
    BY <1>10 DEF LaunchType, CountType, WorktreeType, VerdictType, DiskType, HistoryType,
       LoopTop, session, history
  <2> QED BY <2>1, <2>2 DEF TypeOK
<1>11. CASE \E r \in Responses : \E t, w \in 0..1 : TurnReply(r, t, w)
  <2> PICK r \in Responses, t \in 0..1, w \in 0..1 : TurnReply(r, t, w)
    BY <1>11
  <2>1. ControlType'
    BY DEF TurnReply, Goto, Exit, ControlType, Stages, Exits
  <2>2. CountType'
    BY RecordGrows DEF TurnReply, CountType
  <2>3. VerdictType'
    BY VerdictParts DEF TurnReply, VerdictType, Watches
  <2>4. HistoryType'
    BY DEF TurnReply, HistoryType
  <2>5. LaunchType' /\ WorktreeType' /\ DiskType'
    BY DEF LaunchType, WorktreeType, DiskType, TurnReply, session
  <2> QED BY <2>1, <2>2, <2>3, <2>4, <2>5 DEF TypeOK
<1>12. CASE \E w \in 0..1 : \E e \in Envelopes : Gate(e, w)
  <2> PICK w \in 0..1, e \in Envelopes : Gate(e, w)
    BY <1>12
  <2>1. ControlType'
    BY DEF Gate, Goto, Exit, ControlType, Stages, Exits
  <2>2. CountType'
    BY WaitedGrows DEF Gate, CountType
  <2>3. VerdictType'
    <3>1. e \in Envs
      BY DEF Envelopes, Envs, CountType, Uses
    <3> QED BY <3>1 DEF Gate, VerdictType
  <2>4. LaunchType' /\ WorktreeType' /\ DiskType' /\ HistoryType'
    BY DEF LaunchType, WorktreeType, DiskType, HistoryType, Gate, session, history
  <2> QED BY <2>1, <2>2, <2>3, <2>4 DEF TypeOK
<1>13. CASE Judge
  <2>1. ControlType'
    BY <1>13, ExitCodes DEF Judge, Goto, Exit, ControlType, Stages, Exits
  <2>2. LaunchType' /\ CountType' /\ WorktreeType' /\ VerdictType' /\ DiskType' /\ HistoryType'
    BY <1>13 DEF LaunchType, CountType, WorktreeType, VerdictType, DiskType, HistoryType,
       Judge, session, history
  <2> QED BY <2>1, <2>2 DEF TypeOK
<1>14. CASE \E w \in 0..1 : \E v \in {"pass", "fail", "error"} : Verify(v, w)
  <2> PICK w \in 0..1, v \in {"pass", "fail", "error"} : Verify(v, w)
    BY <1>14
  <2>1. ControlType'
    BY DEF Verify, Goto, Exit, ControlType, Stages, Exits
  <2>2. CountType'
    BY WaitedGrows DEF Verify, CountType
  <2>3. LaunchType' /\ WorktreeType' /\ VerdictType' /\ DiskType' /\ HistoryType'
    BY DEF LaunchType, WorktreeType, VerdictType, DiskType, HistoryType, Verify, session,
       history
  <2> QED BY <2>1, <2>2, <2>3 DEF TypeOK
<1>15. CASE NotConverged
  <2>1. ControlType' /\ DiskType'
    <3>1. CASE StopBeforeSend(used, IF opts.interactive THEN "turnAsk" ELSE "sendFeedback")
      BY <3>1, StopBeforeSendTypes DEF Stages, CountType
    <3>2. CASE Exit("stuck") /\ NoSave
      BY <3>2 DEF Exit, NoSave, DiskType, ControlType, Stages, Exits
    <3> QED BY <1>15, <3>1, <3>2 DEF NotConverged
  <2>2. CountType'
    BY <1>15, MessageTypes DEF NotConverged, CountType, Uses
  <2>3. VerdictType'
    BY <1>15, VerdictParts DEF NotConverged, VerdictType, Watches
  <2>4. LaunchType' /\ WorktreeType' /\ HistoryType'
    BY <1>15 DEF LaunchType, WorktreeType, HistoryType, NotConverged, session
  <2> QED BY <2>1, <2>2, <2>3, <2>4 DEF TypeOK
<1>16. CASE \E w \in 0..1 : \E a \in {"approve", "replace", "reject", "interrupt"} : TurnAnswer(a, w)
  <2> PICK w \in 0..1, a \in {"approve", "replace", "reject", "interrupt"} : TurnAnswer(a, w)
    BY <1>16
  <2>1. CountType'
    BY WaitedGrows DEF TurnAnswer, CountType
  <2>2. ControlType' /\ DiskType'
    <3>1. CASE StopBeforeSend(used', "sendFeedback")
      BY <2>1, <3>1, StopBeforeSendTypes DEF Stages, CountType
    <3>2. CASE Exit("interrupted") /\ NoSave
      BY <3>2 DEF Exit, NoSave, DiskType, ControlType, Stages, Exits
    <3> QED BY <3>1, <3>2 DEF TurnAnswer
  <2>3. LaunchType' /\ WorktreeType' /\ VerdictType' /\ HistoryType'
    BY DEF LaunchType, WorktreeType, VerdictType, HistoryType, TurnAnswer, session
  <2> QED BY <2>1, <2>2, <2>3 DEF TypeOK
<1>17. CASE SaveTurn
  <2>1. ControlType'
    BY <1>17 DEF SaveTurn, Goto, ControlType, Stages, Exits
  <2>2. DiskType'
    <3>1. Checkpoint("act", used.turns, msg, planIter, plan, used) \in Checkpoints
      BY CheckpointFields DEF CountType, Uses
    <3> QED BY <1>17, <3>1, SaveKeepsTypes DEF SaveTurn
  <2>3. LaunchType' /\ CountType' /\ WorktreeType' /\ VerdictType' /\ HistoryType'
    BY <1>17 DEF LaunchType, CountType, WorktreeType, VerdictType, HistoryType, SaveTurn,
       session
  <2> QED BY <2>1, <2>2, <2>3 DEF TypeOK
<1>18. CASE Signal
  <2>1. LaunchType'
    BY <1>18 DEF Signal, LaunchType, session
  <2>2. ControlType' /\ CountType' /\ WorktreeType' /\ VerdictType' /\ DiskType' /\ HistoryType'
    BY <1>18 DEF ControlType, CountType, WorktreeType, VerdictType, DiskType, HistoryType,
       Signal, history
  <2> QED BY <2>1, <2>2 DEF TypeOK
<1>19. CASE WorkerDies \/ Crash
  <2>1. ControlType'
    BY <1>19 DEF WorkerDies, Crash, Exit, ControlType, Stages, Exits
  <2>2. LaunchType' /\ CountType' /\ WorktreeType' /\ VerdictType' /\ DiskType' /\ HistoryType'
    BY <1>19 DEF LaunchType, CountType, WorktreeType, VerdictType, DiskType, HistoryType,
       WorkerDies, Crash, session, history
  <2> QED BY <2>1, <2>2 DEF TypeOK
<1>20. CASE \E b \in Baselines \union {Unreadable} : WorkerEditsBaseline(b)
  <2>1. WorktreeType'
    BY <1>20 DEF WorkerEditsBaseline, WorktreeType
  <2>2. ControlType' /\ LaunchType' /\ CountType' /\ VerdictType' /\ DiskType' /\ HistoryType'
    BY <1>20 DEF ControlType, LaunchType, CountType, VerdictType, DiskType, HistoryType,
       WorkerEditsBaseline, session, history
  <2> QED BY <2>1, <2>2 DEF TypeOK
<1>21. CASE UNCHANGED vars
  <2>1. ControlType' /\ LaunchType' /\ CountType' /\ WorktreeType' /\ VerdictType' /\ DiskType' /\ HistoryType'
    BY <1>21 DEF ControlType, LaunchType, CountType, WorktreeType, VerdictType, DiskType,
       HistoryType, vars, loopVars, session, history
  <2> QED BY <2>1 DEF TypeOK
<1> QED BY <1>1, <1>2, <1>3, <1>4, <1>5, <1>6, <1>7, <1>8, <1>9, <1>10, <1>11, <1>12, <1>13,
   <1>14, <1>15, <1>16, <1>17, <1>18, <1>19, <1>20, <1>21
  DEF Next, Launch, LoopStep, WorkerStep, OperatorAnswers, Environment

\* Every variable of the session keeps to the values the code can give it.
THEOREM Typing == Spec => []TypeOK
<1>1. Init => TypeOK
  BY InitTypes
<1>2. TypeOK /\ [Next]_vars => TypeOK'
  BY NextTypes
<1> QED BY <1>1, <1>2, PTL DEF Spec

------------------------------------------------------------------------------
(* What memory and the checkpoint have in common *)

CountInv == NeverLaunched /\ MemoryAhead /\ Forgotten /\ WithinCap /\ PlansFirst

Types == ControlType /\ LaunchType /\ CountType /\ DiskType /\ HistoryType

LEMMA CheckpointedIsCount ==
  ASSUME DiskType
  PROVE  /\ CheckpointedTurns \in Nat
         /\ disk = NoCheckpoint => CheckpointedTurns = 0
         /\ disk # NoCheckpoint => CheckpointedTurns = disk.used.turns
                                  /\ disk.used \in Uses /\ disk.phase \in {"plan", "act"}
BY CheckpointTypes DEF DiskType, CheckpointedTurns, Uses

\* A step that counts no turn and leaves the file alone.
LEMMA QuietStep ==
  ASSUME Types, Types', MemoryAhead, Forgotten,
         UNCHANGED <<disk, missed, faults, completed, launches>>,
         used'.turns = used.turns, used'.tokens >= used.tokens, used'.wall >= used.wall,
         pc' \in Settled => pc \in Settled
  PROVE  MemoryAhead' /\ Forgotten'
<1>1. CheckpointedTurns' = CheckpointedTurns /\ CheckpointedTurns \in Nat
  BY CheckpointedIsCount DEF CheckpointedTurns, Types
<1>2. MemoryAhead'
  BY <1>1, CheckpointedIsCount DEF MemoryAhead, Types, CountType, DiskType, Uses
<1>3. Forgotten'
  BY DEF Forgotten
<1> QED BY <1>2, <1>3

\* A step that attempts a save of what is counted.
LEMMA SavingStep ==
  ASSUME Types, Types', MemoryAhead, Forgotten,
         NEW c \in Checkpoints, Save(c), c.used = used',
         UNCHANGED <<completed, launches>>,
         used'.turns = used.turns, used'.tokens >= used.tokens, used'.wall >= used.wall
  PROVE  MemoryAhead' /\ Forgotten'
<1> USE DEF Types, CountType, DiskType, HistoryType
<1>1. CASE disk' = c /\ missed' = 0 /\ faults' = faults
  <2>1. CheckpointedTurns' = used'.turns
    BY <1>1, CheckpointTypes DEF CheckpointedTurns
  <2>2. MemoryAhead'
    BY <1>1, <2>1 DEF MemoryAhead, Uses
  <2>3. completed' - used'.turns = completed - used.turns
    OBVIOUS
  <2>4. Forgotten'
    BY <1>1, <2>3 DEF Forgotten, Uses
  <2> QED BY <2>2, <2>4
<1>2. CASE disk' = disk /\ missed' = missed + 1 /\ faults' = faults + 1
  <2>1. CheckpointedTurns' = CheckpointedTurns /\ CheckpointedTurns \in Nat
    BY <1>2, CheckpointedIsCount DEF CheckpointedTurns
  <2>2. MemoryAhead'
    BY <1>2, <2>1, CheckpointedIsCount DEF MemoryAhead, Uses
  <2>3. Forgotten'
    BY <1>2 DEF Forgotten, Uses
  <2> QED BY <2>2, <2>3
<1> QED BY <1>1, <1>2 DEF Save

\* stopBeforeSend counts nothing, and saves what is counted when it ends the run.
LEMMA StopBeforeSendStep ==
  ASSUME Types, Types', MemoryAhead, Forgotten, NEW go \in Stages \ Settled,
         StopBeforeSend(used', go), UNCHANGED <<completed, launches>>,
         used'.turns = used.turns, used'.tokens >= used.tokens, used'.wall >= used.wall
  PROVE  MemoryAhead' /\ Forgotten'
<1> DEFINE c == Checkpoint("act", used'.turns, Feedback(used'.turns), planIter, plan, used')
<1>1. c \in Checkpoints /\ c.used = used'
  <2>1. /\ used' \in Uses /\ used'.turns \in Nat /\ planIter \in Nat /\ plan \in Nat
        /\ LaunchType
    BY DEF Types, CountType, Uses
  <2>2. Feedback(used'.turns) \in Messages
    BY <2>1, MessageTypes
  <2> QED BY <2>1, <2>2, CheckpointFields
<1>2. CASE StopRun(used') = "within"
  <2>1. pc' = go /\ UNCHANGED <<disk, faults, missed>>
    BY <1>2 DEF StopBeforeSend, Goto, NoSave
  <2> QED BY <2>1, QuietStep
<1>3. CASE StopRun(used') # "within"
  <2>1. Save(c)
    BY <1>3 DEF StopBeforeSend
  <2> QED BY <1>1, <2>1, SavingStep
<1> QED BY <1>2, <1>3

\* A counted turn may be lost; it is counted at a stage where none was.
LEMMA TurnReplyCounts ==
  ASSUME Types, Types', CountInv, NEW r \in Responses, NEW t \in 0..1, NEW w \in 0..1,
         TurnReply(r, t, w)
  PROVE  MemoryAhead' /\ Forgotten' /\ WithinCap'
<1> USE DEF Types, CountType, DiskType, HistoryType, CountInv
<1>0. used' = Record(used, 1, t, w)
  BY DEF TurnReply
<1>1. used'.turns = used.turns + 1 /\ used'.tokens >= used.tokens /\ used'.wall >= used.wall
  <2>1. used \in Uses /\ 1 \in Nat /\ t \in Nat /\ w \in Nat
    OBVIOUS
  <2> HIDE DEF Types, CountType, DiskType, HistoryType, CountInv
  <2> QED BY <1>0, <2>1, RecordGrows
<1>a. /\ UNCHANGED <<disk, missed, faults, launches>> /\ completed' = completed + 1
      /\ pc = "actTurn" /\ pc' \notin Settled
  BY DEF TurnReply, Exit, Goto, Settled, Preparing
<1>2. CheckpointedTurns' = CheckpointedTurns /\ CheckpointedTurns \in Nat
  BY <1>a, CheckpointedIsCount DEF CheckpointedTurns
<1>3. MemoryAhead'
  BY <1>1, <1>a, <1>2, CheckpointedIsCount DEF MemoryAhead, Settled, Uses
<1>4. Forgotten'
  BY <1>1, <1>a DEF Forgotten, Uses
<1>5. WithinCap'
  BY <1>1, <1>a DEF WithinCap, TurnReply, Uses, LaunchType, session, Exit, Goto
<1> QED BY <1>3, <1>4, <1>5

\* A launch starts from nothing, or from what the file holds.
LEMMA StartCounts ==
  ASSUME Types, Types', CountInv, NEW o \in LaunchOptions, Start(o)
  PROVE  CountInv'
<1> USE DEF Types, CountType, DiskType, HistoryType
<1>1. launches = 0
  BY DEF Start
<1>2. /\ disk' = NoCheckpoint /\ completed' = 0 /\ missed' = 0 /\ faults' = 0
  BY <1>1 DEF Start, NewLaunch, NoSave, CountInv, NeverLaunched
<1>3. /\ launches' = 1 /\ pc' = "boot"
      /\ used' = [turns |-> 0, tokens |-> 0, wall |-> 0]
  BY <1>1 DEF Start, NewLaunch, Goto
<1>4. used'.turns = 0 /\ CheckpointedTurns' = 0
  BY <1>2, <1>3 DEF CheckpointedTurns
<1>5. NeverLaunched' /\ MemoryAhead' /\ Forgotten'
  BY <1>2, <1>3, <1>4 DEF NeverLaunched, MemoryAhead, Forgotten
<1>6. WithinCap'
  BY <1>3, <1>4 DEF WithinCap, LaunchType
<1>7. PlansFirst'
  BY <1>2, <1>3, <1>4, CheckpointTypes DEF PlansFirst, Preparing
<1> QED BY <1>5, <1>6, <1>7 DEF CountInv

LEMMA ResumeCounts ==
  ASSUME Types, Types', CountInv, NEW o \in LaunchOptions, Resume(o)
  PROVE  CountInv'
<1> USE DEF Types, CountType, DiskType, HistoryType
<1>1. /\ launches > 0 /\ launches' = launches + 1 /\ completed' = completed
      /\ disk' = disk /\ faults' = faults /\ resumed' = TRUE
  BY DEF Resume, NewLaunch
<1>2. CheckpointedTurns' = CheckpointedTurns /\ CheckpointedTurns \in Nat
  BY <1>1, CheckpointedIsCount DEF CheckpointedTurns
<1>3. NeverLaunched'
  BY <1>1 DEF NeverLaunched
<1>4. disk.phase = "plan" => disk.used.turns = 0
  BY DEF CountInv, PlansFirst
<1>5. CASE disk = NoCheckpoint
  <2>1. pc' = "down" /\ used' = used /\ missed' = missed
    BY <1>5 DEF Resume, Exit
  <2>2. MemoryAhead'
    BY <1>1, <1>2, <2>1 DEF MemoryAhead, CountInv, Settled, Preparing
  <2>3. Forgotten'
    BY <1>1, <2>1 DEF Forgotten, CountInv, Uses
  <2>4. WithinCap' /\ PlansFirst'
    BY <1>1, <1>4, <2>1 DEF WithinCap, PlansFirst, Preparing, Planning
  <2> QED BY <1>3, <2>2, <2>3, <2>4 DEF CountInv
<1>6. CASE disk # NoCheckpoint
  <2>1. used' = disk.used /\ missed' = 0 /\ CheckpointedTurns = disk.used.turns /\ disk.used \in Uses
    BY <1>6, CheckpointedIsCount DEF Resume
  <2>2. MemoryAhead'
    BY <1>1, <1>2, <2>1 DEF MemoryAhead, Uses
  <2>3. used.turns - CheckpointedTurns <= 1 + missed
    BY DEF CountInv, MemoryAhead
  <2>4. Forgotten'
    BY <1>1, <2>1, <2>3 DEF Forgotten, CountInv, Uses
  <2>5. pc' = "down" \/ (pc' = "boot" /\ Exceeded(disk.used)' = "within")
    BY <1>6 DEF Resume, Goto, Exit
  <2>6. WithinCap'
    BY <1>1, <2>1, <2>5 DEF WithinCap, Exceeded, Uses, LaunchType
  <2>7. PlansFirst'
    BY <1>1, <1>2, <1>4, <2>1, <2>5 DEF PlansFirst, Preparing, Planning
  <2> QED BY <1>3, <2>2, <2>4, <2>6, <2>7 DEF CountInv
<1> QED BY <1>5, <1>6

\* The other steps count nothing: what they may change is the stage, what was
\* consumed short of a turn, and the file.
LEMMA StageStep ==
  ASSUME Types, Types', CountInv, pc # "down",
         UNCHANGED <<completed, launches, opts, resumed>>,
         used'.turns = used.turns,
         MemoryAhead', Forgotten',
         pc' = "actTurn" => pc = "actTurn" \/ used.turns < opts.maxTurns,
         pc' \in Preparing =>
           \/ pc \in Preparing /\ disk'.phase # "act" /\ CheckpointedTurns' = used.turns
           \/ pc' = pc /\ disk' = disk
           \/ pc = "boot" /\ pc' = "actEntry" /\ disk' = disk,
         disk'.phase = "plan" => disk'.used.turns = 0
  PROVE  CountInv'
<1> USE DEF CountInv
<1>1. NeverLaunched'
  BY DEF NeverLaunched
<1>2. WithinCap'
  BY DEF WithinCap
<1>3. PlansFirst'
  BY DEF PlansFirst, Preparing, Planning, CheckpointedTurns
<1> QED BY <1>1, <1>2, <1>3

\* A step that does not touch the file, and only moves the loop on.
LEMMA QuietStage ==
  ASSUME Types, Types', CountInv, pc # "down",
         UNCHANGED <<completed, launches, opts, resumed, disk, missed, faults>>,
         used'.turns = used.turns, used'.tokens >= used.tokens, used'.wall >= used.wall,
         pc' = "actTurn" => pc = "actTurn" \/ used.turns < opts.maxTurns,
         pc' \in Settled => pc \in Settled,
         pc' \in Preparing =>
           \/ pc \in Planning
           \/ pc' = pc
           \/ pc = "boot" /\ pc' = "actEntry"
  PROVE  CountInv'
<1>1. MemoryAhead' /\ Forgotten'
  BY QuietStep DEF CountInv
<1>2. disk'.phase = "plan" => disk'.used.turns = 0
  BY DEF CountInv, PlansFirst
<1>3. (pc' \in Preparing /\ pc \in Planning) =>
         disk'.phase # "act" /\ CheckpointedTurns' = used.turns
  BY DEF CountInv, PlansFirst, Planning, Preparing, CheckpointedTurns
<1> QED BY <1>1, <1>2, <1>3, StageStep DEF Planning, Preparing

\* The same for a step that leaves the counters alone as well.
LEMMA IdleStage ==
  ASSUME Types, Types', CountInv, pc # "down",
         UNCHANGED <<completed, launches, opts, resumed, disk, missed, faults, used>>,
         pc' = "actTurn" => pc = "actTurn" \/ used.turns < opts.maxTurns,
         pc' \in Settled => pc \in Settled,
         pc' \in Preparing =>
           \/ pc \in Planning
           \/ pc' = pc
           \/ pc = "boot" /\ pc' = "actEntry"
  PROVE  CountInv'
<1>1. used'.turns = used.turns /\ used'.tokens >= used.tokens /\ used'.wall >= used.wall
  BY DEF Types, CountType, Uses
<1> QED BY <1>1, QuietStage

LEMMA StartWorkerCounts ==
  ASSUME Types, Types', CountInv, StartWorker
  PROVE  CountInv'
<1>1. UNCHANGED <<completed, launches, opts, resumed, used>> /\ pc = "boot"
  BY DEF StartWorker, session
<1>2. CASE ~RunPlan
  <2>1. pc' = "actEntry" /\ UNCHANGED <<disk, missed, faults>>
    BY <1>2 DEF StartWorker, Goto, NoSave
  <2>2. /\ pc # "down" /\ pc' # "actTurn" /\ pc \in Settled
        /\ pc = "boot" /\ pc' = "actEntry"
    BY <1>1, <2>1 DEF Preparing, Settled
  <2> QED BY <1>1, <2>1, <2>2, IdleStage
<1>3. CASE RunPlan
  <2> DEFINE c == Checkpoint("plan", 0, NoMessage, planIter, plan, used)
  <2>1. pc' = "sendPlan" /\ Save(c)
    BY <1>3 DEF StartWorker, Goto
  <2>2. c \in Checkpoints /\ c.used = used /\ c.phase = "plan"
    <3>1. /\ LaunchType /\ used \in Uses /\ planIter \in Nat /\ plan \in Nat
          /\ 0 \in Nat /\ "plan" \in {"plan", "act"}
      BY DEF Types, CountType
    <3> QED BY <3>1, MessageTypes, CheckpointFields
  <2>3. used \in Uses
    BY DEF Types, CountType
  <2>4. used'.turns = used.turns /\ used'.tokens >= used.tokens /\ used'.wall >= used.wall
    BY <1>1, <2>3 DEF Uses
  <2>5. MemoryAhead' /\ Forgotten'
    <3>1. c.used = used'
      BY <1>1, <2>2
    <3> QED BY <1>1, <2>1, <2>2, <2>4, <3>1, SavingStep DEF CountInv
  <2>6. disk.phase # "act" /\ used.turns = CheckpointedTurns /\ used.turns = 0
    <3>1. disk.phase # "act"
      <4>1. ~(resumed /\ disk.phase = "act")
        BY <1>3 DEF RunPlan, ResumingAct
      <4>2. pc \in Preparing
        BY <1>1 DEF Preparing
      <4>3. disk.phase = "act" => resumed
        BY <4>2 DEF CountInv, PlansFirst
      <4> QED BY <4>1, <4>3
    <3>2. used.turns = CheckpointedTurns
      BY <1>1 DEF CountInv, PlansFirst, Preparing
    <3>3. disk = NoCheckpoint \/ disk.phase = "plan"
      BY <3>1, CheckpointTypes DEF Types, DiskType
    <3>4. CheckpointedTurns = 0
      BY <3>3 DEF CountInv, PlansFirst, Planning, Preparing, CheckpointedTurns
    <3> QED BY <3>1, <3>2, <3>4
  <2>7. disk'.phase # "act" /\ CheckpointedTurns' = used.turns
    <3>1. CASE disk' = c
      BY <2>2, <3>1, CheckpointTypes DEF CheckpointedTurns
    <3>2. CASE disk' = disk
      BY <2>6, <3>2 DEF CheckpointedTurns
    <3> QED BY <2>1, <3>1, <3>2 DEF Save
  <2>8. disk'.phase = "plan" => disk'.used.turns = 0
    <3>1. CASE disk' = c
      BY <2>2, <2>6, <3>1
    <3>2. CASE disk' = disk
      BY <3>2 DEF CountInv, PlansFirst
    <3> QED BY <2>1, <3>1, <3>2 DEF Save
  <2>9. pc # "down" /\ pc' # "actTurn" /\ pc \in Preparing
    BY <1>1, <2>1 DEF Preparing
  <2>10. UNCHANGED <<completed, launches, opts, resumed>>
    BY <1>1
  <2>11. used'.turns = used.turns
    BY <2>4
  <2> HIDE DEF c
  <2> QED BY <2>5, <2>7, <2>8, <2>9, <2>10, <2>11, StageStep, SMT
<1> QED BY <1>2, <1>3

\* A step that attempts to save the act phase.
LEMMA SavingStage ==
  ASSUME Types, Types', CountInv, pc # "down", pc' \notin Preparing, pc' # "actTurn",
         UNCHANGED <<completed, launches, opts, resumed>>,
         used'.turns = used.turns, used'.tokens >= used.tokens, used'.wall >= used.wall,
         NEW c \in Checkpoints, Save(c), c.used = used', c.phase = "act"
  PROVE  CountInv'
<1>1. MemoryAhead' /\ Forgotten'
  BY SavingStep DEF CountInv
<1>2. disk'.phase = "plan" => disk'.used.turns = 0
  BY DEF Save, CountInv, PlansFirst
<1> QED BY <1>1, <1>2, StageStep

LEMMA StopBeforeSendStage ==
  ASSUME Types, Types', CountInv, pc # "down",
         NEW go \in {"turnAsk", "sendFeedback"}, StopBeforeSend(used', go),
         UNCHANGED <<completed, launches, opts, resumed>>,
         used'.turns = used.turns, used'.tokens >= used.tokens, used'.wall >= used.wall
  PROVE  CountInv'
<1>1. go \in Stages \ Settled
  BY DEF Stages, Settled, Preparing
<1>2. MemoryAhead' /\ Forgotten'
  BY <1>1, StopBeforeSendStep DEF CountInv
<1>3. pc' \in {go, "down"}
  BY DEF StopBeforeSend, Goto, Exit
<1>4. disk' = disk \/ disk'.phase = "act"
  BY DEF StopBeforeSend, NoSave, Save, Checkpoint
<1>5. disk'.phase = "plan" => disk'.used.turns = 0
  BY <1>4 DEF CountInv, PlansFirst
<1> QED BY <1>2, <1>3, <1>5, StageStep DEF Preparing

LEMMA StutterCounts ==
  ASSUME CountInv,
         UNCHANGED <<pc, exit, completed, launches, opts, resumed, disk, missed, faults, used>>
  PROVE  CountInv'
BY DEF CountInv, NeverLaunched, MemoryAhead, Forgotten, WithinCap, PlansFirst, CheckpointedTurns

LEMMA CountNext ==
  ASSUME TypeOK, TypeOK', CountInv, [Next]_vars
  PROVE  CountInv'
<1>0. Types /\ Types'
  BY DEF TypeOK, Types
<1> USE <1>0
<1>1. CASE \E o \in LaunchOptions : Start(o)
  BY <1>1, StartCounts
<1>2. CASE \E o \in LaunchOptions : Resume(o)
  BY <1>2, ResumeCounts
<1>3. CASE StartWorker
  BY <1>3, StartWorkerCounts
<1>4. CASE StartFails
  <2>1. /\ pc # "down" /\ UNCHANGED <<completed, launches, opts, resumed, disk, missed, faults, used>>
        /\ pc' = "actTurn" => pc = "actTurn" \/ used.turns < opts.maxTurns
        /\ pc' \in Settled => pc \in Settled
        /\ pc' \in Preparing => pc \in Planning \/ pc' = pc
    BY <1>4 DEF StartFails, Exit, Settled, Preparing, Planning, session, history
  <2> QED BY <2>1, IdleStage
<1>5. CASE SendPlan \/ SendFirst \/ SendFeedback
  <2>1. /\ pc # "down" /\ UNCHANGED <<completed, launches, opts, resumed, disk, missed, faults, used>>
        /\ pc' = "actTurn" => pc = "actTurn" \/ used.turns < opts.maxTurns
        /\ pc' \in Settled => pc \in Settled
        /\ pc' \in Preparing => pc \in Planning \/ pc' = pc
    BY <1>5 DEF SendPlan, SendFirst, SendFeedback, SendTo, Goto, Exit, Settled, Preparing, Planning, session, history
  <2> QED BY <2>1, IdleStage
<1>6. CASE NextFails("planTurn") \/ NextFails("actTurn")
  <2>1. /\ pc # "down" /\ UNCHANGED <<completed, launches, opts, resumed, disk, missed, faults, used>>
        /\ pc' = "actTurn" => pc = "actTurn" \/ used.turns < opts.maxTurns
        /\ pc' \in Settled => pc \in Settled
        /\ pc' \in Preparing => pc \in Planning \/ pc' = pc
    BY <1>6 DEF NextFails, Exit, Settled, Preparing, Planning, session, history
  <2> QED BY <2>1, IdleStage
<1>7. CASE \E t, w \in 0..1 : PlanReply(t, w)
  <2> PICK t \in 0..1, w \in 0..1 : PlanReply(t, w)
    BY <1>7
  <2>1. used'.turns = used.turns /\ used'.tokens >= used.tokens /\ used'.wall >= used.wall
    <3>1. used' = Record(used, 0, t, w)
      BY DEF PlanReply
    <3>2. used \in Uses /\ 0 \in Nat /\ t \in Nat /\ w \in Nat
      BY DEF Types, CountType
    <3>3. used'.turns = used.turns + 0 /\ used'.tokens >= used.tokens /\ used'.wall >= used.wall
      BY <3>1, <3>2, RecordGrows
    <3> QED BY <3>2, <3>3 DEF Uses
  <2>2. /\ pc # "down" /\ UNCHANGED <<completed, launches, opts, resumed, disk, missed, faults>>
        /\ pc' # "actTurn"
        /\ pc' \in Settled => pc \in Settled
        /\ pc \in Planning
    BY DEF PlanReply, Goto, Exit, Settled, Preparing, Planning, session, history
  <2> QED BY <2>1, <2>2, QuietStage
<1>8. CASE \E w \in 0..1 : \E a \in {"approve", "refine", "reject", "interrupt"} : PlanAnswer(a, w)
  <2> PICK w \in 0..1, a \in {"approve", "refine", "reject", "interrupt"} : PlanAnswer(a, w)
    BY <1>8
  <2>1. used'.turns = used.turns /\ used'.tokens >= used.tokens /\ used'.wall >= used.wall
    <3>1. used' = Waited(used, w)
      BY DEF PlanAnswer
    <3>2. used \in Uses /\ w \in Nat
      BY DEF Types, CountType
    <3> QED BY <3>1, <3>2, WaitedGrows
  <2>2. /\ pc # "down" /\ UNCHANGED <<completed, launches, opts, resumed, disk, missed, faults>>
        /\ pc' # "actTurn"
        /\ pc' \in Settled => pc \in Settled
        /\ pc \in Planning
    BY DEF PlanAnswer, Goto, Exit, Settled, Preparing, Planning, session, history
  <2> QED BY <2>1, <2>2, QuietStage
<1>9. CASE ActEntry
  <2> DEFINE first == IF ResumingAct THEN disk.pending ELSE First(plan)
             c == Checkpoint("act", used.turns, first, planIter, plan, used)
  <2>1. /\ UNCHANGED <<completed, launches, opts, resumed, used>>
        /\ pc = "actEntry" /\ pc' \in {"sendFirst", "down"}
    BY <1>9 DEF ActEntry, Goto, Exit, session
  <2>2. used \in Uses /\ used.turns \in Nat
    BY DEF Types, CountType, Uses
  <2>3. used'.turns = used.turns /\ used'.tokens >= used.tokens /\ used'.wall >= used.wall
    BY <2>1, <2>2 DEF Uses
  <2>4. /\ pc # "down" /\ pc' # "actTurn" /\ pc' \notin Preparing /\ pc \in Settled
    BY <2>1 DEF Preparing, Settled
  <2>5. CASE ResumingAct
    <3>1. UNCHANGED <<disk, missed, faults>>
      BY <1>9, <2>5 DEF ActEntry, NoSave
    <3> QED BY <2>1, <2>4, <3>1, IdleStage
  <2>6. CASE ~ResumingAct
    <3>1. Save(c)
      BY <1>9, <2>6 DEF ActEntry
    <3>2. c \in Checkpoints /\ c.used = used /\ c.phase = "act"
      <4>1. /\ LaunchType /\ first \in Messages /\ planIter \in Nat /\ plan \in Nat
            /\ "act" \in {"plan", "act"}
        BY FirstMessageType DEF Types, CountType
      <4> HIDE DEF first
      <4> QED BY <2>2, <4>1, CheckpointFields
    <3>3. c.used = used'
      BY <2>1, <3>2
    <3> HIDE DEF c
    <3> QED BY <2>1, <2>3, <2>4, <3>1, <3>2, <3>3, SavingStage
  <2> QED BY <2>5, <2>6
<1>10. CASE LoopTop
  <2>1. /\ pc = "loopTop" /\ UNCHANGED <<completed, launches, opts, resumed, disk, missed, faults, used>>
        /\ pc' \in {"down", "actTurn"}
        /\ pc' = "actTurn" => StopRun(used) = "within"
    BY <1>10 DEF LoopTop, Goto, Exit, session, history
  <2>2. StopRun(used) = "within" => used.turns < opts.maxTurns
    BY DEF StopRun, Exceeded, Types, CountType, LaunchType, Uses
  <2>3. pc # "down" /\ pc \in Settled /\ pc' \notin Preparing
    BY <2>1 DEF Settled, Preparing
  <2> QED BY <2>1, <2>2, <2>3, IdleStage
<1>11. CASE \E r \in Responses : \E t, w \in 0..1 : TurnReply(r, t, w)
  <2> PICK r \in Responses, t \in 0..1, w \in 0..1 : TurnReply(r, t, w)
    BY <1>11
  <2>1. MemoryAhead' /\ Forgotten' /\ WithinCap'
    BY TurnReplyCounts
  <2>2. /\ disk' = disk /\ launches' = launches
        /\ pc = "actTurn" /\ pc' \in {"gate", "judge", "down"}
    BY DEF TurnReply, Goto, Exit
  <2>3. NeverLaunched' /\ PlansFirst'
    BY <2>2 DEF CountInv, NeverLaunched, PlansFirst, Preparing, Planning
  <2> QED BY <2>1, <2>3 DEF CountInv
<1>12. CASE \E w \in 0..1 : \E e \in Envelopes : Gate(e, w)
  <2> PICK w \in 0..1, e \in Envelopes : Gate(e, w)
    BY <1>12
  <2>1. used'.turns = used.turns /\ used'.tokens >= used.tokens /\ used'.wall >= used.wall
    <3>1. used' = Waited(used, w)
      BY DEF Gate
    <3>2. used \in Uses /\ w \in Nat
      BY DEF Types, CountType
    <3> QED BY <3>1, <3>2, WaitedGrows
  <2>2. /\ pc # "down" /\ UNCHANGED <<completed, launches, opts, resumed, disk, missed, faults>>
        /\ pc' # "actTurn"
        /\ pc' \in Settled => pc \in Settled
        /\ pc' \notin Preparing
    BY DEF Gate, Goto, Exit, Settled, Preparing, Planning, session, history
  <2> QED BY <2>1, <2>2, QuietStage
<1>13. CASE Judge
  <2>1. /\ pc # "down" /\ UNCHANGED <<completed, launches, opts, resumed, disk, missed, faults, used>>
        /\ pc' = "actTurn" => pc = "actTurn" \/ used.turns < opts.maxTurns
        /\ pc' \in Settled => pc \in Settled
        /\ pc' \in Preparing => pc \in Planning \/ pc' = pc
    BY <1>13 DEF Judge, Goto, Exit, Settled, Preparing, Planning, session, history
  <2> QED BY <2>1, IdleStage
<1>14. CASE \E w \in 0..1 : \E v \in {"pass", "fail", "error"} : Verify(v, w)
  <2> PICK w \in 0..1, v \in {"pass", "fail", "error"} : Verify(v, w)
    BY <1>14
  <2>1. used'.turns = used.turns /\ used'.tokens >= used.tokens /\ used'.wall >= used.wall
    <3>1. used' = Waited(used, w)
      BY DEF Verify
    <3>2. used \in Uses /\ w \in Nat
      BY DEF Types, CountType
    <3> QED BY <3>1, <3>2, WaitedGrows
  <2>2. /\ pc # "down" /\ UNCHANGED <<completed, launches, opts, resumed, disk, missed, faults>>
        /\ pc' # "actTurn"
        /\ pc' \in Settled => pc \in Settled
        /\ pc' \notin Preparing
    BY DEF Verify, Goto, Exit, Settled, Preparing, Planning, session, history
  <2> QED BY <2>1, <2>2, QuietStage
<1>15. CASE NotConverged
  <2>1. UNCHANGED <<completed, launches, opts, resumed, used>> /\ pc = "feedback"
    BY <1>15 DEF NotConverged, session
  <2>2. used'.turns = used.turns /\ used'.tokens >= used.tokens /\ used'.wall >= used.wall
    BY <2>1 DEF Types, CountType, Uses
  <2>3. CASE Exit("stuck") /\ NoSave
    <3>1. pc' = "down" /\ UNCHANGED <<disk, missed, faults>>
      BY <2>3 DEF Exit, NoSave
    <3>2. pc' \notin Settled /\ pc' \notin Preparing /\ pc # "down" /\ pc' # "actTurn"
      BY <2>1, <3>1 DEF Settled, Preparing
    <3> QED BY <2>1, <3>1, <3>2, IdleStage
  <2>4. CASE StopBeforeSend(used, IF opts.interactive THEN "turnAsk" ELSE "sendFeedback")
    <3>1. StopBeforeSend(used', IF opts.interactive THEN "turnAsk" ELSE "sendFeedback")
      BY <2>1, <2>4
    <3>2. (IF opts.interactive THEN "turnAsk" ELSE "sendFeedback") \in {"turnAsk", "sendFeedback"}
      OBVIOUS
    <3> QED BY <2>1, <2>2, <3>1, <3>2, StopBeforeSendStage
  <2> QED BY <1>15, <2>3, <2>4 DEF NotConverged
<1>16. CASE \E w \in 0..1 : \E a \in {"approve", "replace", "reject", "interrupt"} : TurnAnswer(a, w)
  <2> PICK w \in 0..1, a \in {"approve", "replace", "reject", "interrupt"} : TurnAnswer(a, w)
    BY <1>16
  <2>1. used'.turns = used.turns /\ used'.tokens >= used.tokens /\ used'.wall >= used.wall
    <3>1. used' = Waited(used, w)
      BY DEF TurnAnswer
    <3>2. used \in Uses /\ w \in Nat
      BY DEF Types, CountType
    <3> QED BY <3>1, <3>2, WaitedGrows
  <2>2. UNCHANGED <<completed, launches, opts, resumed>> /\ pc = "turnAsk"
    BY DEF TurnAnswer, session
  <2>3. CASE Exit("interrupted") /\ NoSave
    <3>1. pc' = "down" /\ UNCHANGED <<disk, missed, faults>>
      BY <2>3 DEF Exit, NoSave
    <3>2. pc' \notin Settled /\ pc' \notin Preparing /\ pc # "down" /\ pc' # "actTurn"
      BY <2>2, <3>1 DEF Settled, Preparing
    <3> QED BY <2>1, <2>2, <3>1, <3>2, QuietStage
  <2>4. CASE StopBeforeSend(used', "sendFeedback")
    BY <2>1, <2>2, <2>4, StopBeforeSendStage
  <2> QED BY <2>3, <2>4 DEF TurnAnswer
<1>17. CASE SaveTurn
  <2> DEFINE c == Checkpoint("act", used.turns, msg, planIter, plan, used)
  <2>1. /\ UNCHANGED <<completed, launches, opts, resumed, used>>
        /\ pc = "save" /\ pc' = "loopTop" /\ Save(c)
    BY <1>17 DEF SaveTurn, Goto, session
  <2>2. used \in Uses /\ used.turns \in Nat /\ msg \in Messages /\ LaunchType
        /\ planIter \in Nat /\ plan \in Nat /\ "act" \in {"plan", "act"}
    BY DEF Types, CountType, Uses
  <2>3. c \in Checkpoints /\ c.used = used /\ c.phase = "act"
    BY <2>2, CheckpointFields
  <2> HIDE DEF c
  <2>4. used'.turns = used.turns /\ used'.tokens >= used.tokens /\ used'.wall >= used.wall
    BY <2>1, <2>2 DEF Uses
  <2>5. c.used = used' /\ pc # "down" /\ pc' \notin Preparing /\ pc' # "actTurn"
    BY <2>1, <2>3 DEF Preparing
  <2> QED BY <2>1, <2>3, <2>4, <2>5, SavingStage
<1>18. CASE Signal \/ Crash
  <2>1. /\ pc # "down" /\ UNCHANGED <<completed, launches, opts, resumed, disk, missed, faults, used>>
        /\ pc' = "actTurn" => pc = "actTurn" \/ used.turns < opts.maxTurns
        /\ pc' \in Settled => pc \in Settled
        /\ pc' \in Preparing => pc \in Planning \/ pc' = pc
    BY <1>18 DEF Signal, Crash, Running, Exit, Settled, Preparing, Planning, session, history
  <2> QED BY <2>1, IdleStage
<1>19. CASE WorkerDies \/ \E b \in Baselines \union {Unreadable} : WorkerEditsBaseline(b)
  <2>1. /\ UNCHANGED <<pc, exit, completed, launches, opts, resumed, disk, missed, faults, used>>
    BY <1>19 DEF WorkerDies, WorkerEditsBaseline, session, history
  <2> QED BY <2>1, StutterCounts
<1>20. CASE UNCHANGED vars
  BY <1>20, StutterCounts DEF vars, loopVars, history
<1> QED BY <1>1, <1>2, <1>3, <1>4, <1>5, <1>6, <1>7, <1>8, <1>9, <1>10, <1>11, <1>12, <1>13,
  <1>14, <1>15, <1>16, <1>17, <1>18, <1>19, <1>20
  DEF Next, Launch, LoopStep, WorkerStep, OperatorAnswers, Environment

------------------------------------------------------------------------------
(* What the worker is about to be told *)

Telling == {"sendFirst", "sendFeedback", "save", "turnAsk"}
DiskAnswers ==
  disk.phase = "act" => disk.last = disk.used.turns /\ Answers(disk.pending, disk.last)
MsgAnswers == pc \in Telling => Answers(msg, used.turns)

LEMMA AnswerParts == PendingAnswers <=> DiskAnswers /\ MsgAnswers
BY DEF PendingAnswers, DiskAnswers, MsgAnswers, Telling

LEMMA FeedbackAnswers ==
  ASSUME NEW n
  PROVE  Answers(Feedback(n), n)
BY DEF Answers

\* A saved act-phase checkpoint answers the turn it counts.
LEMMA SavedAnswers ==
  ASSUME DiskAnswers, NEW c, Save(c),
         c.phase = "act" => c.last = c.used.turns /\ Answers(c.pending, c.last)
  PROVE  DiskAnswers'
<1>1. disk' = c \/ disk' = disk
  BY DEF Save
<1>2. CASE disk' = c
  BY <1>2 DEF DiskAnswers, Answers, Feedback
<1>3. CASE disk' = disk
  BY <1>3 DEF DiskAnswers, Answers, Feedback
<1> QED BY <1>1, <1>2, <1>3

\* A step that tells nothing new and leaves the file alone.
LEMMA QuietAnswers ==
  ASSUME PendingAnswers, disk' = disk,
         pc' \in Telling => pc \in Telling /\ msg' = msg /\ used'.turns = used.turns
  PROVE  PendingAnswers'
<1>1. DiskAnswers' /\ MsgAnswers'
  BY AnswerParts DEF DiskAnswers, MsgAnswers, Answers, Feedback
<1> QED BY <1>1 DEF PendingAnswers, DiskAnswers, MsgAnswers, Telling

\* Feedback that is not sent is what the checkpoint keeps.
LEMMA StopBeforeSendAnswers ==
  ASSUME DiskAnswers, NEW u, NEW go, StopBeforeSend(u, go)
  PROVE  DiskAnswers'
<1> DEFINE c == Checkpoint("act", u.turns, Feedback(u.turns), planIter, plan, u)
<1>1. CASE Save(c)
  <2>1. c.phase = "act" /\ c.last = u.turns /\ c.used = u /\ c.pending = Feedback(u.turns)
    BY DEF Checkpoint
  <2>2. c.last = c.used.turns /\ Answers(c.pending, c.last)
    BY <2>1, FeedbackAnswers
  <2> HIDE DEF c
  <2> QED BY <1>1, <2>2, SavedAnswers
<1>2. CASE NoSave
  BY <1>2 DEF NoSave, DiskAnswers, Answers, Feedback
<1> QED BY <1>1, <1>2 DEF StopBeforeSend

\* What act entry tells the worker: the task if nothing was done, else what
\* the checkpoint kept.
LEMMA ActEntryAnswers ==
  ASSUME Types, PlansFirst, PendingAnswers, pc = "actEntry"
  PROVE  Answers(IF ResumingAct THEN disk.pending ELSE First(plan), used.turns)
<1>1. used.turns = CheckpointedTurns /\ (disk.phase = "act" => resumed)
  BY DEF PlansFirst, Preparing
<1>2. CASE ResumingAct
  <2>1. disk # NoCheckpoint /\ disk.phase = "act"
    BY <1>2, CheckpointTypes DEF ResumingAct
  <2>2. disk.last = disk.used.turns /\ Answers(disk.pending, disk.last)
    BY <2>1 DEF PendingAnswers
  <2>3. used.turns = disk.last
    BY <1>1, <2>1, <2>2 DEF CheckpointedTurns
  <2> QED BY <1>2, <2>2, <2>3
<1>3. CASE ~ResumingAct
  <2>1. disk.phase # "act"
    BY <1>1, <1>3 DEF ResumingAct
  <2>2. disk = NoCheckpoint \/ disk.phase = "plan"
    BY <2>1, CheckpointTypes DEF Types, DiskType
  <2>3. used.turns = 0
    BY <1>1, <2>2 DEF PlansFirst, CheckpointedTurns
  <2>4. Answers(First(plan), 0)
    BY DEF Answers, First
  <2> QED BY <1>3, <2>3, <2>4
<1> QED BY <1>2, <1>3

LEMMA PendingNext ==
  ASSUME TypeOK, CountInv, PendingAnswers, [Next]_vars
  PROVE  PendingAnswers'
<1>0. Types /\ PlansFirst /\ DiskAnswers /\ MsgAnswers
  BY AnswerParts DEF TypeOK, Types, CountInv
<1>1. CASE Launch
  <2>1. disk' = disk /\ pc' \in {"boot", "down"}
    BY <1>0, <1>1 DEF Launch, Start, Resume, NewLaunch, Goto, Exit, NoSave
  <2> QED BY <2>1, QuietAnswers DEF Telling
<1>2. CASE StartWorker
  <2> DEFINE c == Checkpoint("plan", 0, NoMessage, planIter, plan, used)
  <2>1. pc' \notin Telling
    BY <1>2 DEF StartWorker, Goto, Telling
  <2>2. CASE NoSave
    BY <2>1, <2>2, QuietAnswers DEF NoSave
  <2>3. CASE Save(c)
    <3>1. c.phase = "plan"
      BY DEF Checkpoint
    <3> HIDE DEF c
    <3>2. DiskAnswers'
      BY <1>0, <2>3, <3>1, SavedAnswers
    <3> QED BY <2>1, <3>2 DEF PendingAnswers, DiskAnswers, Telling
  <2> QED BY <1>2, <2>2, <2>3 DEF StartWorker
<1>3. CASE StartFails \/ NextFails("planTurn") \/ NextFails("actTurn") \/ Crash
  <2>1. disk' = disk /\ pc' = "down"
    BY <1>3 DEF StartFails, NextFails, Crash, Exit
  <2> QED BY <2>1, QuietAnswers DEF Telling
<1>4. CASE SendPlan \/ SendFirst \/ SendFeedback
  <2>1. /\ disk' = disk /\ msg' = msg /\ used' = used
        /\ pc' \in {"planTurn", "loopTop", "down"} \/ (pc = "sendFeedback" /\ pc' = "save")
    BY <1>4 DEF SendPlan, SendFirst, SendFeedback, SendTo, Goto, Exit
  <2> QED BY <2>1, QuietAnswers DEF Telling
<1>5. CASE \E t, w \in 0..1 : PlanReply(t, w)
  <2>1. disk' = disk /\ pc' \in {"actEntry", "planAsk", "down"}
    BY <1>5 DEF PlanReply, Goto, Exit
  <2> QED BY <2>1, QuietAnswers DEF Telling
<1>6. CASE \E w \in 0..1 : \E a \in {"approve", "refine", "reject", "interrupt"} : PlanAnswer(a, w)
  <2>1. disk' = disk /\ pc' \in {"actEntry", "sendPlan", "down"}
    BY <1>6 DEF PlanAnswer, Goto, Exit
  <2> QED BY <2>1, QuietAnswers DEF Telling
<1>7. CASE ActEntry
  <2> DEFINE first == IF ResumingAct THEN disk.pending ELSE First(plan)
             c == Checkpoint("act", used.turns, first, planIter, plan, used)
  <2>1. Answers(first, used.turns)
    BY <1>0, <1>7, ActEntryAnswers DEF ActEntry
  <2>2. msg' = first /\ used' = used
    BY <1>7 DEF ActEntry
  <2>3. DiskAnswers'
    <3>1. CASE NoSave
      BY <1>0, <3>1 DEF NoSave, DiskAnswers, Answers, Feedback
    <3>2. CASE Save(c)
      <4>1. c.last = used.turns /\ c.used = used /\ c.pending = first
        BY DEF Checkpoint
      <4>2. c.last = c.used.turns /\ Answers(c.pending, c.last)
        BY <2>1, <4>1
      <4> HIDE DEF c
      <4> QED BY <1>0, <3>2, <4>2, SavedAnswers
    <3> QED BY <1>7, <3>1, <3>2 DEF ActEntry
  <2>4. Answers(msg, used.turns)'
    BY <2>1, <2>2 DEF Answers, Feedback
  <2> QED BY <2>3, <2>4 DEF PendingAnswers, DiskAnswers
<1>8. CASE LoopTop \/ Judge
  <2>1. disk' = disk /\ pc' \in {"actTurn", "feedback", "verify", "down"}
    BY <1>8 DEF LoopTop, Judge, Goto, Exit
  <2> QED BY <2>1, QuietAnswers DEF Telling
<1>9. CASE \E r \in Responses : \E t, w \in 0..1 : TurnReply(r, t, w)
  <2>1. disk' = disk /\ pc' \in {"gate", "judge", "down"}
    BY <1>9 DEF TurnReply, Goto, Exit
  <2> QED BY <2>1, QuietAnswers DEF Telling
<1>10. CASE \E w \in 0..1 : \E e \in Envelopes : Gate(e, w)
  <2>1. disk' = disk /\ pc' \in {"judge", "down"}
    BY <1>10 DEF Gate, Goto, Exit
  <2> QED BY <2>1, QuietAnswers DEF Telling
<1>11. CASE \E w \in 0..1 : \E v \in {"pass", "fail", "error"} : Verify(v, w)
  <2>1. disk' = disk /\ pc' \in {"feedback", "down"}
    BY <1>11 DEF Verify, Goto, Exit
  <2> QED BY <2>1, QuietAnswers DEF Telling
<1>12. CASE NotConverged
  <2>1. msg' = Feedback(used.turns) /\ used' = used
    BY <1>12 DEF NotConverged
  <2>2. DiskAnswers'
    <3>1. CASE NoSave
      BY <1>0, <3>1 DEF NoSave, DiskAnswers, Answers, Feedback
    <3>2. CASE StopBeforeSend(used, IF opts.interactive THEN "turnAsk" ELSE "sendFeedback")
      BY <1>0, <3>2, StopBeforeSendAnswers
    <3> QED BY <1>12, <3>1, <3>2 DEF NotConverged
  <2>3. Answers(msg, used.turns)'
    BY <2>1 DEF Answers, Feedback
  <2> QED BY <2>2, <2>3 DEF PendingAnswers, DiskAnswers
<1>13. CASE \E w \in 0..1 : \E a \in {"approve", "replace", "reject", "interrupt"} : TurnAnswer(a, w)
  <2> PICK w \in 0..1, a \in {"approve", "replace", "reject", "interrupt"} : TurnAnswer(a, w)
    BY <1>13
  <2>1. used'.turns = used.turns
    <3>1. used' = Waited(used, w)
      BY DEF TurnAnswer
    <3>2. used \in Uses /\ w \in Nat
      BY <1>0 DEF Types, CountType
    <3> QED BY <3>1, <3>2, WaitedGrows
  <2>2. DiskAnswers'
    <3>1. CASE NoSave
      BY <1>0, <3>1 DEF NoSave, DiskAnswers, Answers, Feedback
    <3>2. CASE StopBeforeSend(used', "sendFeedback")
      BY <1>0, <3>2, StopBeforeSendAnswers
    <3> QED BY <3>1, <3>2 DEF TurnAnswer
  <2>3. msg' = msg /\ Answers(msg, used.turns)
    BY <1>0 DEF TurnAnswer, MsgAnswers, Telling
  <2>4. Answers(msg, used.turns)'
    BY <2>1, <2>3 DEF Answers, Feedback
  <2> QED BY <2>2, <2>4 DEF PendingAnswers, DiskAnswers
<1>14. CASE SaveTurn
  <2> DEFINE c == Checkpoint("act", used.turns, msg, planIter, plan, used)
  <2>1. Answers(msg, used.turns) /\ Save(c) /\ pc' = "loopTop"
    BY <1>0, <1>14 DEF SaveTurn, MsgAnswers, Telling, Goto
  <2>2. c.last = used.turns /\ c.used = used /\ c.pending = msg
    BY DEF Checkpoint
  <2>3. c.last = c.used.turns /\ Answers(c.pending, c.last)
    BY <2>1, <2>2
  <2> HIDE DEF c
  <2>4. DiskAnswers'
    BY <1>0, <2>1, <2>3, SavedAnswers
  <2> QED BY <2>1, <2>4 DEF PendingAnswers, DiskAnswers
<1>15. CASE \/ Signal \/ WorkerDies \/ UNCHANGED vars
            \/ \E b \in Baselines \union {Unreadable} : WorkerEditsBaseline(b)
  <2>1. UNCHANGED <<pc, msg, used, disk>>
    BY <1>15 DEF Signal, WorkerDies, WorkerEditsBaseline, vars, loopVars
  <2> QED BY <2>1, QuietAnswers
<1> QED BY <1>1, <1>2, <1>3, <1>4, <1>5, <1>6, <1>7, <1>8, <1>9, <1>10, <1>11, <1>12, <1>13,
  <1>14, <1>15
  DEF Next, LoopStep, WorkerStep, OperatorAnswers, Environment

------------------------------------------------------------------------------
(* What a convergence rests on *)

EvidenceInv == Undisturbed /\ ConvergedOnEvidence

\* A step to a stage where nothing is judged, or out of the run for another
\* reason than convergence.
LEMMA NoVerdict ==
  ASSUME pc' \notin Judging,
         pc' = "down" => worker' = "none" /\ exit' # "converged"
  PROVE  EvidenceInv'
<1>1. Undisturbed'
  BY DEF Undisturbed, Judging
<1>2. ConvergedOnEvidence'
  BY DEF ConvergedOnEvidence
<1> QED BY <1>1, <1>2 DEF EvidenceInv

\* A step that leaves alone all a verdict rests on.
LEMMA SameVerdict ==
  ASSUME EvidenceInv, UNCHANGED <<pc, exit, opts, resumed, used, env, baseline, fp>>,
         worker' = worker \/ (worker' = "dead" /\ worker \in {"idle", "turn"})
  PROVE  EvidenceInv'
<1>1. GatePassed' = GatePassed /\ VerificationExpected' = VerificationExpected
  BY DEF GatePassed, VerificationExpected
<1>2. Undisturbed'
  BY <1>1 DEF EvidenceInv, Undisturbed
<1>3. ConvergedOnEvidence'
  BY <1>1 DEF EvidenceInv, ConvergedOnEvidence
<1> QED BY <1>2, <1>3 DEF EvidenceInv

\* The gate's verdict, when it lets the run converge, is the evidence.
LEMMA PassedIsEvidence ==
  ASSUME GatePassed, VerificationExpected, env = NoEnvelope \/ env.turn = used.turns
  PROVE  env.turn = used.turns /\ env.ran /\ env.canGate /\ ~env.blocked
<1>1. env.ran /\ env.canGate /\ ~env.blocked
  BY DEF GatePassed
<1>2. env # NoEnvelope
  BY <1>1 DEF NoEnvelope
<1> QED BY <1>1, <1>2

\* A judgement that keeps to the verdict's inputs, and converges only if the
\* gate passed.
LEMMA JudgedOnEvidence ==
  ASSUME EvidenceInv, pc \in {"judge", "verify"}, used'.turns = used.turns,
         UNCHANGED <<opts, resumed, env, baseline, fp>>,
         pc' \in {"feedback", "verify", "down"},
         pc' # "down" => worker' = worker,
         pc' = "down" => worker' = "none",
         pc' = "verify" => GatePassed,
         (pc' = "down" /\ exit' = "converged") => GatePassed
  PROVE  EvidenceInv'
<1>1. GatePassed' = GatePassed /\ VerificationExpected' = VerificationExpected
  BY DEF GatePassed, VerificationExpected
<1>2. baseline = fp /\ (env = NoEnvelope \/ env.turn = used.turns)
  BY DEF EvidenceInv, Undisturbed, Judging
<1>3. Undisturbed'
  BY <1>1, <1>2 DEF EvidenceInv, Undisturbed, Judging
<1>4. ASSUME pc' = "down", exit' = "converged", VerificationExpected'
      PROVE  /\ env'.turn = used'.turns
             /\ env'.ran /\ env'.canGate /\ ~env'.blocked
             /\ baseline' = fp'
  <2>1. env.turn = used.turns /\ env.ran /\ env.canGate /\ ~env.blocked
    BY <1>1, <1>2, <1>4, PassedIsEvidence
  <2> QED BY <1>2, <2>1
<1>5. ConvergedOnEvidence'
  BY <1>4 DEF ConvergedOnEvidence
<1> QED BY <1>3, <1>5 DEF EvidenceInv

LEMMA EvidenceNext ==
  ASSUME TypeOK, EvidenceInv, [Next]_vars
  PROVE  EvidenceInv'
<1>0. used \in Uses /\ used.turns \in Nat
  BY DEF TypeOK, CountType, Uses
<1>1. CASE Launch
  <2>0. pc = "down" /\ worker = "none"
    BY <1>1 DEF Launch, Start, Resume, NewLaunch, EvidenceInv, Undisturbed
  <2>1. CASE \E o \in LaunchOptions : Start(o)
    BY <2>1, NoVerdict DEF Start, Goto, Judging
  <2>2. CASE \E o \in LaunchOptions : Resume(o)
    <3>1. pc' \in {"boot", "down"} /\ worker' = "none"
      BY <2>0, <2>2 DEF Resume, Goto, Exit
    <3>2. pc' = "down" => exit' \in {"resumeError", "turnCap", "tokenBudget", "wallClock", "within"}
      BY <2>2 DEF Resume, Goto, Exit, Exceeded
    <3> QED BY <3>1, <3>2, NoVerdict DEF Judging
  <2> QED BY <1>1, <2>1, <2>2 DEF Launch
<1>2. CASE StartWorker
  BY <1>2, NoVerdict DEF StartWorker, Goto, Judging
<1>3. CASE StartFails \/ NextFails("planTurn") \/ NextFails("actTurn") \/ Crash
  BY <1>3, NoVerdict DEF StartFails, NextFails, Crash, Exit, Judging
<1>4. CASE SendPlan \/ SendFirst \/ SendFeedback
  BY <1>4, NoVerdict DEF SendPlan, SendFirst, SendFeedback, SendTo, Goto, Exit, Judging
<1>5. CASE \E t, w \in 0..1 : PlanReply(t, w)
  BY <1>5, NoVerdict DEF PlanReply, Goto, Exit, Exceeded, Judging
<1>6. CASE \E w \in 0..1 : \E a \in {"approve", "refine", "reject", "interrupt"} : PlanAnswer(a, w)
  <2>1. /\ pc' \in {"actEntry", "sendPlan", "down"}
        /\ pc' = "down" => worker' = "none" /\ exit' # "converged"
    BY <1>6 DEF PlanAnswer, Goto, Exit
  <2> QED BY <2>1, NoVerdict DEF Judging
<1>7. CASE ActEntry
  BY <1>7, NoVerdict DEF ActEntry, Goto, Exit, Judging
<1>8. CASE LoopTop
  <2>1. /\ pc' \in {"actTurn", "down"}
        /\ pc' = "down" => worker' = "none" /\ exit' # "converged"
    BY <1>8 DEF LoopTop, Goto, Exit, StopRun, Exceeded
  <2> QED BY <2>1, NoVerdict DEF Judging
<1>9. CASE \E r \in Responses : \E t, w \in 0..1 : TurnReply(r, t, w)
  <2> PICK r \in Responses, t \in 0..1, w \in 0..1 : TurnReply(r, t, w)
    BY <1>9
  <2>1. CASE baseline # fp
    BY <2>1, NoVerdict DEF TurnReply, Exit, Judging
  <2>2. CASE baseline = fp
    <3>1. /\ pc' \in {"gate", "judge"} /\ worker' = "idle" /\ env' = NoEnvelope
          /\ baseline' = baseline /\ fp' = fp
      BY <2>2 DEF TurnReply, Goto
    <3>2. Undisturbed'
      BY <2>2, <3>1 DEF Undisturbed, Judging
    <3>3. ConvergedOnEvidence'
      BY <3>1 DEF ConvergedOnEvidence
    <3> QED BY <3>2, <3>3 DEF EvidenceInv
  <2> QED BY <2>1, <2>2
<1>10. CASE \E w \in 0..1 : \E e \in Envelopes : Gate(e, w)
  <2> PICK w \in 0..1, e \in Envelopes : Gate(e, w)
    BY <1>10
  <2>0. used'.turns = used.turns
    <3>1. used' = Waited(used, w) /\ w \in Nat
      BY DEF Gate
    <3> QED BY <1>0, <3>1, WaitedGrows
  <2>1. CASE Exit("gateError")
    BY <2>1, NoVerdict DEF Exit, Judging
  <2>2. CASE Goto("judge") /\ env' = e /\ UNCHANGED worker
    <3>1. /\ pc = "gate" /\ pc' = "judge" /\ worker' = worker /\ env' = e
          /\ baseline' = baseline /\ fp' = fp
      BY <2>2 DEF Gate, Goto
    <3>2. e.turn = used.turns
      BY DEF Envelopes
    <3>3. worker # "turn" /\ baseline = fp
      BY <3>1 DEF EvidenceInv, Undisturbed, Judging
    <3>4. Undisturbed'
      BY <2>0, <3>1, <3>2, <3>3 DEF Undisturbed, Judging
    <3>5. ConvergedOnEvidence'
      BY <3>1 DEF ConvergedOnEvidence
    <3> QED BY <3>4, <3>5 DEF EvidenceInv
  <2> QED BY <2>1, <2>2 DEF Gate
<1>11. CASE Judge
  <2>1. /\ pc = "judge" /\ UNCHANGED <<opts, resumed, env, baseline, fp, used>>
        /\ pc' \in {"feedback", "verify", "down"}
        /\ pc' # "down" => worker' = worker
        /\ pc' = "down" => worker' = "none"
    BY <1>11 DEF Judge, Goto, Exit, session
  <2>2. pc' # "feedback" => GatePassed
    BY <1>11 DEF Judge, Goto
  <2> QED BY <2>1, <2>2, JudgedOnEvidence
<1>12. CASE \E w \in 0..1 : \E v \in {"pass", "fail", "error"} : Verify(v, w)
  <2> PICK w \in 0..1, v \in {"pass", "fail", "error"} : Verify(v, w)
    BY <1>12
  <2>0. used'.turns = used.turns
    <3>1. used' = Waited(used, w) /\ w \in Nat
      BY DEF Verify
    <3> QED BY <1>0, <3>1, WaitedGrows
  <2>1. /\ pc = "verify" /\ UNCHANGED <<opts, resumed, env, baseline, fp>>
        /\ pc' \in {"feedback", "down"}
        /\ pc' # "down" => worker' = worker
        /\ pc' = "down" => worker' = "none"
    BY DEF Verify, Goto, Exit, session
  <2>2. GatePassed
    BY <2>1 DEF EvidenceInv, Undisturbed
  <2> QED BY <2>0, <2>1, <2>2, JudgedOnEvidence
<1>13. CASE NotConverged
  <2>1. pc = "feedback" /\ UNCHANGED <<baseline, fp>>
    BY <1>13 DEF NotConverged
  <2>2. worker # "turn" /\ baseline = fp
    BY <2>1 DEF EvidenceInv, Undisturbed, Judging
  <2>3. \/ pc' = "down" /\ worker' = "none" /\ exit' # "converged"
        \/ pc' \in {"turnAsk", "sendFeedback"} /\ worker' = worker
    BY <1>13 DEF NotConverged, StopBeforeSend, Goto, Exit, StopRun, Exceeded
  <2>4. Undisturbed'
    BY <2>1, <2>2, <2>3 DEF Undisturbed, Judging
  <2>5. ConvergedOnEvidence'
    BY <2>3 DEF ConvergedOnEvidence
  <2> QED BY <2>4, <2>5 DEF EvidenceInv
<1>14. CASE \E w \in 0..1 : \E a \in {"approve", "replace", "reject", "interrupt"} : TurnAnswer(a, w)
  <2>1. /\ pc' \in {"sendFeedback", "down"}
        /\ pc' = "down" => worker' = "none" /\ exit' # "converged"
    BY <1>14 DEF TurnAnswer, StopBeforeSend, Goto, Exit, StopRun, Exceeded
  <2> QED BY <2>1, NoVerdict DEF Judging
<1>15. CASE SaveTurn
  BY <1>15, NoVerdict DEF SaveTurn, Goto, Judging
<1>16. CASE Signal \/ WorkerDies \/ UNCHANGED vars
  <2>1. /\ UNCHANGED <<pc, exit, opts, resumed, used, env, baseline, fp>>
        /\ worker' = worker \/ (worker' = "dead" /\ worker \in {"idle", "turn"})
    BY <1>16 DEF Signal, WorkerDies, vars, loopVars, session
  <2> QED BY <2>1, SameVerdict
<1>17. CASE \E b \in Baselines \union {Unreadable} : WorkerEditsBaseline(b)
  <2>1. worker = "turn" /\ UNCHANGED <<pc, worker>>
    BY <1>17 DEF WorkerEditsBaseline
  <2>2. pc \notin Judging /\ pc # "down"
    BY <2>1 DEF EvidenceInv, Undisturbed
  <2> QED BY <2>1, <2>2, NoVerdict
<1> QED BY <1>1, <1>2, <1>3, <1>4, <1>5, <1>6, <1>7, <1>8, <1>9, <1>10, <1>11, <1>12, <1>13,
  <1>14, <1>15, <1>16, <1>17
  DEF Next, LoopStep, WorkerStep, OperatorAnswers, Environment

------------------------------------------------------------------------------
(* The invariant and what follows from it *)

LEMMA SessionInit == Init => SessionInv
<1> SUFFICES ASSUME Init PROVE SessionInv
  OBVIOUS
<1>1. TypeOK
  BY InitTypes
<1>2. /\ pc = "down" /\ exit = "none" /\ disk = NoCheckpoint /\ worker = "none"
      /\ completed = 0 /\ launches = 0 /\ faults = 0 /\ missed = 0 /\ used.turns = 0
  BY DEF Init
<1>3. CheckpointedTurns = 0 /\ disk.phase = "none"
  BY <1>2, CheckpointTypes DEF CheckpointedTurns
<1>4. NeverLaunched /\ MemoryAhead /\ Forgotten
  BY <1>2, <1>3 DEF NeverLaunched, MemoryAhead, Forgotten, Settled, Preparing
<1>5. WithinCap /\ PlansFirst /\ PendingAnswers
  BY <1>2, <1>3 DEF WithinCap, PlansFirst, PendingAnswers, Preparing, Planning
<1>6. Undisturbed /\ ConvergedOnEvidence
  BY <1>2 DEF Undisturbed, ConvergedOnEvidence, Judging
<1> QED BY <1>1, <1>4, <1>5, <1>6 DEF SessionInv

LEMMA SessionNext == SessionInv /\ [Next]_vars => SessionInv'
<1> SUFFICES ASSUME SessionInv, [Next]_vars PROVE SessionInv'
  OBVIOUS
<1>1. TypeOK /\ CountInv /\ PendingAnswers /\ EvidenceInv
  BY DEF SessionInv, CountInv, EvidenceInv
<1>2. TypeOK'
  BY <1>1, NextTypes
<1>3. CountInv'
  BY <1>1, <1>2, CountNext
<1>4. PendingAnswers'
  BY <1>1, PendingNext
<1>5. EvidenceInv'
  BY <1>1, EvidenceNext
<1> QED BY <1>2, <1>3, <1>4, <1>5 DEF SessionInv, CountInv, EvidenceInv

\* The inductive invariant of a session holds throughout.
THEOREM SessionInvariant == Spec => []SessionInv
BY SessionInit, SessionNext, PTL DEF Spec

\* However often a session is killed and resumed, a relaunch finds all but the
\* turn in flight, and those whose checkpoint could not be written.
THEOREM LossIsBounded == Spec => []AtMostOneTurnLost
<1>1. SessionInv => AtMostOneTurnLost
  BY DEF SessionInv, MemoryAhead, AtMostOneTurnLost
<1> QED BY <1>1, SessionInvariant, PTL

\* The cap on turns is a cap on the session: each relaunch and each failed
\* write can cost one turn more, and nothing else can.
THEOREM TurnsAreBounded == Spec => []SessionTurnsBounded
<1>1. SessionInv => SessionTurnsBounded
  <2> SUFFICES ASSUME SessionInv, launches > 0, pc # "down"
               PROVE  completed <= opts.maxTurns + (launches - 1) + faults
    BY DEF SessionTurnsBounded
  <2>1. /\ used.turns \in Nat /\ completed \in Nat /\ launches \in Nat
        /\ faults \in Nat /\ missed \in Nat /\ opts.maxTurns \in Nat
    BY DEF SessionInv, TypeOK, CountType, Uses, HistoryType, DiskType, LaunchType
  <2>2. completed - used.turns <= (launches - 1) + (faults - missed)
    BY DEF SessionInv, Forgotten
  <2>3. used.turns <= opts.maxTurns
    BY DEF SessionInv, WithinCap
  <2> QED BY <2>1, <2>2, <2>3
<1> QED BY <1>1, SessionInvariant, PTL

\* Kills and failed writes account for every turn that was lost or redone.
THEOREM TurnsAreAccountedFor == Spec => []TurnsAccountedFor
<1>1. AtMostOneTurnLost /\ SessionTurnsBounded => TurnsAccountedFor
  BY DEF TurnsAccountedFor
<1> QED BY <1>1, LossIsBounded, TurnsAreBounded, PTL

\* What is sent to the worker, now or by a later resume, answers its last
\* counted turn.
THEOREM FeedbackIsAnswer == Spec => []FeedbackIsCurrent
<1>1. SessionInv => FeedbackIsCurrent
  BY DEF SessionInv, PendingAnswers, FeedbackIsCurrent
<1> QED BY <1>1, SessionInvariant, PTL

\* No run that was to be verified reports convergence without a gate that ran
\* on its last turn, could block, and did not.
THEOREM ConvergenceIsEarned == Spec => []ConvergedOnEvidence
<1>1. SessionInv => ConvergedOnEvidence
  BY DEF SessionInv
<1> QED BY <1>1, SessionInvariant, PTL

------------------------------------------------------------------------------
(* What a step may never do *)

Advance ==
  (disk # NoCheckpoint /\ disk' # disk) =>
    /\ disk'.used.turns >= disk.used.turns
    /\ disk'.used.tokens >= disk.used.tokens
    /\ disk'.used.wall >= disk.used.wall
    /\ disk.phase = "act" => disk'.phase = "act"

\* A save of what is counted moves the file forward.
LEMMA SaveAdvances ==
  ASSUME SessionInv, NEW c, Save(c), NEW u \in Uses, c.used = u,
         u.turns = used.turns, u.tokens >= used.tokens, u.wall >= used.wall,
         disk.phase = "act" => c.phase = "act"
  PROVE  Advance
<1>1. disk' = c \/ disk' = disk
  BY DEF Save
<1>2. ASSUME disk # NoCheckpoint, disk' = c
      PROVE  /\ disk'.used.turns >= disk.used.turns
             /\ disk'.used.tokens >= disk.used.tokens
             /\ disk'.used.wall >= disk.used.wall
  <2>1. used \in Uses /\ disk.used \in Uses
    BY <1>2, CheckpointTypes DEF SessionInv, TypeOK, CountType, DiskType
  <2>2. /\ used.turns >= disk.used.turns /\ used.tokens >= disk.used.tokens
        /\ used.wall >= disk.used.wall
    BY <1>2 DEF SessionInv, MemoryAhead
  <2> QED BY <1>2, <2>1, <2>2 DEF Uses
<1> QED BY <1>1, <1>2 DEF Advance

LEMMA StopBeforeSendAdvances ==
  ASSUME SessionInv, NEW u \in Uses, NEW go, StopBeforeSend(u, go),
         u.turns = used.turns, u.tokens >= used.tokens, u.wall >= used.wall
  PROVE  Advance
<1> DEFINE c == Checkpoint("act", u.turns, Feedback(u.turns), planIter, plan, u)
<1>1. CASE NoSave
  BY <1>1 DEF NoSave, Advance
<1>2. CASE Save(c)
  <2>1. c.phase = "act" /\ c.used = u
    BY DEF Checkpoint
  <2> HIDE DEF c
  <2> QED BY <1>2, <2>1, SaveAdvances
<1> QED BY <1>1, <1>2 DEF StopBeforeSend

LEMMA NextAdvances ==
  ASSUME SessionInv, [Next]_vars
  PROVE  Advance
<1>0. /\ used \in Uses /\ used.turns = used.turns
      /\ used.tokens >= used.tokens /\ used.wall >= used.wall
  BY DEF SessionInv, TypeOK, CountType, Uses
<1>1. CASE StartWorker
  <2> DEFINE c == Checkpoint("plan", 0, NoMessage, planIter, plan, used)
  <2>1. CASE NoSave
    BY <2>1 DEF NoSave, Advance
  <2>2. CASE RunPlan /\ Save(c)
    <3>1. c.used = used
      BY DEF Checkpoint
    <3>2. pc \in Preparing
      BY <1>1 DEF StartWorker, Preparing
    <3>3. disk.phase # "act"
      BY <2>2, <3>2 DEF SessionInv, PlansFirst, RunPlan, ResumingAct
    <3> HIDE DEF c
    <3> QED BY <1>0, <2>2, <3>1, <3>3, SaveAdvances
  <2> QED BY <1>1, <2>1, <2>2 DEF StartWorker
<1>2. CASE ActEntry
  <2> DEFINE first == IF ResumingAct THEN disk.pending ELSE First(plan)
             c == Checkpoint("act", used.turns, first, planIter, plan, used)
  <2>1. CASE NoSave
    BY <2>1 DEF NoSave, Advance
  <2>2. CASE Save(c)
    <3>1. c.used = used /\ c.phase = "act"
      BY DEF Checkpoint
    <3> HIDE DEF c
    <3> QED BY <1>0, <2>2, <3>1, SaveAdvances
  <2> QED BY <1>2, <2>1, <2>2 DEF ActEntry
<1>3. CASE NotConverged
  <2>1. CASE NoSave
    BY <2>1 DEF NoSave, Advance
  <2>2. CASE StopBeforeSend(used, IF opts.interactive THEN "turnAsk" ELSE "sendFeedback")
    BY <1>0, <2>2, StopBeforeSendAdvances
  <2> QED BY <1>3, <2>1, <2>2 DEF NotConverged
<1>4. CASE \E w \in 0..1 : \E a \in {"approve", "replace", "reject", "interrupt"} : TurnAnswer(a, w)
  <2> PICK w \in 0..1, a \in {"approve", "replace", "reject", "interrupt"} : TurnAnswer(a, w)
    BY <1>4
  <2>1. CASE NoSave
    BY <2>1 DEF NoSave, Advance
  <2>2. CASE StopBeforeSend(used', "sendFeedback")
    <3>1. used' = Waited(used, w) /\ w \in Nat
      BY DEF TurnAnswer
    <3>2. /\ used' \in Uses /\ used'.turns = used.turns
          /\ used'.tokens >= used.tokens /\ used'.wall >= used.wall
      BY <1>0, <3>1, WaitedGrows
    <3> QED BY <2>2, <3>2, StopBeforeSendAdvances
  <2> QED BY <2>1, <2>2 DEF TurnAnswer
<1>5. CASE SaveTurn
  <2> DEFINE c == Checkpoint("act", used.turns, msg, planIter, plan, used)
  <2>1. c.used = used /\ c.phase = "act"
    BY DEF Checkpoint
  <2>2. Save(c)
    BY <1>5 DEF SaveTurn
  <2> HIDE DEF c
  <2> QED BY <1>0, <2>1, <2>2, SaveAdvances
<1>6. CASE disk' = disk
  BY <1>6 DEF Advance
<1>7. ASSUME Launch \/ WorkerStep
      PROVE  disk' = disk
  BY <1>7 DEF Launch, Start, Resume, NoSave, WorkerStep, NextFails, PlanReply, TurnReply
<1>8. ASSUME \/ StartFails \/ SendPlan \/ SendFirst \/ LoopTop \/ Judge \/ SendFeedback
             \/ \E w \in 0..1 : \E e \in Envelopes : Gate(e, w)
             \/ \E w \in 0..1 : \E v \in {"pass", "fail", "error"} : Verify(v, w)
             \/ \E w \in 0..1 : \E a \in {"approve", "refine", "reject", "interrupt"} :
                  PlanAnswer(a, w)
      PROVE  disk' = disk
  BY <1>8 DEF StartFails, SendPlan, SendFirst, SendFeedback, SendTo, LoopTop, Judge, Gate,
     Verify, PlanAnswer
<1>9. ASSUME Environment \/ UNCHANGED vars
      PROVE  disk' = disk
  BY <1>9 DEF Environment, Signal, WorkerDies, Crash, WorkerEditsBaseline, vars, loopVars
<1> QED BY <1>1, <1>2, <1>3, <1>4, <1>5, <1>6, <1>7, <1>8, <1>9
  DEF Next, LoopStep, OperatorAnswers

\* The checkpoint never forgets consumed budget, and never leaves the act phase.
THEOREM CheckpointNeverForgets == Spec => CheckpointAdvances
<1>1. SessionInv /\ [Next]_vars => [Advance]_vars
  BY NextAdvances
<1> QED BY <1>1, SessionInvariant, PTL DEF Spec, CheckpointAdvances, Advance

\* Feedback waiting to be sent has been held against every cap.
HasRoom == pc = "sendFeedback" => Exceeded(used) = "within"

LEMMA RoomNext == HasRoom /\ [Next]_vars => HasRoom'
<1> SUFFICES ASSUME HasRoom, [Next]_vars, pc' = "sendFeedback"
             PROVE  Exceeded(used)' = "within"
  BY DEF HasRoom
<1>1. CASE UNCHANGED <<pc, used, opts>>
  BY <1>1 DEF HasRoom, Exceeded
<1>2. ASSUME NEW u, NEW go, StopBeforeSend(u, go), used' = u, opts' = opts
      PROVE  Exceeded(used)' = "within"
  BY <1>2 DEF StopBeforeSend, Exit, StopRun, Exceeded
<1>3. CASE NotConverged
  BY <1>2, <1>3 DEF NotConverged, Exit, session
<1>4. CASE \E w \in 0..1 : \E a \in {"approve", "replace", "reject", "interrupt"} : TurnAnswer(a, w)
  BY <1>2, <1>4 DEF TurnAnswer, Exit, session
<1>5. CASE Launch \/ WorkerStep
  BY <1>5 DEF Launch, Start, Resume, WorkerStep, NextFails, PlanReply, TurnReply, Goto, Exit
<1>6. CASE \/ StartWorker \/ StartFails \/ SendPlan \/ ActEntry \/ SendFirst \/ LoopTop
           \/ Judge \/ SendFeedback \/ SaveTurn \/ Crash
           \/ \E w \in 0..1 : \E e \in Envelopes : Gate(e, w)
           \/ \E w \in 0..1 : \E v \in {"pass", "fail", "error"} : Verify(v, w)
           \/ \E w \in 0..1 : \E a \in {"approve", "refine", "reject", "interrupt"} :
                PlanAnswer(a, w)
  BY <1>6 DEF StartWorker, StartFails, SendPlan, ActEntry, SendFirst, SendTo, LoopTop, Judge,
     SendFeedback, SaveTurn, Crash, Gate, Verify, PlanAnswer, Goto, Exit
<1>7. CASE \/ Signal \/ WorkerDies \/ UNCHANGED vars
           \/ \E b \in Baselines \union {Unreadable} : WorkerEditsBaseline(b)
  BY <1>1, <1>7 DEF Signal, WorkerDies, WorkerEditsBaseline, vars, loopVars, session
<1> QED BY <1>3, <1>4, <1>5, <1>6, <1>7
  DEF Next, LoopStep, OperatorAnswers, Environment

\* Feedback is never sent past a cap, whatever time the operator took.
THEOREM FeedbackKeepsToCaps == Spec => NoFeedbackPastACap
<1>1. Init => HasRoom
  BY DEF Init, HasRoom
<1>2. HasRoom /\ [Next]_vars =>
        [(pc = "sendFeedback" /\ pc' = "save") => Exceeded(used) = "within"]_vars
  BY DEF HasRoom
<1> QED BY <1>1, <1>2, RoomNext, PTL DEF Spec, NoFeedbackPastACap

-----------------------------------------------------------------------------
(***************************************************************************)
(* The delegates of a harness, and an export.  FlatDelegates speaks of the *)
(* end of the walk; WalkInv says what is true on the way: every entry of   *)
(* the root and of an agent still waits or has been looked at.  When       *)
(* nothing waits, the agents are closed under delegation, so all that is   *)
(* reached is among them.                                                  *)
(***************************************************************************)

\* The directory whose entries are those of parent p.
Declarer(agents, p) == IF p = 0 THEN Root ELSE agents[p].dir

AgentRecords == [ dir : Dirs, sel : Selections, declared : Seq(Names) ]
Waiting(n) == [ entry : Entries, parent : 0..n ]

WalkTypes == graph \in Graphs /\ out \in Seq(AgentRecords) /\ queue \in Seq(Waiting(Len(out)))

\* What waits was declared by the root or by an agent that is there.
Declared(agents, waiting) ==
  LET d == Declarer(agents, waiting.parent) IN \E k \in DOMAIN graph[d] : waiting.entry = graph[d][k]
WaitsRightly == \A q \in DOMAIN queue : Declared(out, queue[q])

\* The agents are harnesses that the delegates lead to, no two of one name.
AgentsAreReached ==
  /\ \A i \in DOMAIN out : out[i].dir \in Reached /\ ~IsRoot(out[i].dir)
  /\ \A i, j \in DOMAIN out : NameOf[out[i].dir] = NameOf[out[j].dir] => i = j

\* Every entry of the root and of an agent is looked at or waits.
LookedAt(agents, p, e) ==
  IsRoot(e.to) \/ Same(Declarer(agents, p), e.to) \/ \E j \in DOMAIN agents : Same(agents[j].dir, e.to) /\ agents[j].sel = e.sel
Waits(list, p, e) == \E q \in DOMAIN list : list[q].parent = p /\ list[q].entry = e
NoneForgotten ==
  \A p \in 0..Len(out) : \A k \in DOMAIN graph[Declarer(out, p)] :
    LET e == graph[Declarer(out, p)][k] IN Waits(queue, p, e) \/ LookedAt(out, p, e)

\* What the walk of the delegates keeps.
WalkInv ==
  /\ WalkTypes /\ WaitsRightly /\ AgentsAreReached /\ HandsToAgents
  /\ walk \in {"walking", "flat"} => NoneForgotten
  /\ walk = "flat" => queue = <<>>

\* What the delegates of a directory are.
LEMMA GraphTypes ==
  ASSUME graph \in Graphs, NEW d \in Dirs
  PROVE  /\ graph[d] \in Seq(Entries) /\ Root \in Dirs /\ NameOf[d] \in Names
         /\ \A k \in DOMAIN graph[d] : graph[d][k] \in Entries /\ graph[d][k].to \in Dirs /\ graph[d][k].sel \in Selections
<1>1. graph \in [Dirs -> Seq(Entries)] /\ Root \in Dirs /\ NameOf \in [Dirs -> Names]
  BY DelegateAssumption
<1>2. graph[d] \in Seq(Entries)
  BY <1>1
<1>3. \A k \in DOMAIN graph[d] : graph[d][k] \in Entries
  BY <1>2
<1> QED BY <1>1, <1>2, <1>3 DEF Entries

\* Directories of one identity are one harness.
LEMMA OneHarness ==
  ASSUME graph \in Graphs, NEW d \in Dirs, NEW e \in Dirs, Same(d, e)
  PROVE  /\ NameOf[d] = NameOf[e] /\ (IsRoot(d) <=> IsRoot(e)) /\ DOMAIN graph[d] = DOMAIN graph[e]
         /\ \A k \in DOMAIN graph[d] : graph[d][k].sel = graph[e][k].sel /\ Same(graph[d][k].to, graph[e][k].to)
<1>1. Identity[d] = Identity[e]
  BY DEF Same
<1>2. /\ NameOf[d] = NameOf[e] /\ DOMAIN graph[d] = DOMAIN graph[e]
      /\ \A k \in DOMAIN graph[d] : graph[d][k].sel = graph[e][k].sel /\ Identity[graph[d][k].to] = Identity[graph[e][k].to]
  BY <1>1, DelegateAssumption
<1> QED BY <1>1, <1>2 DEF Same, IsRoot

\* What the delegates of the root, or of what is reached, lead to is reached.
LEMMA ReachedCloses ==
  ASSUME graph \in Graphs, NEW d \in Dirs, d = Root \/ d \in Reached, NEW k \in DOMAIN graph[d], ~IsRoot(graph[d][k].to)
  PROVE  graph[d][k].to \in Reached
<1> DEFINE t == graph[d][k].to
<1>1. t \in Dirs
  BY GraphTypes
<1>2. SUFFICES ASSUME NEW S \in SUBSET Dirs, Closed(S) PROVE t \in S
  BY <1>1 DEF Reached
<1>3. d = Root \/ d \in S
  BY <1>2 DEF Reached
<1>4. t \in Leads({Root}) \/ t \in Leads(S)
  BY <1>3 DEF Leads
<1> QED BY <1>2, <1>4 DEF Closed, Agents

LEMMA AppendIs ==
  ASSUME NEW S, NEW s \in Seq(S), NEW x \in S
  PROVE  /\ Append(s, x) \in Seq(S) /\ Len(Append(s, x)) = Len(s) + 1 /\ DOMAIN Append(s, x) = 1..(Len(s) + 1)
         /\ \A k \in DOMAIN s : Append(s, x)[k] = s[k]
         /\ Append(s, x)[Len(s) + 1] = x
         /\ \A k \in DOMAIN Append(s, x) : Append(s, x)[k] = x \/ (k \in DOMAIN s /\ Append(s, x)[k] = s[k])
<1> DEFINE t == Append(s, x)
<1>1. /\ t \in Seq(S) /\ Len(t) = Len(s) + 1 /\ DOMAIN t = 1..(Len(s) + 1)
      /\ t[Len(s) + 1] = x /\ DOMAIN s = 1..Len(s) /\ Len(s) \in Nat
  OBVIOUS
<1>2. \A k \in DOMAIN s : t[k] = s[k]
  OBVIOUS
<1> HIDE DEF t
<1>3. \A k \in DOMAIN t : k = Len(s) + 1 \/ k \in DOMAIN s
  BY <1>1
<1>4. \A k \in DOMAIN t : t[k] = x \/ (k \in DOMAIN s /\ t[k] = s[k])
  <2> TAKE k \in DOMAIN t
  <2>1. CASE k = Len(s) + 1
    BY <1>1, <2>1
  <2>2. CASE k \in DOMAIN s
    BY <1>2, <2>2
  <2> QED BY <1>3, <2>1, <2>2
<1> QED BY <1>1, <1>2, <1>4 DEF t

\* Declaring a name changes what one agent declares.
LEMMA DeclareTypes ==
  ASSUME NEW agents \in Seq(AgentRecords), NEW i \in 0..Len(agents), NEW name \in Names
  PROVE  LET new == Declare(agents, i, name) IN
         /\ new \in Seq(AgentRecords) /\ Len(new) = Len(agents) /\ DOMAIN new = DOMAIN agents
         /\ \A j \in DOMAIN agents : new[j].dir = agents[j].dir /\ new[j].sel = agents[j].sel
         /\ \A j \in DOMAIN agents : \A k \in DOMAIN new[j].declared :
              \/ \E l \in DOMAIN agents[j].declared : new[j].declared[k] = agents[j].declared[l]
              \/ j = i /\ new[j].declared[k] = name
<1> DEFINE new == Declare(agents, i, name)
<1>1. CASE i = 0 \/ Contains(agents[i].declared, name)
  <2>1. new = agents
    BY <1>1 DEF Declare
  <2> QED BY <2>1
<1>2. CASE ~(i = 0 \/ Contains(agents[i].declared, name))
  <2>1. i \in DOMAIN agents /\ agents[i] \in AgentRecords
    BY <1>2
  <2> DEFINE list == Append(agents[i].declared, name)
             one == [agents[i] EXCEPT !.declared = list]
  <2>2. new = [agents EXCEPT ![i] = one]
    BY <1>2 DEF Declare
  <2>3. agents[i].declared \in Seq(Names)
    BY <2>1 DEF AgentRecords
  <2>4. list \in Seq(Names) /\ \A k \in DOMAIN list : list[k] = name \/ (k \in DOMAIN agents[i].declared /\ list[k] = agents[i].declared[k])
    <3> DEFINE was == agents[i].declared
    <3>1. was \in Seq(Names) /\ list = Append(was, name)
      BY <2>3
    <3> HIDE DEF was, list
    <3>2. list \in Seq(Names) /\ \A k \in DOMAIN list : list[k] = name \/ (k \in DOMAIN was /\ list[k] = was[k])
      BY <3>1, AppendIs
    <3> QED BY <3>2 DEF was
  <2>5. one \in AgentRecords /\ one.dir = agents[i].dir /\ one.sel = agents[i].sel /\ one.declared = list
    BY <2>1, <2>4 DEF AgentRecords
  <2> HIDE DEF list, one
  <2>6. new \in Seq(AgentRecords) /\ Len(new) = Len(agents) /\ DOMAIN new = DOMAIN agents
    BY <2>1, <2>2, <2>5
  <2>7. new[i] = one /\ \A j \in DOMAIN agents : j # i => new[j] = agents[j]
    BY <2>1, <2>2
  <2> QED BY <2>1, <2>4, <2>5, <2>6, <2>7
<1> QED BY <1>1, <1>2

\* What is next, and what is after it.
LEMMA AtTheHead ==
  ASSUME WalkTypes, Walking
  PROVE  /\ Next1 = queue[1] /\ To \in Dirs /\ Sel \in Selections /\ Parent \in 0..Len(out) /\ Next1.entry \in Entries
         /\ Tail(queue) \in Seq(Waiting(Len(out)))
         /\ \A q \in DOMAIN Tail(queue) : q + 1 \in DOMAIN queue /\ Tail(queue)[q] = queue[q + 1]
         /\ \A q \in DOMAIN queue : q # 1 => q - 1 \in DOMAIN Tail(queue) /\ Tail(queue)[q - 1] = queue[q]
<1> DEFINE R == Waiting(Len(out))
<1>1. queue \in Seq(R) /\ queue # <<>>
  BY DEF WalkTypes, Walking
<1>0. Len(queue) \in Nat \ {0} /\ DOMAIN queue = 1..Len(queue)
  BY <1>1
<1>2. Next1 = queue[1] /\ Next1 \in R /\ Len(queue) \in Nat \ {0} /\ DOMAIN queue = 1..Len(queue)
  <2>1. Head(queue) = queue[1] /\ 1 \in DOMAIN queue
    BY <1>0, <1>1
  <2>2. queue[1] \in R
    <3> HIDE DEF R
    <3> QED BY <1>1, <2>1
  <2> QED BY <1>0, <2>1, <2>2 DEF Next1
<1>3. Next1.entry \in Entries /\ Parent \in 0..Len(out)
  BY <1>2 DEF Parent, Waiting
<1>4. To \in Dirs /\ Sel \in Selections
  BY <1>3 DEF To, Sel, Entries
<1> HIDE DEF R
<1>5. Tail(queue) \in Seq(R) /\ Len(Tail(queue)) = Len(queue) - 1 /\ DOMAIN Tail(queue) = 1..(Len(queue) - 1)
  BY <1>1, <1>2
<1>6. \A q \in 1..(Len(queue) - 1) : Tail(queue)[q] = queue[q + 1]
  BY <1>1, <1>2
<1>7. \A q \in DOMAIN Tail(queue) : q + 1 \in DOMAIN queue /\ Tail(queue)[q] = queue[q + 1]
  BY <1>2, <1>5, <1>6
<1>8. \A q \in DOMAIN queue : q # 1 => q - 1 \in DOMAIN Tail(queue) /\ Tail(queue)[q - 1] = queue[q]
  <2> SUFFICES ASSUME NEW q \in DOMAIN queue, q # 1
               PROVE  q - 1 \in DOMAIN Tail(queue) /\ Tail(queue)[q - 1] = queue[q]
    OBVIOUS
  <2>1. q - 1 \in 1..(Len(queue) - 1) /\ (q - 1) + 1 = q
    BY <1>2
  <2> QED BY <1>5, <1>6, <2>1
<1> QED BY <1>2, <1>3, <1>4, <1>5, <1>7, <1>8 DEF R

LEMMA DeclarerIs ==
  ASSUME WalkTypes, NEW p \in 0..Len(out)
  PROVE  Declarer(out, p) \in Dirs
<1>1. CASE p = 0
  BY <1>1, DelegateAssumption DEF Declarer
<1>2. CASE p # 0
  <2>1. p \in DOMAIN out /\ out \in Seq(AgentRecords)
    BY <1>2 DEF WalkTypes
  <2>2. out[p] \in AgentRecords
    BY <2>1
  <2> QED BY <1>2, <2>2 DEF Declarer, AgentRecords
<1> QED BY <1>1, <1>2

\* Agents stay as they are but for what they declare.
LEMMA AgentsStay ==
  ASSUME NEW old \in Seq(AgentRecords), NEW new \in Seq(AgentRecords), Len(new) >= Len(old),
         \A j \in DOMAIN old : new[j].dir = old[j].dir /\ new[j].sel = old[j].sel
  PROVE  /\ \A p \in 0..Len(old) : Declarer(new, p) = Declarer(old, p)
         /\ \A p \in 0..Len(old), e \in Entries : LookedAt(old, p, e) => LookedAt(new, p, e)
<1>1. DOMAIN old = 1..Len(old) /\ DOMAIN new = 1..Len(new) /\ Len(old) \in Nat /\ Len(new) \in Nat
  OBVIOUS
<1>2. \A j \in DOMAIN old : j \in DOMAIN new
  BY <1>1
<1>3. \A p \in 0..Len(old) : p # 0 => p \in DOMAIN old
  BY <1>1
<1>4. \A p \in 0..Len(old) : Declarer(new, p) = Declarer(old, p)
  BY <1>3 DEF Declarer
<1>5. \A p \in 0..Len(old), e \in Entries : LookedAt(old, p, e) => LookedAt(new, p, e)
  BY <1>2, <1>4 DEF LookedAt
<1> QED BY <1>4, <1>5

\* What declares a harness reached may hand it its work.
LEMMA DeclaresAnAgent ==
  ASSUME graph \in Graphs, To \in Dirs, Parent \in 0..Len(out), ~Skipped, graph' = graph,
         NEW agents \in Seq(AgentRecords), Parent # 0 => Parent \in DOMAIN agents /\ agents[Parent].dir = out[Parent].dir,
         Parent \in 0..Len(agents),
         \A i, j \in DOMAIN agents : NameOf[agents[i].dir] = NameOf[agents[j].dir] => i = j,
         \A i \in DOMAIN agents : \A k \in DOMAIN agents[i].declared :
           /\ agents[i].declared[k] \notin { NameOf[agents[i].dir], NameOf[Root] }
           /\ \E j \in DOMAIN agents : NameOf[agents[j].dir] = agents[i].declared[k],
         NEW there \in DOMAIN agents, Same(agents[there].dir, To),
         out' = Declare(agents, Parent, NameOf[To])
  PROVE  HandsToAgents'
<1>1. NameOf[To] \in Names
  BY GraphTypes
<1>2. /\ DOMAIN out' = DOMAIN agents
      /\ \A j \in DOMAIN agents : out'[j].dir = agents[j].dir
      /\ \A j \in DOMAIN agents : \A k \in DOMAIN out'[j].declared :
           \/ \E l \in DOMAIN agents[j].declared : out'[j].declared[k] = agents[j].declared[l]
           \/ j = Parent /\ out'[j].declared[k] = NameOf[To]
  BY <1>1, DeclareTypes
<1>3. agents[there].dir \in Dirs
  <2>1. agents[there] \in AgentRecords
    OBVIOUS
  <2> QED BY <2>1 DEF AgentRecords
<1>4. NameOf[agents[there].dir] = NameOf[To]
  BY <1>3, OneHarness
<1>5. NameOf[To] # NameOf[Root]
  BY DEF Skipped, IsRoot
<1>6. \A j \in DOMAIN agents : j = Parent => NameOf[agents[j].dir] # NameOf[To]
  <2> SUFFICES ASSUME NEW j \in DOMAIN agents, j = Parent, NameOf[agents[j].dir] = NameOf[To] PROVE FALSE
    OBVIOUS
  <2>1. j = there
    BY <1>4
  <2>2. Parent # 0
    OBVIOUS
  <2>3. Same(out[Parent].dir, To)
    BY <2>1, <2>2
  <2> QED BY <2>2, <2>3 DEF Skipped, IsOwn
<1> SUFFICES ASSUME NEW i \in DOMAIN agents, NEW k \in DOMAIN out'[i].declared
             PROVE  /\ out'[i].declared[k] \notin { NameOf[agents[i].dir], NameOf[Root] }
                    /\ \E j \in DOMAIN agents : NameOf[agents[j].dir] = out'[i].declared[k]
  BY <1>2 DEF HandsToAgents
<1>7. CASE \E l \in DOMAIN agents[i].declared : out'[i].declared[k] = agents[i].declared[l]
  BY <1>7
<1>8. CASE i = Parent /\ out'[i].declared[k] = NameOf[To]
  BY <1>4, <1>5, <1>6, <1>8
<1> QED BY <1>2, <1>7, <1>8

\* The queue after its head was taken and more was added.
LEMMA QueueGoes ==
  ASSUME NEW S, NEW from \in Seq(S), from # <<>>, NEW more \in Seq(S), NEW to, to = Tail(from) \o more
  PROVE  /\ to \in Seq(S)
         /\ \A q \in DOMAIN from : q # 1 => q - 1 \in DOMAIN to /\ to[q - 1] = from[q]
<1>1. /\ Len(from) \in Nat \ {0} /\ DOMAIN from = 1..Len(from) /\ Len(more) \in Nat /\ DOMAIN more = 1..Len(more)
      /\ Tail(from) \in Seq(S) /\ Len(Tail(from)) = Len(from) - 1
  OBVIOUS
<1>2. \A q \in 1..(Len(from) - 1) : Tail(from)[q] = from[q + 1]
  BY <1>1
<1>3. to \in Seq(S) /\ Len(to) = Len(from) - 1 + Len(more) /\ DOMAIN to = 1..(Len(from) - 1 + Len(more))
  BY <1>1
<1>4. \A q \in 1..(Len(from) - 1 + Len(more)) :
        to[q] = IF q <= Len(from) - 1 THEN Tail(from)[q] ELSE more[q - (Len(from) - 1)]
  BY <1>1
<1>5. ASSUME NEW q \in DOMAIN from, q # 1 PROVE q - 1 \in DOMAIN to /\ to[q - 1] = from[q]
  <2>1. q - 1 \in 1..(Len(from) - 1) /\ (q - 1) + 1 = q /\ q - 1 <= Len(from) - 1 /\ q - 1 \in 1..(Len(from) - 1 + Len(more))
    BY <1>1, <1>5
  <2>2. to[q - 1] = Tail(from)[q - 1]
    BY <1>4, <2>1
  <2>3. Tail(from)[q - 1] = from[q]
    BY <1>2, <2>1
  <2> QED BY <1>3, <2>1, <2>2, <2>3
<1> QED BY <1>3, <1>5

LEMMA MoreWaits ==
  ASSUME NEW S, NEW from \in Seq(S), from # <<>>, NEW more \in Seq(S), NEW m \in DOMAIN more
  PROVE  \E q \in DOMAIN (Tail(from) \o more) : (Tail(from) \o more)[q] = more[m]
<1>1. /\ Len(from) \in Nat \ {0} /\ Len(more) \in Nat /\ DOMAIN more = 1..Len(more)
      /\ Tail(from) \in Seq(S) /\ Len(Tail(from)) = Len(from) - 1
  OBVIOUS
<1> DEFINE q == Len(from) - 1 + m
<1>2. q \in 1..(Len(from) - 1 + Len(more)) /\ q > Len(Tail(from)) /\ q - Len(Tail(from)) = m
  BY <1>1
<1>3. DOMAIN (Tail(from) \o more) = 1..(Len(from) - 1 + Len(more)) /\ (Tail(from) \o more)[q] = more[m]
  BY <1>1, <1>2
<1> QED BY <1>2, <1>3

LEMMA WaitedOrMore ==
  ASSUME NEW S, NEW from \in Seq(S), from # <<>>, NEW more \in Seq(S), NEW q \in DOMAIN (Tail(from) \o more)
  PROVE  \/ \E r \in DOMAIN from : (Tail(from) \o more)[q] = from[r]
         \/ \E m \in DOMAIN more : (Tail(from) \o more)[q] = more[m]
<1>1. /\ Len(from) \in Nat \ {0} /\ DOMAIN from = 1..Len(from) /\ Len(more) \in Nat /\ DOMAIN more = 1..Len(more)
      /\ Tail(from) \in Seq(S) /\ Len(Tail(from)) = Len(from) - 1
  OBVIOUS
<1>2. q \in 1..(Len(from) - 1 + Len(more))
  BY <1>1
<1>3. CASE q <= Len(from) - 1
  <2>1. q + 1 \in DOMAIN from /\ (Tail(from) \o more)[q] = Tail(from)[q] /\ Tail(from)[q] = from[q + 1]
    BY <1>1, <1>2, <1>3
  <2> QED BY <2>1
<1>4. CASE ~(q <= Len(from) - 1)
  <2>1. q - Len(Tail(from)) \in DOMAIN more /\ (Tail(from) \o more)[q] = more[q - Len(Tail(from))]
    BY <1>1, <1>2, <1>4
  <2> QED BY <2>1
<1> QED BY <1>3, <1>4

LEMMA QueueWidens ==
  ASSUME WalkTypes, NEW n \in Nat, n >= Len(out)
  PROVE  queue \in Seq(Waiting(n)) /\ \A q \in DOMAIN queue : queue[q].parent \in 0..Len(out) /\ queue[q].entry \in Entries
<1>1. Len(out) \in Nat /\ queue \in Seq(Waiting(Len(out)))
  BY DEF WalkTypes
<1>2. 0..Len(out) \subseteq 0..n
  BY <1>1
<1>3. Waiting(Len(out)) \subseteq Waiting(n)
  BY <1>2 DEF Waiting
<1>4. \A q \in DOMAIN queue : queue[q] \in Waiting(Len(out))
  BY <1>1
<1>5. Len(queue) \in Nat /\ queue \in [1..Len(queue) -> Waiting(n)]
  BY <1>1, <1>3
<1>6. queue \in Seq(Waiting(n))
  BY <1>5, SeqDef
<1> QED BY <1>4, <1>6 DEF Waiting

\* The head is looked at, and perhaps more is put to the end.
LEMMA HeadIsTaken ==
  ASSUME WalkTypes, WaitsRightly, NoneForgotten, Walking, graph' = graph,
         NEW new \in Seq(AgentRecords), Len(new) >= Len(out),
         \A j \in DOMAIN out : new[j].dir = out[j].dir /\ new[j].sel = out[j].sel,
         NEW more \in Seq(Waiting(Len(new))), NEW list, list = Tail(queue) \o more,
         \A m \in DOMAIN more : Declared(new, more[m]),
         LookedAt(new, Parent, Next1.entry)
  PROVE  /\ list \in Seq(Waiting(Len(new)))
         /\ \A q \in DOMAIN list : Declared(new, list[q])
         /\ \A p \in 0..Len(out) : \A k \in DOMAIN graph[Declarer(out, p)] :
              LET e == graph[Declarer(out, p)][k] IN Waits(list, p, e) \/ LookedAt(new, p, e)
<1>1. /\ \A p \in 0..Len(out) : Declarer(new, p) = Declarer(out, p)
      /\ \A p \in 0..Len(out), e \in Entries : LookedAt(out, p, e) => LookedAt(new, p, e)
  BY AgentsStay DEF WalkTypes
<1> DEFINE R == Waiting(Len(new))
<1>2. Len(out) \in Nat /\ Len(new) \in Nat /\ graph \in Graphs /\ queue # <<>>
  BY DEF WalkTypes, Walking
<1>3. queue \in Seq(R) /\ \A q \in DOMAIN queue : queue[q].parent \in 0..Len(out) /\ queue[q].entry \in Entries
  BY <1>2, QueueWidens
<1> HIDE DEF R
<1>4. /\ list \in Seq(R)
      /\ \A q \in DOMAIN queue : q # 1 => q - 1 \in DOMAIN list /\ list[q - 1] = queue[q]
      /\ \A q \in DOMAIN list : \/ \E r \in DOMAIN queue : list[q] = queue[r]
                               \/ \E m \in DOMAIN more : list[q] = more[m]
  <2>1. more \in Seq(R)
    BY DEF R
  <2>2. queue # <<>> /\ queue \in Seq(R)
    BY <1>2, <1>3
  <2>3. \A q \in DOMAIN queue : q # 1 => q - 1 \in DOMAIN list /\ list[q - 1] = queue[q]
    BY <2>1, <2>2, QueueGoes
  <2>4. list \in Seq(R)
    BY <2>1, <2>2, QueueGoes
  <2>5. \A q \in DOMAIN list : (\E r \in DOMAIN queue : list[q] = queue[r]) \/ (\E m \in DOMAIN more : list[q] = more[m])
    <3> TAKE q \in DOMAIN list
    <3>1. q \in DOMAIN (Tail(queue) \o more)
      OBVIOUS
    <3>2. \/ \E r \in DOMAIN queue : (Tail(queue) \o more)[q] = queue[r]
          \/ \E m \in DOMAIN more : (Tail(queue) \o more)[q] = more[m]
      BY <2>1, <2>2, <3>1, WaitedOrMore, SMTT(60)
    <3> QED BY <3>2
  <2> QED BY <2>3, <2>4, <2>5
<1>5. ASSUME NEW q \in DOMAIN list PROVE Declared(new, list[q])
  <2>1. CASE \E r \in DOMAIN queue : list[q] = queue[r]
    <3>1. PICK r \in DOMAIN queue : list[q] = queue[r]
      BY <2>1
    <3>2. Declared(out, queue[r]) /\ Declarer(new, queue[r].parent) = Declarer(out, queue[r].parent)
      BY <1>1, <1>3 DEF WaitsRightly
    <3> QED BY <3>1, <3>2 DEF Declared
  <2>2. CASE \E m \in DOMAIN more : list[q] = more[m]
    BY <2>2
  <2> QED BY <1>4, <2>1, <2>2
<1>6. ASSUME NEW p \in 0..Len(out), NEW k \in DOMAIN graph[Declarer(out, p)], NEW e, e = graph[Declarer(out, p)][k]
      PROVE  Waits(list, p, e) \/ LookedAt(new, p, e)
  <2>1. e \in Entries
    BY <1>2, <1>6, DeclarerIs, GraphTypes
  <2>2. Waits(queue, p, e) \/ LookedAt(out, p, e)
    BY <1>6 DEF NoneForgotten
  <2>3. ASSUME NEW q \in DOMAIN queue, queue[q].parent = p, queue[q].entry = e
        PROVE  Waits(list, p, e) \/ LookedAt(new, p, e)
    <3>1. CASE q = 1
      BY <2>3, <3>1, AtTheHead DEF Parent
    <3>2. CASE q # 1
      <4>1. q - 1 \in DOMAIN list /\ list[q - 1] = queue[q]
        BY <1>4, <3>2
      <4> QED BY <2>3, <4>1 DEF Waits
    <3> QED BY <3>1, <3>2
  <2> QED BY <1>1, <2>1, <2>2, <2>3 DEF Waits
<1> QED BY <1>4, <1>5, <1>6 DEF R

-----------------------------------------------------------------------------
LEMMA SkipKeeps ==
  ASSUME WalkInv, Skip
  PROVE  WalkInv'
<1>1. /\ WalkTypes /\ WaitsRightly /\ NoneForgotten /\ Walking /\ Skipped
      /\ queue' = Tail(queue) /\ graph' = graph /\ out' = out /\ walk' = walk /\ walk = "walking"
  BY DEF Skip, WalkInv, Walking
<1>2. out \in Seq(AgentRecords) /\ Len(out) \in Nat /\ Tail(queue) = Tail(queue) \o <<>> /\ <<>> \in Seq(Waiting(Len(out)))
  BY <1>1, AtTheHead DEF WalkTypes
<1>3. LookedAt(out, Parent, Next1.entry)
  BY <1>1 DEF Skipped, LookedAt, IsOwn, Declarer, To
<1>4. /\ Tail(queue) \in Seq(Waiting(Len(out)))
      /\ \A q \in DOMAIN Tail(queue) : Declared(out, Tail(queue)[q])
      /\ \A p \in 0..Len(out) : \A k \in DOMAIN graph[Declarer(out, p)] :
           LET e == graph[Declarer(out, p)][k] IN Waits(Tail(queue), p, e) \/ LookedAt(out, p, e)
  <2> DEFINE list == Tail(queue)
             more == <<>>
  <2>1. list = Tail(queue) \o more /\ more \in Seq(Waiting(Len(out))) /\ \A m \in DOMAIN more : Declared(out, more[m])
    BY <1>2
  <2> HIDE DEF list, more
  <2>2. /\ list \in Seq(Waiting(Len(out)))
        /\ \A q \in DOMAIN list : Declared(out, list[q])
        /\ \A p \in 0..Len(out) : \A k \in DOMAIN graph[Declarer(out, p)] :
             LET e == graph[Declarer(out, p)][k] IN Waits(list, p, e) \/ LookedAt(out, p, e)
    <3>1. Len(out) >= Len(out) /\ \A j \in DOMAIN out : out[j].dir = out[j].dir /\ out[j].sel = out[j].sel
      BY <1>2
    <3> QED BY <1>1, <1>2, <1>3, <2>1, <3>1, HeadIsTaken
  <2> QED BY <2>2 DEF list
<1>5. WalkTypes' /\ WaitsRightly' /\ NoneForgotten'
  BY <1>1, <1>4 DEF WalkTypes, WaitsRightly, NoneForgotten, Declared, LookedAt, IsRoot, Same
<1>6. AgentsAreReached' /\ HandsToAgents'
  BY <1>1 DEF WalkInv, AgentsAreReached, HandsToAgents, Reached, Closed, Agents, Leads, IsRoot, Same
<1> QED BY <1>1, <1>5, <1>6 DEF WalkInv

LEMMA MeetKeeps ==
  ASSUME WalkInv, Meet
  PROVE  WalkInv'
<1>1. /\ WalkTypes /\ WaitsRightly /\ NoneForgotten /\ AgentsAreReached /\ HandsToAgents /\ Walking /\ ~Skipped
      /\ queue' = Tail(queue) /\ graph' = graph /\ walk' = walk /\ walk = "walking"
      /\ out' = Declare(out, Parent, NameOf[To]) /\ \E i \in Seen(To) : out[i].sel = Sel
  BY DEF Meet, WalkInv, Walking
<1> DEFINE new == Declare(out, Parent, NameOf[To])
<1>2. To \in Dirs /\ Parent \in 0..Len(out) /\ NameOf[To] \in Names /\ out \in Seq(AgentRecords) /\ graph \in Graphs
  BY <1>1, AtTheHead, GraphTypes DEF WalkTypes
<1>3. /\ new \in Seq(AgentRecords) /\ Len(new) = Len(out) /\ DOMAIN new = DOMAIN out
      /\ \A j \in DOMAIN out : new[j].dir = out[j].dir /\ new[j].sel = out[j].sel
  BY <1>2, DeclareTypes
<1>4. PICK i \in DOMAIN out : Same(out[i].dir, To) /\ out[i].sel = Sel
  BY <1>1 DEF Seen
<1> HIDE DEF new
<1>5. LookedAt(new, Parent, Next1.entry)
  BY <1>3, <1>4 DEF LookedAt, To, Sel
<1>6. /\ Tail(queue) \in Seq(Waiting(Len(new)))
      /\ \A q \in DOMAIN Tail(queue) : Declared(new, Tail(queue)[q])
      /\ \A p \in 0..Len(out) : \A k \in DOMAIN graph[Declarer(out, p)] :
           LET e == graph[Declarer(out, p)][k] IN Waits(Tail(queue), p, e) \/ LookedAt(new, p, e)
  <2> DEFINE list == Tail(queue)
             more == <<>>
  <2>1. list = Tail(queue) \o more /\ more \in Seq(Waiting(Len(new))) /\ \A m \in DOMAIN more : Declared(new, more[m])
    BY <1>1, AtTheHead
  <2>2. Len(new) >= Len(out)
    BY <1>2, <1>3
  <2> HIDE DEF list, more
  <2>3. /\ list \in Seq(Waiting(Len(new)))
        /\ \A q \in DOMAIN list : Declared(new, list[q])
        /\ \A p \in 0..Len(out) : \A k \in DOMAIN graph[Declarer(out, p)] :
             LET e == graph[Declarer(out, p)][k] IN Waits(list, p, e) \/ LookedAt(new, p, e)
    BY <1>1, <1>3, <1>5, <2>1, <2>2, HeadIsTaken
  <2> QED BY <2>3 DEF list
<1>7. \A p \in 0..Len(out) : Declarer(new, p) = Declarer(out, p)
  <2>1. Len(new) >= Len(out)
    BY <1>2, <1>3
  <2> QED BY <1>2, <1>3, <2>1, AgentsStay
<1>8. WalkTypes' /\ WaitsRightly' /\ NoneForgotten'
  <2>0. out' = new
    BY <1>1 DEF new
  <2>1. WalkTypes' /\ WaitsRightly'
    BY <1>1, <1>2, <1>3, <1>6, <2>0 DEF WalkTypes, WaitsRightly, Declared
  <2>2. NoneForgotten'
    <3> SUFFICES ASSUME NEW p \in 0..Len(out), NEW k \in DOMAIN graph[Declarer(new, p)]
                 PROVE  LET e == graph[Declarer(new, p)][k] IN Waits(Tail(queue), p, e) \/ LookedAt(new, p, e)
      BY <1>1, <1>3, <2>0 DEF NoneForgotten, LookedAt, IsRoot, Same
    <3> QED BY <1>6, <1>7
  <2> QED BY <2>1, <2>2
<1>9. AgentsAreReached'
  <2>0. out' = new
    BY <1>1 DEF new
  <2> QED BY <1>1, <1>3, <2>0 DEF AgentsAreReached, Reached, Closed, Agents, Leads, IsRoot, Same
<1>10. HandsToAgents'
  <2>1. Parent # 0 => Parent \in DOMAIN out
    BY <1>2
  <2> QED BY <1>1, <1>2, <1>4, <2>1, DeclaresAnAgent DEF AgentsAreReached, HandsToAgents
<1> QED BY <1>1, <1>8, <1>9, <1>10 DEF WalkInv

\* The harness the head leads to is reached.
LEMMA HeadIsReached ==
  ASSUME WalkTypes, WaitsRightly, AgentsAreReached, Walking, ~Skipped
  PROVE  To \in Reached
<1> DEFINE d == Declarer(out, Parent)
<1>1. graph \in Graphs /\ Parent \in 0..Len(out) /\ d \in Dirs
  BY AtTheHead, DeclarerIs DEF WalkTypes
<1>2. PICK k \in DOMAIN graph[d] : Next1.entry = graph[d][k]
  <2>1. 1 \in DOMAIN queue /\ Next1 = queue[1]
    <3>1. queue # <<>> /\ queue \in Seq(Waiting(Len(out)))
      BY DEF WalkTypes, Walking
    <3> QED BY <3>1, AtTheHead
  <2> QED BY <2>1 DEF WaitsRightly, Declared, Parent
<1>3. d = Root \/ d \in Reached
  <2>1. CASE Parent = 0
    BY <2>1 DEF Declarer
  <2>2. CASE Parent # 0
    <3>1. Parent \in DOMAIN out
      BY <1>1, <2>2 DEF WalkTypes
    <3> QED BY <2>2, <3>1 DEF Declarer, AgentsAreReached
  <2> QED BY <2>1, <2>2
<1>4. ~IsRoot(graph[d][k].to)
  BY <1>2 DEF Skipped, To
<1> HIDE DEF d
<1>5. graph[d][k].to \in Reached
  BY <1>1, <1>3, <1>4, ReachedCloses
<1> QED BY <1>2, <1>5 DEF To

LEMMA ReachKeeps ==
  ASSUME WalkInv, Reach
  PROVE  WalkInv'
<1> DEFINE n == Len(out) + 1
           agent == [ dir |-> To, sel |-> Sel, declared |-> <<>> ]
           agents == Append(out, agent)
           new == Declare(agents, Parent, NameOf[To])
           more == Declares(graph, To, n)
           list == Tail(queue) \o more
<1>1. /\ WalkTypes /\ WaitsRightly /\ NoneForgotten /\ AgentsAreReached /\ HandsToAgents /\ Walking /\ ~Skipped
      /\ queue' = list /\ graph' = graph /\ walk' = walk /\ walk = "walking" /\ out' = new
      /\ Seen(To) = {} /\ Namesakes(To) = {}
  BY DEF Reach, WalkInv, Walking
<1>2. /\ To \in Dirs /\ Sel \in Selections /\ Parent \in 0..Len(out) /\ NameOf[To] \in Names
      /\ out \in Seq(AgentRecords) /\ graph \in Graphs /\ Len(out) \in Nat /\ DOMAIN out = 1..Len(out)
  BY <1>1, AtTheHead, GraphTypes DEF WalkTypes
<1>3. agent \in AgentRecords /\ agent.dir = To /\ agent.sel = Sel /\ agent.declared = <<>>
  BY <1>2 DEF AgentRecords
<1> HIDE DEF agent
<1>4. /\ agents \in Seq(AgentRecords) /\ Len(agents) = n /\ DOMAIN agents = 1..n /\ agents[n] = agent
      /\ \A j \in DOMAIN out : agents[j] = out[j]
      /\ \A j \in DOMAIN agents : j = n \/ j \in DOMAIN out
  <2>1. \A j \in 1..n : j = n \/ j \in DOMAIN out
    BY <1>2
  <2> QED BY <1>2, <1>3, <2>1, AppendIs
<1> HIDE DEF agents
<1>5. Parent \in 0..Len(agents) /\ n \in DOMAIN agents /\ \A p \in 0..Len(out) : p \in 0..Len(agents)
  BY <1>2, <1>4
<1>6. /\ new \in Seq(AgentRecords) /\ Len(new) = n /\ DOMAIN new = DOMAIN agents
      /\ \A j \in DOMAIN agents : new[j].dir = agents[j].dir /\ new[j].sel = agents[j].sel
  <2>1. /\ new \in Seq(AgentRecords) /\ Len(new) = Len(agents) /\ DOMAIN new = DOMAIN agents
        /\ \A j \in DOMAIN agents : new[j].dir = agents[j].dir /\ new[j].sel = agents[j].sel
    <3> HIDE DEF n
    <3> QED BY <1>2, <1>4, <1>5, DeclareTypes
  <2> QED BY <1>4, <2>1
<1> HIDE DEF new
<1>7. /\ \A j \in DOMAIN out : j \in DOMAIN new /\ new[j].dir = out[j].dir /\ new[j].sel = out[j].sel
      /\ new[n].dir = To /\ new[n].sel = Sel
  <2>1. \A j \in DOMAIN out : j \in DOMAIN agents
    BY <1>2, <1>4
  <2> QED BY <1>3, <1>4, <1>5, <1>6, <2>1
<1>8. LookedAt(new, Parent, Next1.entry)
  <2>1. Same(new[n].dir, To)
    BY <1>7 DEF Same
  <2> QED BY <1>5, <1>6, <1>7, <2>1 DEF LookedAt, To, Sel
<1>9. /\ more \in Seq(Waiting(Len(new))) /\ DOMAIN more = DOMAIN graph[To]
      /\ \A m \in DOMAIN more : more[m].parent = n /\ more[m].entry = graph[To][m]
  <2>1. graph[To] \in Seq(Entries) /\ \A k \in DOMAIN graph[To] : graph[To][k] \in Entries
    BY <1>2, GraphTypes
  <2>2. n \in 0..Len(new)
    BY <1>2, <1>6
  <2>3. \A k \in DOMAIN graph[To] : [ entry |-> graph[To][k], parent |-> n ] \in Waiting(Len(new))
    BY <2>1, <2>2 DEF Waiting
  <2>4. more = [k \in DOMAIN graph[To] |-> [ entry |-> graph[To][k], parent |-> n ]]
    BY DEF Declares
  <2>5. DOMAIN graph[To] = 1..Len(graph[To]) /\ Len(graph[To]) \in Nat
    BY <2>1
  <2> HIDE DEF more
  <2>6. more \in [1..Len(graph[To]) -> Waiting(Len(new))]
    BY <2>3, <2>4, <2>5
  <2>7. more \in Seq(Waiting(Len(new)))
    BY <2>5, <2>6, SeqDef
  <2> QED BY <2>4, <2>7
<1> HIDE DEF more
<1>10. Declarer(new, n) = To /\ \A m \in DOMAIN more : Declared(new, more[m])
  <2>1. Declarer(new, n) = To
    BY <1>2, <1>7 DEF Declarer
  <2> QED BY <1>9, <2>1 DEF Declared
<1>11. Len(new) >= Len(out)
  BY <1>2, <1>6
<1> HIDE DEF list
<1>12. /\ list \in Seq(Waiting(Len(new)))
       /\ \A q \in DOMAIN list : Declared(new, list[q])
       /\ \A p \in 0..Len(out) : \A k \in DOMAIN graph[Declarer(out, p)] :
            LET e == graph[Declarer(out, p)][k] IN Waits(list, p, e) \/ LookedAt(new, p, e)
  BY <1>1, <1>6, <1>7, <1>8, <1>9, <1>10, <1>11, HeadIsTaken DEF list
<1>13. \A p \in 0..Len(out) : Declarer(new, p) = Declarer(out, p)
  BY <1>2, <1>6, <1>7, <1>11, AgentsStay
<1>14. WalkTypes' /\ WaitsRightly'
  BY <1>1, <1>2, <1>6, <1>12 DEF WalkTypes, WaitsRightly, Declared
<1>15. NoneForgotten'
  <2> SUFFICES ASSUME NEW p \in 0..n, NEW k \in DOMAIN graph[Declarer(new, p)]
               PROVE  LET e == graph[Declarer(new, p)][k] IN Waits(list, p, e) \/ LookedAt(new, p, e)
    BY <1>1, <1>6 DEF NoneForgotten, LookedAt, IsRoot, Same
  <2>1. CASE p \in 0..Len(out)
    BY <1>12, <1>13, <2>1
  <2>2. CASE p = n
    <3>1. k \in DOMAIN more /\ more[k].parent = p /\ more[k].entry = graph[Declarer(new, p)][k]
      BY <1>9, <1>10, <2>2
    <3>2. \E q \in DOMAIN list : list[q] = more[k]
      <4>1. queue \in Seq(Waiting(Len(new))) /\ queue # <<>> /\ list = Tail(queue) \o more
        BY <1>1, <1>11, QueueWidens DEF Walking, list
      <4>2. more \in Seq(Waiting(Len(new)))
        BY <1>9
      <4>3. \A m \in DOMAIN more : \E q \in DOMAIN list : list[q] = more[m]
        <5> TAKE m \in DOMAIN more
        <5>1. \E q \in DOMAIN (Tail(queue) \o more) : (Tail(queue) \o more)[q] = more[m]
          BY <4>1, <4>2, MoreWaits
        <5> QED BY <5>1 DEF list
      <4> QED BY <3>1, <4>3
    <3> QED BY <3>1, <3>2 DEF Waits
  <2>3. p \in 0..Len(out) \/ p = n
    BY <1>2
  <2> QED BY <2>1, <2>2, <2>3
<1>16. AgentsAreReached'
  <2>1. To \in Reached /\ ~IsRoot(To)
    BY <1>1, HeadIsReached DEF Skipped
  <2>2. \A j \in DOMAIN new : new[j].dir \in Reached /\ ~IsRoot(new[j].dir)
    BY <1>1, <1>4, <1>6, <1>7, <2>1 DEF AgentsAreReached
  <2>3. \A j \in DOMAIN out : NameOf[out[j].dir] # NameOf[To]
    BY <1>1 DEF Namesakes
  <2>4. \A i, j \in DOMAIN new : NameOf[new[i].dir] = NameOf[new[j].dir] => i = j
    BY <1>1, <1>4, <1>6, <1>7, <2>3 DEF AgentsAreReached
  <2> QED BY <1>1, <2>2, <2>4 DEF AgentsAreReached, Reached, Closed, Agents, Leads, IsRoot, Same
<1>17. HandsToAgents'
  <2>1. Parent # 0 => Parent \in DOMAIN agents /\ agents[Parent].dir = out[Parent].dir
    BY <1>2, <1>4
  <2>2. \A j \in DOMAIN out : NameOf[out[j].dir] # NameOf[To]
    BY <1>1 DEF Namesakes
  <2>3. \A i, j \in DOMAIN agents : NameOf[agents[i].dir] = NameOf[agents[j].dir] => i = j
    BY <1>1, <1>3, <1>4, <2>2 DEF AgentsAreReached
  <2>4. \A i \in DOMAIN agents : \A k \in DOMAIN agents[i].declared :
           /\ agents[i].declared[k] \notin { NameOf[agents[i].dir], NameOf[Root] }
           /\ \E j \in DOMAIN agents : NameOf[agents[j].dir] = agents[i].declared[k]
    <3>1. \A j \in DOMAIN out : j \in DOMAIN agents
      BY <1>2, <1>4
    <3> QED BY <1>1, <1>3, <1>4, <3>1 DEF HandsToAgents
  <2>5. Same(agents[n].dir, To) /\ out' = Declare(agents, Parent, NameOf[To])
    BY <1>1, <1>3, <1>4 DEF Same, new
  <2> QED BY <1>1, <1>2, <1>4, <1>5, <2>1, <2>3, <2>4, <2>5, DeclaresAnAgent
<1> QED BY <1>1, <1>14, <1>15, <1>16, <1>17 DEF WalkInv

\* The walk begins, or what there is of it is put away.
Begins ==
  /\ graph \in Graphs /\ out = <<>>
  /\ \/ walk = "walking" /\ queue = Declares(graph, Root, 0)
     \/ walk = "idle" /\ queue = <<>>

LEMMA WalkBegins ==
  ASSUME Begins
  PROVE  WalkInv
<1>0. graph \in Graphs /\ out = <<>>
  BY DEF Begins
<1>1. graph \in [Dirs -> Seq(Entries)] /\ Root \in Dirs
  BY <1>0, DelegateAssumption
<1>2. CASE walk = "walking" /\ queue = Declares(graph, Root, 0)
  <2>1. graph[Root] \in Seq(Entries) /\ DOMAIN graph[Root] = 1..Len(graph[Root]) /\ Len(graph[Root]) \in Nat
    BY <1>1
  <2>2. queue = [k \in DOMAIN graph[Root] |-> [ entry |-> graph[Root][k], parent |-> 0 ]]
    BY <1>2 DEF Declares
  <2>3. \A k \in DOMAIN graph[Root] : [ entry |-> graph[Root][k], parent |-> 0 ] \in Waiting(0)
    BY <2>1 DEF Waiting
  <2>4. queue \in [1..Len(graph[Root]) -> Waiting(0)]
    BY <2>1, <2>2, <2>3
  <2>5. queue \in Seq(Waiting(0))
    BY <2>1, <2>4, SeqDef
  <2>6. out \in Seq(AgentRecords) /\ Len(out) = 0 /\ DOMAIN out = {}
    BY <1>0
  <2>7. WalkTypes
    BY <1>0, <2>5, <2>6 DEF WalkTypes
  <2>8. WaitsRightly
    BY <2>2 DEF WaitsRightly, Declared, Declarer
  <2>9. NoneForgotten
    BY <2>2, <2>6 DEF NoneForgotten, Waits, Declarer
  <2> QED BY <1>2, <2>6, <2>7, <2>8, <2>9 DEF WalkInv, AgentsAreReached, HandsToAgents
<1>3. CASE walk = "idle" /\ queue = <<>>
  <2>1. out \in Seq(AgentRecords) /\ queue \in Seq(Waiting(Len(out))) /\ DOMAIN out = {} /\ DOMAIN queue = {}
    BY <1>0, <1>3
  <2> QED BY <1>0, <1>3, <2>1 DEF WalkInv, WalkTypes, WaitsRightly, AgentsAreReached, HandsToAgents
<1> QED BY <1>2, <1>3 DEF Begins

\* Nothing of it moves, or but the verdict.
LEMMA WalkStays ==
  ASSUME WalkInv, UNCHANGED <<graph, queue, out>>,
         walk' \in {walk, "refused"} \/ (walk = "walking" /\ queue = <<>>)
  PROVE  WalkInv'
<1>1. graph' = graph /\ queue' = queue /\ out' = out
  OBVIOUS
<1>2. WalkTypes' /\ WaitsRightly' /\ AgentsAreReached' /\ HandsToAgents'
  BY <1>1 DEF WalkInv, WalkTypes, WaitsRightly, AgentsAreReached, HandsToAgents, Declared,
       Reached, Closed, Agents, Leads, IsRoot, Same
<1>3. NoneForgotten => NoneForgotten'
  BY <1>1 DEF NoneForgotten, LookedAt, IsRoot, Same
<1> QED BY <1>1, <1>2, <1>3 DEF WalkInv

LEMMA WalkKeeps ==
  ASSUME WalkInv, WalkNext
  PROVE  WalkInv'
<1>1. CASE Skip
  BY <1>1, SkipKeeps
<1>2. CASE Meet
  BY <1>2, MeetKeeps
<1>3. CASE Reach
  BY <1>3, ReachKeeps
<1>4. CASE Refuse \/ CannotResolve
  BY <1>4, WalkStays DEF Refuse, CannotResolve
<1>5. CASE Flat
  BY <1>5, WalkStays DEF Flat
<1> QED BY <1>1, <1>2, <1>3, <1>4, <1>5 DEF WalkNext

-----------------------------------------------------------------------------
\* What the walk found, when it has looked at everything, is all there is to find.
LEMMA NothingIsMissed ==
  ASSUME WalkInv, walk = "flat", NEW p \in 0..Len(out), NEW k \in DOMAIN graph[Declarer(out, p)]
  PROVE  LookedAt(out, p, graph[Declarer(out, p)][k])
<1>1. NoneForgotten /\ queue = <<>>
  BY DEF WalkInv
<1>2. ~Waits(queue, p, graph[Declarer(out, p)][k])
  BY <1>1 DEF Waits
<1> QED BY <1>1, <1>2 DEF NoneForgotten

Found == { d \in Dirs : \E i \in DOMAIN out : Same(out[i].dir, d) }

\* An entry of the root, or of a harness found, is the root, or its own, or found as it says.
LEMMA EntrySettled ==
  ASSUME WalkInv, walk = "flat", NEW d \in Dirs, d = Root \/ d \in Found, NEW k \in DOMAIN graph[d]
  PROVE  LET e == graph[d][k] IN
         IsRoot(e.to) \/ Same(d, e.to) \/ \E j \in DOMAIN out : Same(out[j].dir, e.to) /\ out[j].sel = e.sel
<1>1. WalkTypes /\ graph \in Graphs /\ out \in Seq(AgentRecords) /\ DOMAIN out = 1..Len(out) /\ Len(out) \in Nat
  BY DEF WalkInv, WalkTypes
<1>2. PICK p \in 0..Len(out) : Same(Declarer(out, p), d)
  <2>1. CASE d = Root
    BY <1>1, <2>1 DEF Declarer, Same
  <2>2. CASE d \in Found
    <3>1. PICK i \in DOMAIN out : Same(out[i].dir, d)
      BY <2>2 DEF Found
    <3>2. i \in 0..Len(out) /\ i # 0
      BY <1>1
    <3> QED BY <3>1, <3>2 DEF Declarer
  <2> QED BY <2>1, <2>2
<1> DEFINE c == Declarer(out, p)
<1>3. c \in Dirs
  BY <1>1, DeclarerIs
<1> HIDE DEF c
<1>4. Same(c, d)
  BY <1>2 DEF c
<1>5. k \in DOMAIN graph[c] /\ graph[c][k].sel = graph[d][k].sel /\ Same(graph[c][k].to, graph[d][k].to)
  BY <1>1, <1>3, <1>4, OneHarness
<1>6. graph[c][k].to \in Dirs /\ graph[d][k].to \in Dirs
  BY <1>1, <1>3, <1>5, GraphTypes
<1>7. IsRoot(graph[c][k].to) <=> IsRoot(graph[d][k].to)
  BY <1>1, <1>5, <1>6, OneHarness
<1>8. LookedAt(out, p, graph[c][k])
  BY <1>5, NothingIsMissed DEF c
<1>9. IsRoot(graph[c][k].to) \/ Same(c, graph[c][k].to)
        \/ \E j \in DOMAIN out : Same(out[j].dir, graph[c][k].to) /\ out[j].sel = graph[c][k].sel
  BY <1>8 DEF LookedAt, c
<1> QED BY <1>4, <1>5, <1>7, <1>9 DEF Same

LEMMA ReachedAreFound ==
  ASSUME WalkInv, walk = "flat"
  PROVE  Reached \subseteq Found
<1>1. graph \in Graphs /\ Root \in Dirs
  BY DelegateAssumption DEF WalkInv, WalkTypes
<1>2. ASSUME NEW d \in Dirs, d = Root \/ d \in Found, NEW k \in DOMAIN graph[d], ~IsRoot(graph[d][k].to)
      PROVE  graph[d][k].to \in Found
  <2>1. graph[d][k].to \in Dirs
    BY <1>1, GraphTypes
  <2>2. CASE \E j \in DOMAIN out : Same(out[j].dir, graph[d][k].to)
    BY <2>1, <2>2 DEF Found
  <2>3. CASE Same(d, graph[d][k].to)
    <3>1. d # Root
      BY <1>2, <2>3 DEF IsRoot, Same
    <3>2. d \in Found
      BY <1>2, <3>1
    <3> QED BY <2>1, <2>3, <3>2 DEF Found, Same
  <2> QED BY <1>2, <2>2, <2>3, EntrySettled
<1>3. Agents(Leads({Root})) \subseteq Found
  BY <1>1, <1>2 DEF Agents, Leads
<1>4. Agents(Leads(Found)) \subseteq Found
  BY <1>2 DEF Agents, Leads, Found
<1>5. Found \in SUBSET Dirs /\ Closed(Found)
  BY <1>3, <1>4 DEF Closed, Found
<1> QED BY <1>5 DEF Reached

LEMMA FlatIsRight == WalkInv => FlatDelegates
<1> SUFFICES ASSUME WalkInv, walk = "flat" PROVE OneAgentEach
  BY DEF FlatDelegates, WalkInv
<1>1. WalkTypes /\ AgentsAreReached /\ graph \in Graphs /\ Root \in Dirs
  BY DelegateAssumption DEF WalkInv, WalkTypes
<1>2. \A i \in DOMAIN out : out[i].dir \in Dirs /\ out[i].dir \in Reached /\ ~IsRoot(out[i].dir)
  BY <1>1 DEF AgentsAreReached, Reached
<1>3. Reached \subseteq Found
  BY ReachedAreFound
<1>4. { Identity[out[i].dir] : i \in DOMAIN out } = { Identity[d] : d \in Reached }
  BY <1>2, <1>3 DEF Found, Same
<1>5. \A i, j \in DOMAIN out :
        Identity[out[i].dir] = Identity[out[j].dir] \/ NameOf[out[i].dir] = NameOf[out[j].dir] => i = j
  <2> SUFFICES ASSUME NEW i \in DOMAIN out, NEW j \in DOMAIN out,
                      Identity[out[i].dir] = Identity[out[j].dir] \/ NameOf[out[i].dir] = NameOf[out[j].dir]
               PROVE  i = j
    OBVIOUS
  <2>1. NameOf[out[i].dir] = NameOf[out[j].dir]
    BY <1>1, <1>2, OneHarness DEF Same
  <2> QED BY <1>1, <2>1 DEF AgentsAreReached
<1>6. ASSUME NEW d \in Reached \union {Root}, NEW k \in DOMAIN graph[d], Identity[d] # Identity[graph[d][k].to],
             NEW i \in Seen(graph[d][k].to)
      PROVE  out[i].sel = graph[d][k].sel
  <2> DEFINE e == graph[d][k]
  <2>1. d \in Dirs /\ (d = Root \/ d \in Found)
    BY <1>1, <1>3 DEF Reached
  <2>2. e.to \in Dirs
    BY <1>1, <2>1, GraphTypes
  <2>3. i \in DOMAIN out /\ Same(out[i].dir, e.to)
    BY DEF Seen
  <2>4. ~IsRoot(e.to)
    BY <1>1, <1>2, <2>2, <2>3, OneHarness
  <2>5. PICK j \in DOMAIN out : Same(out[j].dir, e.to) /\ out[j].sel = e.sel
    BY <1>6, <2>1, <2>4, EntrySettled DEF Same
  <2>6. Identity[out[i].dir] = Identity[out[j].dir]
    BY <2>3, <2>5 DEF Same
  <2>7. i = j
    BY <1>5, <2>3, <2>6
  <2> QED BY <2>5, <2>7
<1>7. \A d \in Reached \union {Root} : \A k \in DOMAIN graph[d] : LET e == graph[d][k] IN
        Identity[d] # Identity[e.to] => \A i \in Seen(e.to) : out[i].sel = e.sel
  BY <1>6
<1> QED BY <1>4, <1>5, <1>7 DEF OneAgentEach

-----------------------------------------------------------------------------
\* An export resolves and cleans first, and does neither again.
Does(S) == [ do : S, tool : Tools \union {None} ]
Writes == {"empty", "copy", "artifacts", "instructions", "delegates", "hooks", "scripts", "servers", "manifest", "portable", "package"}

LEMMA ProductGrows ==
  ASSUME NEW m \in Nat, NEW n \in Nat, NEW q \in Nat, q >= n
  PROVE  q * m >= n * m
OBVIOUS

LEMMA ForDoes ==
  ASSUME NEW tools \in Seq(Tools), NEW S, NEW dos \in Seq(S), dos # <<>>
  PROVE  For(tools, dos) \in Seq(Does(S))
<1> DEFINE m == Len(dos)
           n == Len(tools)
<1>1. m \in Nat \ {0} /\ n \in Nat /\ DOMAIN dos = 1..m /\ DOMAIN tools = 1..n
  OBVIOUS
<1>2. \A i \in 1..m : dos[i] \in S
  OBVIOUS
<1>3. \A i \in 1..n : tools[i] \in Tools
  OBVIOUS
<1>4. For(tools, dos) = [k \in 1..(n * m) |-> [ do |-> dos[((k - 1) % m) + 1], tool |-> tools[((k - 1) \div m) + 1] ]]
  BY DEF For
<1> HIDE DEF m, n
<1>5. n * m \in Nat
  BY <1>1
<1>6. ASSUME NEW k \in 1..(n * m) PROVE ((k - 1) % m) + 1 \in 1..m /\ ((k - 1) \div m) + 1 \in 1..n
  <2> DEFINE q == (k - 1) \div m
             r == (k - 1) % m
  <2>1. k - 1 \in Nat /\ k - 1 < n * m
    BY <1>5
  <2>2. q \in Nat /\ r \in 0..(m - 1) /\ k - 1 = q * m + r
    BY <1>1, <2>1
  <2> HIDE DEF q, r
  <2>3. ~(q >= n)
    <3> SUFFICES ASSUME q >= n PROVE FALSE
      OBVIOUS
    <3>1. q * m >= n * m
      BY <1>1, <2>2, ProductGrows
    <3>2. q * m \in Nat
      BY <1>1, <2>2
    <3> QED BY <1>1, <1>5, <2>1, <2>2, <3>1, <3>2
  <2>4. r + 1 \in 1..m /\ q + 1 \in 1..n
    BY <1>1, <2>2, <2>3
  <2> QED BY <2>4 DEF q, r
<1>7. \A k \in 1..(n * m) : [ do |-> dos[((k - 1) % m) + 1], tool |-> tools[((k - 1) \div m) + 1] ] \in Does(S)
  BY <1>2, <1>3, <1>6 DEF Does
<1>8. For(tools, dos) \in [1..(n * m) -> Does(S)]
  BY <1>4, <1>7
<1> QED BY <1>5, <1>8, SeqDef

LEMMA OnceDoes ==
  ASSUME NEW S, NEW dos \in Seq(S)
  PROVE  Once(dos) \in Seq(Does(S))
<1>1. Len(dos) \in Nat /\ DOMAIN dos = 1..Len(dos) /\ \A k \in 1..Len(dos) : dos[k] \in S
  OBVIOUS
<1>2. Once(dos) = [k \in 1..Len(dos) |-> [ do |-> dos[k], tool |-> None ]]
  BY <1>1 DEF Once
<1>3. Once(dos) \in [1..Len(dos) -> Does(S)]
  BY <1>1, <1>2 DEF Does
<1> QED BY <1>1, <1>3, SeqDef

LEMMA Joined ==
  ASSUME NEW T, NEW s \in Seq(T), NEW t \in Seq(T)
  PROVE  s \o t \in Seq(T)
OBVIOUS

LEMMA WritingWrites ==
  ASSUME NEW e \in Requests
  PROVE  Writing(e) \in Seq(Does(Writes))
<1>1. e.tools \in Seq(Tools)
  BY DEF Requests
<1> DEFINE each == <<"empty", "copy", "instructions", "delegates", "hooks", "scripts", "servers", "manifest">>
           per == <<"artifacts", "delegates", "hooks", "servers", "manifest">>
<1>2. CASE e.mode = "each"
  <2>1. each \in Seq(Writes) /\ each # <<>>
    BY DEF Writes
  <2>2. For(e.tools, each) \in Seq(Does(Writes))
    BY <1>1, <2>1, ForDoes
  <2> QED BY <1>2, <2>2 DEF Writing
<1>3. CASE e.mode = "merged"
  <2>1. <<"empty", "copy">> \in Seq(Writes) /\ <<"scripts">> \in Seq(Writes) /\ <<"instructions", "delegates">> \in Seq(Writes)
    BY DEF Writes
  <2>2. <<"hooks", "servers">> \in Seq(Writes) /\ <<"manifest">> \in Seq(Writes) /\ <<"hooks", "servers">> # <<>> /\ <<"manifest">> # <<>>
    BY DEF Writes
  <2>3. Once(<<"empty", "copy">>) \in Seq(Does(Writes)) /\ Once(<<"scripts">>) \in Seq(Does(Writes)) /\ Once(<<"instructions", "delegates">>) \in Seq(Does(Writes))
    BY <2>1, OnceDoes
  <2>4. For(e.tools, <<"hooks", "servers">>) \in Seq(Does(Writes)) /\ For(e.tools, <<"manifest">>) \in Seq(Does(Writes))
    BY <1>1, <2>2, ForDoes
  <2>5. Writing(e) = Once(<<"empty", "copy">>) \o For(e.tools, <<"hooks", "servers">>) \o Once(<<"scripts">>)
                       \o For(e.tools, <<"manifest">>) \o Once(<<"instructions", "delegates">>)
    BY <1>3 DEF Writing
  <2> QED BY <2>3, <2>4, <2>5, Joined
<1>4. CASE e.mode \notin {"each", "merged"}
  <2>1. <<"empty", "copy", "instructions">> \in Seq(Writes) /\ <<"scripts", "portable", "package">> \in Seq(Writes)
    BY DEF Writes
  <2>2. per \in Seq(Writes) /\ per # <<>>
    BY DEF Writes
  <2>3. Once(<<"empty", "copy", "instructions">>) \in Seq(Does(Writes)) /\ Once(<<"scripts", "portable", "package">>) \in Seq(Does(Writes))
    BY <2>1, OnceDoes
  <2>4. For(e.tools, per) \in Seq(Does(Writes))
    BY <1>1, <2>2, ForDoes
  <2>5. Writing(e) = Once(<<"empty", "copy", "instructions">>) \o For(e.tools, per) \o Once(<<"scripts", "portable", "package">>)
    BY <1>4 DEF Writing
  <2> QED BY <2>3, <2>4, <2>5, Joined
<1> QED BY <1>2, <1>3, <1>4

LEMMA PlanBegins ==
  ASSUME NEW e \in Requests
  PROVE  /\ Len(Plan(e)) \in Nat /\ Len(Plan(e)) >= 2
         /\ \A k \in 1..Len(Plan(e)) : (Plan(e)[k].do = "resolve" <=> k = 1) /\ (Plan(e)[k].do = "clean" <=> k = 2)
<1> DEFINE first == Once(<<"resolve", "clean">>)
           rest == Writing(e)
           all == Does(Writes) \union Does({"resolve", "clean"})
<1>1. /\ first = [k \in 1..2 |-> [ do |-> <<"resolve", "clean">>[k], tool |-> None ]]
      /\ first \in Seq(Does({"resolve", "clean"}))
  <2>1. <<"resolve", "clean">> \in Seq({"resolve", "clean"})
    OBVIOUS
  <2>2. first \in Seq(Does({"resolve", "clean"}))
    BY <2>1, OnceDoes
  <2>3. DOMAIN <<"resolve", "clean">> = 1..2
    OBVIOUS
  <2>4. first = [k \in 1..2 |-> [ do |-> <<"resolve", "clean">>[k], tool |-> None ]]
    BY <2>3 DEF Once
  <2> QED BY <2>2, <2>4
<1>2. rest \in Seq(Does(Writes))
  BY WritingWrites
<1>3. Plan(e) = first \o rest
  BY DEF Plan
<1> HIDE DEF rest, all
<1>4. \A k \in DOMAIN rest : rest[k].do \in Writes
  <2>1. \A k \in DOMAIN rest : rest[k] \in Does(Writes)
    BY <1>2
  <2> QED BY <2>1 DEF Does
<1>5. Len(first) = 2 /\ DOMAIN first = 1..2 /\ first[1].do = "resolve" /\ first[2].do = "clean"
  BY <1>1
<1> HIDE DEF first
<1>6. first \in Seq(all) /\ rest \in Seq(all)
  <2>1. Does(Writes) \subseteq all /\ Does({"resolve", "clean"}) \subseteq all
    BY DEF all
  <2>2. Len(first) \in Nat /\ first \in [1..Len(first) -> all]
    BY <1>1, <2>1
  <2>3. Len(rest) \in Nat /\ rest \in [1..Len(rest) -> all]
    BY <1>2, <2>1
  <2> QED BY <2>2, <2>3, SeqDef
<1>7. Len(rest) \in Nat /\ DOMAIN rest = 1..Len(rest) /\ Len(Plan(e)) = 2 + Len(rest)
  <2>1. Len(rest) \in Nat /\ DOMAIN rest = 1..Len(rest)
    BY <1>6
  <2>2. Len(first \o rest) = Len(first) + Len(rest)
    BY <1>6
  <2> QED BY <1>3, <1>5, <2>1, <2>2
<1>8. \A k \in 1..(2 + Len(rest)) : Plan(e)[k] = IF k <= 2 THEN first[k] ELSE rest[k - 2]
  BY <1>3, <1>5, <1>6, <1>7
<1>9. Plan(e)[1].do = "resolve" /\ Plan(e)[2].do = "clean"
  BY <1>5, <1>7, <1>8
<1>10. ASSUME NEW k \in 1..Len(Plan(e)), k > 2 PROVE Plan(e)[k].do \notin {"resolve", "clean"}
  <2>1. k - 2 \in DOMAIN rest /\ Plan(e)[k] = rest[k - 2]
    BY <1>7, <1>8, <1>10
  <2> QED BY <1>4, <2>1 DEF Writes
<1>11. \A k \in 1..Len(Plan(e)) : k = 1 \/ k = 2 \/ k > 2
  BY <1>7
<1> QED BY <1>7, <1>9, <1>10, <1>11

-----------------------------------------------------------------------------
\* What an export found is there until it has cleaned.
OutputInv ==
  /\ status = "exporting" => request \in Exports /\ stage \in 1..Len(Plan(request))
  /\ status = "refused" \/ (status = "exporting" /\ stage <= 2) => packages = before

LEMMA DoingAt ==
  ASSUME OutputInv, NEW do, Doing(do)
  PROVE  /\ request \in Requests /\ stage \in 1..Len(Plan(request)) /\ Len(Plan(request)) \in Nat
         /\ do = "resolve" => stage = 1
         /\ do = "clean" => stage = 2
         /\ do \notin {"resolve", "clean"} => stage > 2
<1>1. request \in Requests /\ stage \in 1..Len(Plan(request)) /\ Plan(request)[stage].do = do
  BY ExportAssumption DEF OutputInv, Doing, Now
<1>2. Len(Plan(request)) \in Nat /\ (do = "resolve" <=> stage = 1) /\ (do = "clean" <=> stage = 2)
  BY <1>1, PlanBegins
<1> QED BY <1>1, <1>2

\* After --clean, or where nothing was written, a step may write.
LEMMA GoesOn ==
  ASSUME OutputInv, NEW do, Doing(do), Onward, request' = request, before' = before,
         do = "resolve" => packages' = packages
  PROVE  OutputInv'
<1>1. /\ request \in Exports /\ stage \in 1..Len(Plan(request)) /\ Len(Plan(request)) \in Nat /\ status = "exporting"
      /\ do = "resolve" => stage = 1
      /\ do # "resolve" => stage >= 2
  BY DoingAt DEF OutputInv, Doing
<1>2. stage' = stage + 1 /\ status' = IF stage = Len(Plan(request)) THEN "done" ELSE status
  BY DEF Onward
<1>3. Plan(request)' = Plan(request)
  BY DEF Plan, Writing, For, Once
<1>4. status' = "exporting" => request' \in Exports /\ stage' \in 1..Len(Plan(request))
  BY <1>1, <1>2
<1>5. status' = "refused" \/ (status' = "exporting" /\ stage' <= 2) => packages' = before'
  BY <1>1, <1>2 DEF OutputInv
<1> QED BY <1>3, <1>4, <1>5 DEF OutputInv

\* A step that gives up writes nothing.
LEMMA GivesUp ==
  ASSUME OutputInv, UNCHANGED <<request, packages, stage, before>>,
         status' \in {"failed", "mispicked"} \/ (status' = "refused" /\ packages = before)
  PROVE  OutputInv'
BY DEF OutputInv

LEMMA OutputStays ==
  ASSUME OutputInv, UNCHANGED <<request, packages, stage, status, before>>
  PROVE  OutputInv'
BY DEF OutputInv, Plan, Writing, For, Once

LEMMA HooksPut == WriteHooks => Doing("hooks") /\ \E files : Put(files)
<1> SUFFICES ASSUME WriteHooks PROVE Doing("hooks") /\ \E files : Put(files)
  OBVIOUS
<1>1. Doing("hooks")
  BY DEF WriteHooks
<1>2. CASE ~Hooked
  BY <1>2 DEF WriteHooks
<1>3. CASE Hooked /\ request.mode = "agentPlugin"
  BY <1>3 DEF WriteHooks
<1>4. CASE Hooked /\ request.mode # "agentPlugin"
  BY <1>4 DEF WriteHooks
<1> QED BY <1>1, <1>2, <1>3, <1>4

LEMMA OutputKeeps ==
  ASSUME OutputInv, ExportNext
  PROVE  OutputInv'
<1> USE DEF launchVars, walkVars
<1>1. CASE request = None /\ AssemblyNext /\ UNCHANGED exportVars
  BY <1>1, OutputStays DEF exportVars
<1>2. CASE ResolveDelegates
  <2>1. Doing("resolve") /\ request' = request /\ packages' = packages /\ before' = before
    BY <1>2 DEF ResolveDelegates
  <2>2. CASE Onward
    BY <2>1, <2>2, GoesOn
  <2>3. CASE status' = "refused" /\ UNCHANGED stage
    <3>1. packages = before
      BY <2>1, DoingAt DEF OutputInv, Doing
    <3> QED BY <2>1, <2>3, <3>1, GivesUp
  <2>4. CASE UNCHANGED <<stage, status>>
    BY <2>1, <2>4, OutputStays
  <2>5. Onward \/ (status' = "refused" /\ UNCHANGED stage) \/ UNCHANGED <<stage, status>>
    <3>1. CASE walk' = "flat"
      BY <1>2, <3>1 DEF ResolveDelegates
    <3>2. CASE walk' = "refused"
      BY <1>2, <3>2 DEF ResolveDelegates
    <3>3. CASE walk' # "flat" /\ walk' # "refused"
      BY <1>2, <3>3 DEF ResolveDelegates
    <3> QED BY <3>1, <3>2, <3>3
  <2> QED BY <2>2, <2>3, <2>4, <2>5
<1>3. CASE ResolveWithout
  BY <1>3, GoesOn DEF ResolveWithout
<1>4. CASE RefuseSource
  <2>1. Doing("resolve") /\ packages = before
    BY <1>4, DoingAt DEF RefuseSource, OutputInv, Doing
  <2> QED BY <1>4, <2>1, GivesUp DEF RefuseSource
<1>5. CASE CleanOutput
  BY <1>5, GoesOn DEF CleanOutput
<1>6. CASE RefuseToClean
  <2>1. Doing("clean") /\ packages = before
    BY <1>6, DoingAt DEF RefuseToClean, OutputInv, Doing
  <2> QED BY <1>6, <2>1, GivesUp DEF RefuseToClean
<1>7. CASE Empty
  BY <1>7, GoesOn DEF Empty
<1>8. ASSUME NEW do, Doing(do), do # "resolve", NEW files, Put(files) PROVE OutputInv'
  BY <1>8, GoesOn DEF Put
<1>9. CASE CopyContent
  BY <1>8, <1>9 DEF CopyContent
<1>10. CASE CopyRefuses
  <2>1. status' \in {"failed", "mispicked"}
    BY <1>10 DEF CopyRefuses
  <2> QED BY <1>10, <2>1, GivesUp DEF CopyRefuses
<1>11. CASE CopyArtifacts
  BY <1>8, <1>11 DEF CopyArtifacts
<1>12. CASE WriteInstructions
  BY <1>8, <1>12 DEF WriteInstructions
<1>13. CASE WriteDelegates
  BY <1>8, <1>13 DEF WriteDelegates
<1>14. CASE WriteHooks
  <2>1. Doing("hooks") /\ \E files : Put(files)
    BY <1>14, HooksPut
  <2> QED BY <1>8, <2>1
<1>15. CASE WriteScripts
  BY <1>8, <1>15 DEF WriteScripts
<1>16. CASE WriteServers
  BY <1>8, <1>16 DEF WriteServers
<1>17. CASE WriteManifest
  BY <1>8, <1>17 DEF WriteManifest
<1>18. CASE WritePortable
  BY <1>8, <1>18 DEF WritePortable
<1>19. CASE WritePackage
  BY <1>8, <1>19 DEF WritePackage
<1>20. CASE ExportFails
  BY <1>20, GivesUp DEF ExportFails
<1>21. CASE StartExport
  <2>1. request' \in Exports /\ request' \in Requests
    BY <1>21, ExportAssumption DEF StartExport
  <2>2. Len(Plan(request')) \in Nat /\ Len(Plan(request')) >= 2
    BY <2>1, PlanBegins
  <2>3. stage' = 1 /\ stage' \in 1..Len(Plan(request')) /\ packages' = before' /\ status' = "exporting"
    BY <1>21, <2>2 DEF StartExport
  <2>4. Plan(request)' = Plan(request')
    BY DEF Plan, Writing, For, Once
  <2> QED BY <2>1, <2>3, <2>4 DEF OutputInv
<1> QED BY <1>1, <1>2, <1>3, <1>4, <1>5, <1>6, <1>7, <1>9, <1>10, <1>11, <1>12, <1>13, <1>14, <1>15, <1>16, <1>17, <1>18,
           <1>19, <1>20, <1>21 DEF ExportNext

LEMMA DelegatesKeep ==
  ASSUME WalkInv, ExportNext
  PROVE  WalkInv'
<1> USE DEF walkVars
<1>1. CASE UNCHANGED walkVars
  BY <1>1, WalkStays
<1>2. CASE WalkNext
  BY <1>2, WalkKeeps
<1>3. Begins' => WalkInv'
  BY WalkBegins, PTL
<1>4. graph \in Graphs
  BY DEF WalkInv, WalkTypes
<1>5. CASE request = None /\ AssemblyNext
  <2>1. CASE AssembleTo \/ CopyArtifact \/ PickNotFound \/ NextSource \/ CommandsAsSkills \/ WriteDelegate \/ WriteSessionHooks \/ CannotWrite
    BY <1>1, <2>1 DEF AssembleTo, CopyArtifact, PickNotFound, NextSource, CommandsAsSkills, WriteDelegate, WriteSessionHooks, CannotWrite
  <2>2. CASE ComposeInstructions
    BY <1>3, <1>4, <2>2 DEF ComposeInstructions, StartWalk, Begins
  <2>3. CASE FlattenDelegates
    BY <1>2, <2>3 DEF FlattenDelegates
  <2>4. CASE LaunchAgain
    BY <1>3, <2>4 DEF LaunchAgain, Begins
  <2> QED BY <1>5, <2>1, <2>2, <2>3, <2>4 DEF AssemblyNext
<1>6. CASE ResolveDelegates
  BY <1>2, <1>6 DEF ResolveDelegates
<1>7. CASE ResolveWithout \/ RefuseSource \/ CleanOutput \/ RefuseToClean \/ Empty \/ CopyRefuses \/ ExportFails
  BY <1>1, <1>7 DEF ResolveWithout, RefuseSource, CleanOutput, RefuseToClean, Empty, CopyRefuses, ExportFails
<1>8. ASSUME NEW files, Put(files) PROVE WalkInv'
  BY <1>1, <1>8 DEF Put
<1>9. CASE CopyContent \/ CopyArtifacts \/ WriteInstructions \/ WriteDelegates
  BY <1>8, <1>9 DEF CopyContent, CopyArtifacts, WriteInstructions, WriteDelegates
<1>10. CASE WriteHooks
  BY <1>8, <1>10, HooksPut
<1>11. CASE WriteScripts \/ WriteServers
  BY <1>8, <1>11 DEF WriteScripts, WriteServers
<1>12. CASE WriteManifest \/ WritePortable \/ WritePackage
  BY <1>8, <1>12 DEF WriteManifest, WritePortable, WritePackage
<1>13. CASE StartExport
  <2>1. request' \in Exports /\ graph' = request'.graph
    BY <1>13 DEF StartExport
  <2>2. graph' \in Graphs
    BY <2>1, ExportAssumption DEF Requests
  <2> QED BY <1>3, <1>13, <2>2 DEF StartExport, Begins
<1> QED BY <1>5, <1>6, <1>7, <1>9, <1>10, <1>11, <1>12, <1>13 DEF ExportNext

LEMMA ExportBegins == ExportInit => WalkInv /\ OutputInv
<1>1. CASE AssemblyInit /\ status = "done"
  BY <1>1, WalkBegins DEF AssemblyInit, Begins, OutputInv
<1>2. CASE /\ request \in Exports /\ graph = request.graph /\ queue = Declares(graph, Root, 0) /\ out = <<>> /\ walk = "walking"
           /\ stage = 1 /\ status = "exporting" /\ before = packages
  <2>1. request \in Requests /\ graph \in Graphs
    BY <1>2, ExportAssumption DEF Requests
  <2>2. WalkInv
    BY <1>2, <2>1, WalkBegins DEF Begins
  <2>3. Len(Plan(request)) \in Nat /\ Len(Plan(request)) >= 2
    BY <2>1, PlanBegins
  <2> QED BY <1>2, <2>2, <2>3 DEF OutputInv
<1> QED BY <1>1, <1>2 DEF ExportInit

\* The walk of the delegates keeps its invariant, and an export that of its output,
\* through every step of a launch that assembles and of an export.
THEOREM ExportInvariant == ExportSpec => [](WalkInv /\ OutputInv)
<1>1. ASSUME WalkInv /\ OutputInv, [ExportNext]_<<assemblyVars, exportVars>> PROVE WalkInv' /\ OutputInv'
  <2>1. CASE ExportNext
    BY <1>1, <2>1, DelegatesKeep, OutputKeeps
  <2>2. CASE UNCHANGED <<assemblyVars, exportVars>>
    BY <1>1, <2>2, WalkStays, OutputStays DEF assemblyVars, exportVars, walkVars
  <2> QED BY <1>1, <2>1, <2>2
<1> QED BY <1>1, ExportBegins, PTL DEF ExportSpec

\* Delegates, flattened, are one agent each, none left out, and hand work to agents:
\* whatever harnesses there are and however they delegate to each other.
THEOREM DelegatesAreFlat == ExportSpec => []FlatDelegates
BY ExportInvariant, FlatIsRight, PTL

\* A refused export has changed nothing in its output directory.
THEOREM RefusalsLeaveOutput == ExportSpec => []RefusedLeavesOutput
<1>1. OutputInv => RefusedLeavesOutput
  BY DEF OutputInv, RefusedLeavesOutput
<1> QED BY <1>1, ExportInvariant, PTL

-----------------------------------------------------------------------------
\* A package of an export is one harness and says what it is only when it is done:
\* while it is written each file waits for the step that brings it, and what is
\* there already may be of an earlier export until the step that empties it is
\* over. PackageInv says so, for the steps that are still ahead.

Step(do, t) == [ do |-> do, tool |-> t ]
\* The package a step writes.
Place(s) == IF request.mode = "each" THEN s.tool ELSE None
\* The steps a package still has before it, from the kth on, and whether the one
\* that empties it is none of them.
Ahead(k, w) == { s \in { Plan(request)[j] : j \in k..Len(Plan(request)) } : Place(s) = w }
Cleared(k, w) == \A s \in Ahead(k, w) : s.do # "empty"

ToolsOf(w) == IF w = None THEN Wants ELSE {w}
Unders == {None} \union Tools

\* The steps that copy artifacts of a kind under a directory, and that write
\* the delegates there.
CopiedKinds(t) == CASE request.mode = "each" -> Adapter(t).kinds [] request.mode = "merged" -> Kinds [] OTHER -> {"skills"}
Copies(s, under, kind) ==
  \/ s.do = "copy" /\ under = None /\ kind \in CopiedKinds(s.tool)
  \/ s.do = "artifacts" /\ s.tool \in Reads("artifacts") /\ under = Adapter(s.tool).under /\ kind \in Adapter(s.tool).kinds \ {"skills"}
Hands(s, under) ==
  s.do = "delegates" /\
    CASE request.mode = "merged" -> under = None
      [] request.mode = "each" -> under = None /\ s.tool \in TakesDelegates
      [] OTHER -> s.tool \in Reads("artifacts") /\ under = Adapter(s.tool).under

DelegatesOf(f) == { [ by |-> "delegate", of |-> out[k].dir ] : k \in { k \in DOMAIN out : Agent(NameOf[out[k].dir]) = f } }
Belongs(w, under, f) == f.kind \in Belong(w, under) /\ Given(f) # Nobody
Handed(w, under, f) == Delegating(w, under) /\ DelegatesOf(f) # {}

\* An artifact is the harness's or a delegate, and is there once the steps that
\* bring it are over.
NothingElse(w, files) ==
  \A under \in Unders, f \in Files : Artifact(under, f) \in DOMAIN files =>
    \/ Belongs(w, under, f) /\ files[Artifact(under, f)] = Given(f)
    \/ Handed(w, under, f) /\ files[Artifact(under, f)] \in DelegatesOf(f)
AllCopied(A, w, files) ==
  \A under \in Unders, f \in Files : Belongs(w, under, f) =>
    Artifact(under, f) \in DOMAIN files \/ \E s \in A : Copies(s, under, f.kind)
AllHanded(A, w, files) ==
  \A under \in Unders, f \in Files : Handed(w, under, f) =>
    \/ Artifact(under, f) \in DOMAIN files /\ files[Artifact(under, f)] \in DelegatesOf(f)
    \/ \E s \in A : Hands(s, under)

Describes(t) == ~(t = OpenCode \/ (request.mode = "agentPlugin" /\ Adapter(t).loads))

\* Of every other file, what it takes to be there.
Allowed(p) ==
  /\ p.kind # "own" /\ (p.kind \in {"hooks", "script", "wrapper"} => Hooked)
  /\ (p.kind = "hooks" => p.name \in Wants)
  /\ (p.kind = "manifest" => \E t \in Wants : Describes(t) /\ p = ManifestFile(t))
  /\ (p.kind \in {"mcp", "serverScript"} => request.servers # "none")
OnlyAllowed(files) == \A p \in DOMAIN files : Allowed(p)

ManifestsSay(A, files) ==
  \A t \in Wants : ManifestFile(t) \in DOMAIN files =>
    \/ files[ManifestFile(t)].of = Pointers(t, files)
    \/ \E s \in A : s.do = "manifest" /\ Describes(s.tool) /\ ManifestFile(s.tool) = ManifestFile(t)
PackageSays(k, files) ==
  PackageManifest \in DOMAIN files =>
    k > Len(Plan(request)) /\ files[PackageManifest].of = { p \in DOMAIN files : p = HookFile(Codex, Codex) }

\* Which tool's step writes the hooks a tool reads.
HooksBy(t) == IF t = Copilot /\ Merging(Claude) THEN Claude ELSE t
ReadsSome(t) == request.mode = "agentPlugin" => t \in Reads("hooks")
HooksThere(A, w, files) ==
  Hooked => \A t \in ToolsOf(w) : ReadsSome(t) =>
    \/ Step("hooks", HooksBy(t)) \in A
    \/ /\ ReadsHooks(t) \in DOMAIN files
       /\ request.mode # "agentPlugin" /\ request.starts /\ t \in {Copilot, Cursor} => Wrapper \in DOMAIN files
ForBoth(files) ==
  Merging(Claude) /\ Merging(Copilot) /\ HookFile(None, Claude) \in DOMAIN files => files[HookFile(None, Claude)] = Made("both")
ScriptOf(i, s) == Path(None, "script", <<Folder(content, i), s>>)
ScriptsThere(A, files) ==
  (\E p \in DOMAIN files : p.kind = "hooks") =>
    \/ \E s \in A : s.do = "scripts"
    \/ \A i \in Hooking(content) : \A s \in content[i].hooks : ScriptOf(i, s) \in DOMAIN files /\ files[ScriptOf(i, s)] = From(i)

Fits(k, w, files) ==
  LET A == Ahead(k, w) IN
  /\ NothingElse(w, files) /\ AllCopied(A, w, files) /\ AllHanded(A, w, files)
  /\ OnlyAllowed(files) /\ ManifestsSay(A, files) /\ PackageSays(k, files)
  /\ HooksThere(A, w, files) /\ ForBoth(files) /\ ScriptsThere(A, files)

PackageInv ==
  /\ DOMAIN packages = Tools \union {None}
  /\ request # None /\ status \in {"exporting", "done"} =>
       /\ request \in Exports /\ content = request.content
       /\ stage \in 1..(Len(Plan(request)) + 1) /\ (status = "done" <=> stage = Len(Plan(request)) + 1)
       /\ \A w \in Packed : Cleared(stage, w) => Fits(stage, w, packages[w])

\* What is ahead of each step.
OrderedAt(k) ==
  LET s == Plan(request)[k]
      w == Place(s)
      A == Ahead(k + 1, w)
  IN /\ w \in Packed
     /\ s.do \in {"hooks", "servers", "manifest", "artifacts"} => s.tool \in Wants
     /\ s.do \in {"portable", "package", "artifacts"} => request.mode = "agentPlugin"
     /\ request.mode = "agentPlugin" /\ s.do = "delegates" => s.tool \in Wants
     /\ s.do = "empty" =>
          /\ Step("copy", w) \in A /\ \A t \in ToolsOf(w) : Step("hooks", t) \in A
          /\ request.mode # "agentPlugin" => Step("delegates", w) \in A
          /\ request.mode = "agentPlugin" => \A t \in Wants : Step("artifacts", t) \in A /\ Step("delegates", t) \in A
     /\ s.do = "copy" => IF request.mode = "agentPlugin" THEN \A t \in Wants : Step("delegates", t) \in A ELSE Step("delegates", w) \in A
     /\ s.do = "artifacts" => Step("delegates", s.tool) \in A
     /\ s.do \in {"hooks", "servers"} => Step("manifest", s.tool) \in A
     /\ s.do = "hooks" => Step("scripts", w) \in A
     /\ s.do = "package" => k = Len(Plan(request))

-----------------------------------------------------------------------------
\* The plan of an export: which step comes at which place.

\* The tools are five.
LEMMA ToolsDiffer ==
  /\ Claude # Codex /\ Claude # Copilot /\ Claude # Cursor /\ Claude # OpenCode
  /\ Codex # Copilot /\ Codex # Cursor /\ Codex # OpenCode
  /\ Copilot # Cursor /\ Copilot # OpenCode /\ Cursor # OpenCode
<1>1. ASSUME NEW a, NEW b, NEW c, NEW d PROVE Cardinality({a, b, c, d}) # 5
  <2>1. IsFiniteSet({}) /\ Cardinality({}) = 0
    BY FS_EmptySet
  <2>2. ASSUME NEW S, IsFiniteSet(S), NEW x PROVE IsFiniteSet(S \union {x}) /\ Cardinality(S \union {x}) \in {Cardinality(S), Cardinality(S) + 1}
    BY <2>2, FS_AddElement
  <2>3. IsFiniteSet({a}) /\ Cardinality({a}) = 1
    BY FS_Singleton
  <2>4. IsFiniteSet({a} \union {b}) /\ Cardinality({a} \union {b}) \in {1, 2}
    BY <2>2, <2>3
  <2>5. IsFiniteSet(({a} \union {b}) \union {c}) /\ Cardinality(({a} \union {b}) \union {c}) \in {1, 2, 3}
    BY <2>2, <2>4
  <2>6. Cardinality((({a} \union {b}) \union {c}) \union {d}) \in {1, 2, 3, 4}
    BY <2>2, <2>5
  <2>7. {a, b, c, d} = (({a} \union {b}) \union {c}) \union {d}
    OBVIOUS
  <2> QED BY <2>6, <2>7
<1>2. Cardinality({Claude, Codex, Copilot, Cursor, OpenCode}) = 5
  BY ExportAssumption DEF Tools
<1>3. ASSUME NEW a, NEW b, NEW c, NEW d, {Claude, Codex, Copilot, Cursor, OpenCode} = {a, b, c, d} PROVE FALSE
  BY <1>1, <1>2, <1>3
<1>4. Claude # Codex
  <2>1. Claude = Codex => {Claude, Codex, Copilot, Cursor, OpenCode} = {Claude, Copilot, Cursor, OpenCode}
    OBVIOUS
  <2> QED BY <1>3, <2>1
<1>5. Claude # Copilot
  <2>1. Claude = Copilot => {Claude, Codex, Copilot, Cursor, OpenCode} = {Claude, Codex, Cursor, OpenCode}
    OBVIOUS
  <2> QED BY <1>3, <2>1
<1>6. Claude # Cursor
  <2>1. Claude = Cursor => {Claude, Codex, Copilot, Cursor, OpenCode} = {Claude, Codex, Copilot, OpenCode}
    OBVIOUS
  <2> QED BY <1>3, <2>1
<1>7. Claude # OpenCode
  <2>1. Claude = OpenCode => {Claude, Codex, Copilot, Cursor, OpenCode} = {Claude, Codex, Copilot, Cursor}
    OBVIOUS
  <2> QED BY <1>3, <2>1
<1>8. Codex # Copilot
  <2>1. Codex = Copilot => {Claude, Codex, Copilot, Cursor, OpenCode} = {Claude, Codex, Cursor, OpenCode}
    OBVIOUS
  <2> QED BY <1>3, <2>1
<1>9. Codex # Cursor
  <2>1. Codex = Cursor => {Claude, Codex, Copilot, Cursor, OpenCode} = {Claude, Codex, Copilot, OpenCode}
    OBVIOUS
  <2> QED BY <1>3, <2>1
<1>10. Codex # OpenCode
  <2>1. Codex = OpenCode => {Claude, Codex, Copilot, Cursor, OpenCode} = {Claude, Codex, Copilot, Cursor}
    OBVIOUS
  <2> QED BY <1>3, <2>1
<1>11. Copilot # Cursor
  <2>1. Copilot = Cursor => {Claude, Codex, Copilot, Cursor, OpenCode} = {Claude, Codex, Copilot, OpenCode}
    OBVIOUS
  <2> QED BY <1>3, <2>1
<1>12. Copilot # OpenCode
  <2>1. Copilot = OpenCode => {Claude, Codex, Copilot, Cursor, OpenCode} = {Claude, Codex, Copilot, Cursor}
    OBVIOUS
  <2> QED BY <1>3, <2>1
<1>13. Cursor # OpenCode
  <2>1. Cursor = OpenCode => {Claude, Codex, Copilot, Cursor, OpenCode} = {Claude, Codex, Copilot, Cursor}
    OBVIOUS
  <2> QED BY <1>3, <2>1
<1> QED BY <1>4, <1>5, <1>6, <1>7, <1>8, <1>9, <1>10, <1>11, <1>12, <1>13

\* The step of a tool's turn, and which step of which turn a position is.
LEMMA ForAt ==
  ASSUME NEW tools \in Seq(Tools), NEW n \in {1, 2, 5, 8}, NEW dos, Len(dos) = n
  PROVE  /\ Len(For(tools, dos)) = Len(tools) * n /\ Len(tools) * n \in Nat
         /\ \A i \in 1..Len(tools), j \in 1..n :
              (i - 1) * n + j \in 1..(Len(tools) * n) /\ For(tools, dos)[(i - 1) * n + j] = Step(dos[j], tools[i])
         /\ \A k \in 1..(Len(tools) * n) : \E i \in 1..Len(tools), j \in 1..n : k = (i - 1) * n + j
<1> DEFINE m == Len(tools)
<1>1. m \in Nat
  OBVIOUS
<1>2. For(tools, dos) = [k \in 1..(m * n) |-> [ do |-> dos[((k - 1) % n) + 1], tool |-> tools[((k - 1) \div n) + 1] ]]
  BY DEF For
<1> HIDE DEF m
<1>3. m * n \in Nat
  BY <1>1
<1>4. Len(For(tools, dos)) = m * n
  BY <1>2, <1>3
<1>5. ASSUME NEW i \in 1..m, NEW j \in 1..n
      PROVE  (i - 1) * n + j \in 1..(m * n) /\ ((((i - 1) * n + j) - 1) % n) + 1 = j /\ ((((i - 1) * n + j) - 1) \div n) + 1 = i
  <2>1. CASE n = 1
    BY <1>1, <2>1
  <2>2. CASE n = 2
    BY <1>1, <2>2
  <2>3. CASE n = 5
    BY <1>1, <2>3
  <2>4. CASE n = 8
    BY <1>1, <2>4
  <2> QED BY <2>1, <2>2, <2>3, <2>4
<1>6. ASSUME NEW k \in 1..(m * n) PROVE \E i \in 1..m, j \in 1..n : k = (i - 1) * n + j
  <2> DEFINE i == ((k - 1) \div n) + 1
             j == ((k - 1) % n) + 1
  <2>1. i \in 1..m /\ j \in 1..n /\ k = (i - 1) * n + j
    <3>1. CASE n = 1
      BY <1>1, <3>1
    <3>2. CASE n = 2
      BY <1>1, <3>2
    <3>3. CASE n = 5
      BY <1>1, <3>3
    <3>4. CASE n = 8
      BY <1>1, <3>4
    <3> QED BY <3>1, <3>2, <3>3, <3>4
  <2> QED BY <2>1
<1>7. \A i \in 1..m, j \in 1..n : For(tools, dos)[(i - 1) * n + j] = Step(dos[j], tools[i])
  <2> TAKE i \in 1..m, j \in 1..n
  <2> DEFINE x == (i - 1) * n + j
  <2>1. x \in 1..(m * n) /\ ((x - 1) % n) + 1 = j /\ ((x - 1) \div n) + 1 = i
    BY <1>5
  <2> HIDE DEF x
  <2>2. For(tools, dos)[x] = [ do |-> dos[((x - 1) % n) + 1], tool |-> tools[((x - 1) \div n) + 1] ]
    BY <1>2, <2>1
  <2>3. For(tools, dos)[x] = Step(dos[j], tools[i])
    BY <2>1, <2>2 DEF Step
  <2> QED BY <2>3 DEF x
<1> QED BY <1>3, <1>4, <1>5, <1>6, <1>7 DEF m

\* What a sequence is that two others are joined to.
Joins(s, t, u) ==
  /\ Len(u) = Len(s) + Len(t)
  /\ \A k \in 1..Len(s) : u[k] = s[k]
  /\ \A k \in 1..Len(t) : u[Len(s) + k] = t[k]

\* Where the elements of a concatenation come from.
LEMMA JoinAt ==
  ASSUME NEW T, NEW s \in Seq(T), NEW t \in Seq(T), NEW u, u = s \o t
  PROVE  u \in Seq(T) /\ Joins(s, t, u)
<1>1. u \in Seq(T)
  OBVIOUS
<1>2. Joins(s, t, u)
  BY DEF Joins
<1> QED BY <1>1, <1>2

AllDos == Writes \union {"resolve", "clean"}

\* A step of For is one of the steps, for one of the tools.
LEMMA ForIn ==
  ASSUME NEW tools \in Seq(Tools), NEW dos \in Seq(AllDos), dos # <<>>
  PROVE  For(tools, dos) \in Seq(Does(AllDos))
BY ForDoes

EachDos == <<"empty", "copy", "instructions", "delegates", "hooks", "scripts", "servers", "manifest">>

\* Tool after tool, eight steps each.
LEMMA EachAt ==
  ASSUME NEW e \in Requests, e.mode = "each"
  PROVE  LET m == Len(e.tools) IN
         /\ m \in Nat /\ Len(Plan(e)) = 2 + m * 8
         /\ \A i \in 1..m, j \in 1..8 : Plan(e)[2 + ((i - 1) * 8 + j)] = Step(EachDos[j], e.tools[i])
         /\ \A k \in 3..Len(Plan(e)) : \E i \in 1..m, j \in 1..8 : k = 2 + ((i - 1) * 8 + j)
<1> DEFINE m == Len(e.tools)
           head == Once(<<"resolve", "clean">>)
           f == For(e.tools, EachDos)
<1>1. e.tools \in Seq(Tools) /\ m \in Nat
  <2>1. e.tools \in Seq(Tools)
    BY DEF Requests
  <2> QED BY <2>1
<1>2. EachDos \in Seq(AllDos) /\ Len(EachDos) = 8 /\ EachDos # <<>>
  BY DEF EachDos, AllDos, Writes
<1>3. Plan(e) = head \o f
  BY DEF Plan, Writing, EachDos
<1>4. head \in Seq(Does(AllDos)) /\ Len(head) = 2
  <2>1. <<"resolve", "clean">> \in Seq(AllDos)
    BY DEF AllDos
  <2>2. Len(head) = 2
    BY DEF Once
  <2> QED BY <2>1, <2>2, OnceDoes
<1>5. f \in Seq(Does(AllDos))
  BY <1>1, <1>2, ForIn
<1> HIDE DEF head
<1>6. /\ Len(f) = m * 8 /\ m * 8 \in Nat
      /\ \A i \in 1..m, j \in 1..8 : (i - 1) * 8 + j \in 1..(m * 8) /\ f[(i - 1) * 8 + j] = Step(EachDos[j], e.tools[i])
      /\ \A k \in 1..(m * 8) : \E i \in 1..m, j \in 1..8 : k = (i - 1) * 8 + j
  <2>1. 8 \in {1, 2, 5, 8}
    OBVIOUS
  <2> QED BY <1>1, <1>2, <2>1, ForAt
<1> HIDE DEF f, m
<1>7. Len(Plan(e)) = 2 + m * 8 /\ \A k \in 1..(m * 8) : Plan(e)[2 + k] = f[k]
  <2>1. Joins(head, f, Plan(e))
    BY <1>3, <1>4, <1>5, JoinAt
  <2> QED BY <1>4, <1>6, <2>1 DEF Joins
<1>8. \A i \in 1..m, j \in 1..8 : Plan(e)[2 + ((i - 1) * 8 + j)] = Step(EachDos[j], e.tools[i])
  BY <1>6, <1>7
<1>9. ASSUME NEW k \in 3..Len(Plan(e)) PROVE \E i \in 1..m, j \in 1..8 : k = 2 + ((i - 1) * 8 + j)
  <2>1. k - 2 \in 1..(m * 8)
    BY <1>6, <1>7
  <2>2. PICK i \in 1..m, j \in 1..8 : k - 2 = (i - 1) * 8 + j
    BY <1>6, <2>1
  <2>3. k = 2 + ((i - 1) * 8 + j)
    BY <1>1, <2>2
  <2> QED BY <2>3
<1> QED BY <1>1, <1>7, <1>8, <1>9 DEF m

\* The order of a package that the tools share.
LEMMA MergedAt ==
  ASSUME NEW e \in Requests, e.mode = "merged"
  PROVE  LET m == Len(e.tools) IN
         /\ m \in Nat /\ Len(Plan(e)) = 7 + m * 3
         /\ Plan(e)[3] = Step("empty", None) /\ Plan(e)[4] = Step("copy", None)
         /\ \A i \in 1..m : /\ Plan(e)[4 + ((i - 1) * 2 + 1)] = Step("hooks", e.tools[i])
                            /\ Plan(e)[4 + ((i - 1) * 2 + 2)] = Step("servers", e.tools[i])
                            /\ Plan(e)[5 + m * 2 + i] = Step("manifest", e.tools[i])
         /\ Plan(e)[5 + m * 2] = Step("scripts", None)
         /\ Plan(e)[6 + m * 3] = Step("instructions", None) /\ Plan(e)[7 + m * 3] = Step("delegates", None)
         /\ \A k \in 3..Len(Plan(e)) :
              \/ k \in {3, 4, 5 + m * 2, 6 + m * 3, 7 + m * 3}
              \/ \E i \in 1..m : k \in {4 + ((i - 1) * 2 + 1), 4 + ((i - 1) * 2 + 2), 5 + m * 2 + i}
<1> DEFINE m == Len(e.tools)
           D == Does(AllDos)
           head == Once(<<"resolve", "clean">>)
           start == Once(<<"empty", "copy">>)
           pairs == For(e.tools, <<"hooks", "servers">>)
           mid == Once(<<"scripts">>)
           lasts == For(e.tools, <<"manifest">>)
           end == Once(<<"instructions", "delegates">>)
<1>1. e.tools \in Seq(Tools) /\ m \in Nat
  <2>1. e.tools \in Seq(Tools)
    BY DEF Requests
  <2> QED BY <2>1
<1>2. Plan(e) = head \o ((((start \o pairs) \o mid) \o lasts) \o end)
  BY DEF Plan, Writing
<1>3. head \in Seq(D) /\ Len(head) = 2
  <2>1. <<"resolve", "clean">> \in Seq(AllDos)
    BY DEF AllDos
  <2>2. head \in Seq(D)
    BY <2>1, OnceDoes
  <2>3. Len(head) = 2
    BY DEF Once
  <2> QED BY <2>2, <2>3
<1>4. start \in Seq(D) /\ Len(start) = 2 /\ start[1] = Step("empty", None) /\ start[2] = Step("copy", None)
  <2>1. <<"empty", "copy">> \in Seq(AllDos)
    BY DEF AllDos, Writes
  <2>2. start \in Seq(D)
    BY <2>1, OnceDoes
  <2>3. Len(start) = 2 /\ start[1] = Step("empty", None) /\ start[2] = Step("copy", None)
    BY DEF Once, Step
  <2> QED BY <2>2, <2>3
<1>5. mid \in Seq(D) /\ Len(mid) = 1 /\ mid[1] = Step("scripts", None)
  <2>1. <<"scripts">> \in Seq(AllDos)
    BY DEF AllDos, Writes
  <2>2. mid \in Seq(D)
    BY <2>1, OnceDoes
  <2>3. Len(mid) = 1 /\ mid[1] = Step("scripts", None)
    BY DEF Once, Step
  <2> QED BY <2>2, <2>3
<1>6. end \in Seq(D) /\ Len(end) = 2 /\ end[1] = Step("instructions", None) /\ end[2] = Step("delegates", None)
  <2>1. <<"instructions", "delegates">> \in Seq(AllDos)
    BY DEF AllDos, Writes
  <2>2. end \in Seq(D)
    BY <2>1, OnceDoes
  <2>3. Len(end) = 2 /\ end[1] = Step("instructions", None) /\ end[2] = Step("delegates", None)
    BY DEF Once, Step
  <2> QED BY <2>2, <2>3
<1>7. /\ pairs \in Seq(D) /\ Len(pairs) = m * 2
      /\ \A i \in 1..m : pairs[(i - 1) * 2 + 1] = Step("hooks", e.tools[i]) /\ pairs[(i - 1) * 2 + 2] = Step("servers", e.tools[i])
      /\ \A k \in 1..(m * 2) : \E i \in 1..m : k \in {(i - 1) * 2 + 1, (i - 1) * 2 + 2}
  <2> DEFINE dos == <<"hooks", "servers">>
  <2>1. dos \in Seq(AllDos) /\ Len(dos) = 2 /\ dos # <<>> /\ 2 \in {1, 2, 5, 8}
    BY DEF AllDos, Writes
  <2>2. dos[1] = "hooks" /\ dos[2] = "servers" /\ pairs = For(e.tools, dos)
    OBVIOUS
  <2> HIDE DEF dos
  <2>3. pairs \in Seq(D)
    BY <1>1, <2>1, <2>2, ForIn
  <2>8. /\ Len(For(e.tools, dos)) = m * 2 /\ m * 2 \in Nat
        /\ \A i \in 1..m, j \in 1..2 : (i - 1) * 2 + j \in 1..(m * 2) /\ For(e.tools, dos)[(i - 1) * 2 + j] = Step(dos[j], e.tools[i])
        /\ \A k \in 1..(m * 2) : \E i \in 1..m, j \in 1..2 : k = (i - 1) * 2 + j
    BY <1>1, <2>1, ForAt
  <2> HIDE DEF pairs
  <2>4. /\ Len(pairs) = m * 2
        /\ \A i \in 1..m, j \in 1..2 : pairs[(i - 1) * 2 + j] = Step(dos[j], e.tools[i])
        /\ \A k \in 1..(m * 2) : \E i \in 1..m, j \in 1..2 : k = (i - 1) * 2 + j
    BY <2>2, <2>8
  <2>5. 1 \in 1..2 /\ 2 \in 1..2 /\ \A j \in 1..2 : j = 1 \/ j = 2
    OBVIOUS
  <2>6. \A k \in 1..(m * 2) : \E i \in 1..m : k \in {(i - 1) * 2 + 1, (i - 1) * 2 + 2}
    BY <2>4, <2>5
  <2>7. \A i \in 1..m : pairs[(i - 1) * 2 + 1] = Step("hooks", e.tools[i]) /\ pairs[(i - 1) * 2 + 2] = Step("servers", e.tools[i])
    BY <2>2, <2>4, <2>5
  <2> QED BY <2>3, <2>4, <2>6, <2>7
<1>8. /\ lasts \in Seq(D) /\ Len(lasts) = m
      /\ \A i \in 1..m : lasts[i] = Step("manifest", e.tools[i])
  <2>1. <<"manifest">> \in Seq(AllDos) /\ Len(<<"manifest">>) = 1 /\ <<"manifest">> # <<>> /\ 1 \in {1, 2, 5, 8}
    BY DEF AllDos, Writes
  <2>2. /\ Len(lasts) = m * 1
        /\ \A i \in 1..m, j \in 1..1 : lasts[(i - 1) * 1 + j] = Step(<<"manifest">>[j], e.tools[i])
    BY <1>1, <2>1, ForAt
  <2>3. lasts \in Seq(D)
    BY <1>1, <2>1, ForIn
  <2> HIDE DEF lasts, m
  <2> QED BY <1>1, <2>2, <2>3
<1> HIDE DEF m, D, head, start, pairs, mid, lasts, end
<1> DEFINE s1 == start \o pairs
           s2 == s1 \o mid
           s3 == s2 \o lasts
           s4 == s3 \o end
<1>9. /\ s1 \in Seq(D) /\ Len(s1) = 2 + m * 2 /\ \A k \in 1..2 : s1[k] = start[k]
      /\ \A k \in 1..(m * 2) : s1[2 + k] = pairs[k]
  <2>1. s1 \in Seq(D) /\ Joins(start, pairs, s1)
    BY <1>4, <1>7, JoinAt
  <2> HIDE DEF s1
  <2> QED BY <1>1, <1>4, <1>7, <2>1 DEF Joins
<1> HIDE DEF s1
<1>10. /\ s2 \in Seq(D) /\ Len(s2) = 3 + m * 2 /\ \A k \in 1..(2 + m * 2) : s2[k] = s1[k]
       /\ s2[3 + m * 2] = mid[1]
  <2>1. s2 \in Seq(D) /\ Joins(s1, mid, s2)
    BY <1>5, <1>9, JoinAt
  <2> HIDE DEF s2
  <2> QED BY <1>1, <1>5, <1>9, <2>1 DEF Joins
<1> HIDE DEF s2
<1>11. /\ s3 \in Seq(D) /\ Len(s3) = 3 + m * 3 /\ \A k \in 1..(3 + m * 2) : s3[k] = s2[k]
       /\ \A k \in 1..m : s3[3 + m * 2 + k] = lasts[k]
  <2>1. s3 \in Seq(D) /\ Joins(s2, lasts, s3)
    BY <1>8, <1>10, JoinAt
  <2> HIDE DEF s3
  <2> QED BY <1>1, <1>8, <1>10, <2>1 DEF Joins
<1> HIDE DEF s3
<1>12. /\ s4 \in Seq(D) /\ Len(s4) = 5 + m * 3 /\ \A k \in 1..(3 + m * 3) : s4[k] = s3[k]
       /\ s4[4 + m * 3] = end[1] /\ s4[5 + m * 3] = end[2]
  <2>1. s4 \in Seq(D) /\ Joins(s3, end, s4)
    BY <1>6, <1>11, JoinAt
  <2> HIDE DEF s4
  <2> QED BY <1>1, <1>6, <1>11, <2>1 DEF Joins
<1>13. Plan(e) = head \o s4
  BY <1>2 DEF s1, s2, s3, s4
<1> HIDE DEF s4
<1>14. Len(Plan(e)) = 7 + m * 3 /\ \A k \in 1..(5 + m * 3) : Plan(e)[2 + k] = s4[k]
  <2>1. Joins(head, s4, Plan(e))
    BY <1>3, <1>12, <1>13, JoinAt
  <2> QED BY <1>1, <1>3, <1>12, <2>1 DEF Joins
<1>15. Plan(e)[3] = Step("empty", None) /\ Plan(e)[4] = Step("copy", None)
  <2>1. Plan(e)[2 + 1] = s4[1] /\ Plan(e)[2 + 2] = s4[2] /\ s4[1] = s3[1] /\ s4[2] = s3[2] /\ s3[1] = s2[1] /\ s3[2] = s2[2]
        /\ s2[1] = s1[1] /\ s2[2] = s1[2]
    BY <1>1, <1>10, <1>11, <1>12, <1>14
  <2> QED BY <1>4, <1>9, <2>1
<1>16. Plan(e)[5 + m * 2] = Step("scripts", None)
  <2> DEFINE y == 3 + m * 2
  <2>3. y \in 1..(5 + m * 3) /\ y \in 1..(3 + m * 3) /\ y \in 1..(3 + m * 2)
    BY <1>1
  <2>4. Plan(e)[2 + y] = s4[y] /\ s4[y] = s3[y] /\ s3[y] = s2[y]
    <3> HIDE DEF y
    <3> QED BY <2>3, <1>11, <1>12, <1>14
  <2>1. Plan(e)[2 + (3 + m * 2)] = s2[3 + m * 2]
    BY <2>4
  <2>2. 5 + m * 2 = 2 + (3 + m * 2)
    BY <1>1
  <2> QED BY <1>5, <1>10, <2>1, <2>2
<1>17. Plan(e)[6 + m * 3] = Step("instructions", None) /\ Plan(e)[7 + m * 3] = Step("delegates", None)
  <2>1. Plan(e)[2 + (4 + m * 3)] = s4[4 + m * 3] /\ Plan(e)[2 + (5 + m * 3)] = s4[5 + m * 3]
    BY <1>1, <1>14
  <2>2. 6 + m * 3 = 2 + (4 + m * 3) /\ 7 + m * 3 = 2 + (5 + m * 3)
    BY <1>1
  <2> QED BY <1>6, <1>12, <2>1, <2>2
<1>18. ASSUME NEW x \in 1..(m * 2) PROVE Plan(e)[4 + x] = pairs[x]
  <2> DEFINE y == 2 + x
  <2>3. y \in 1..(5 + m * 3) /\ y \in 1..(3 + m * 3) /\ y \in 1..(3 + m * 2) /\ y \in 1..(2 + m * 2)
    BY <1>1
  <2>4. s1[y] = pairs[x]
    BY <1>9
  <2> HIDE DEF y
  <2>5. Plan(e)[2 + y] = s4[y] /\ s4[y] = s3[y] /\ s3[y] = s2[y] /\ s2[y] = s1[y]
    BY <2>3, <1>10, <1>11, <1>12, <1>14
  <2>1. Plan(e)[2 + (2 + x)] = pairs[x]
    BY <2>4, <2>5 DEF y
  <2>2. 4 + x = 2 + (2 + x)
    BY <1>1
  <2> QED BY <2>1, <2>2
<1>19. ASSUME NEW i \in 1..m
       PROVE  /\ Plan(e)[4 + ((i - 1) * 2 + 1)] = Step("hooks", e.tools[i])
              /\ Plan(e)[4 + ((i - 1) * 2 + 2)] = Step("servers", e.tools[i])
              /\ Plan(e)[5 + m * 2 + i] = Step("manifest", e.tools[i])
  <2>1. (i - 1) * 2 + 1 \in 1..(m * 2) /\ (i - 1) * 2 + 2 \in 1..(m * 2)
    BY <1>1
  <2> DEFINE y == 3 + m * 2 + i
  <2>4. y \in 1..(5 + m * 3) /\ y \in 1..(3 + m * 3)
    BY <1>1
  <2>5. s3[y] = lasts[i]
    BY <1>11
  <2> HIDE DEF y
  <2>6. Plan(e)[2 + y] = s4[y] /\ s4[y] = s3[y]
    BY <2>4, <1>12, <1>14
  <2>2. Plan(e)[2 + (3 + m * 2 + i)] = lasts[i]
    BY <2>5, <2>6 DEF y
  <2>3. 5 + m * 2 + i = 2 + (3 + m * 2 + i)
    BY <1>1
  <2> QED BY <1>7, <1>8, <1>18, <2>1, <2>2, <2>3
<1>20. ASSUME NEW k \in 3..Len(Plan(e))
       PROVE  \/ k \in {3, 4, 5 + m * 2, 6 + m * 3, 7 + m * 3}
              \/ \E i \in 1..m : k \in {4 + ((i - 1) * 2 + 1), 4 + ((i - 1) * 2 + 2), 5 + m * 2 + i}
  <2>1. CASE k \in 5..(4 + m * 2)
    <3>1. k - 4 \in 1..(m * 2)
      BY <1>1, <2>1
    <3>2. PICK i \in 1..m : k - 4 \in {(i - 1) * 2 + 1, (i - 1) * 2 + 2}
      BY <1>7, <3>1
    <3>3. k \in {4 + ((i - 1) * 2 + 1), 4 + ((i - 1) * 2 + 2)}
      BY <1>1, <3>2
    <3> QED BY <3>3
  <2>2. CASE k \in (6 + m * 2)..(5 + m * 3)
    <3> DEFINE i == k - (5 + m * 2)
    <3>1. i \in 1..m /\ k = 5 + m * 2 + i
      BY <1>1, <2>2
    <3> HIDE DEF i
    <3> QED BY <3>1
  <2>3. k \in {3, 4, 5 + m * 2, 6 + m * 3, 7 + m * 3} \/ k \in 5..(4 + m * 2) \/ k \in (6 + m * 2)..(5 + m * 3)
    BY <1>1, <1>14
  <2> QED BY <2>1, <2>2, <2>3
<1> QED BY <1>1, <1>14, <1>15, <1>16, <1>17, <1>19, <1>20 DEF m

\* The order of an Agent Plugins package.
PerTool == <<"artifacts", "delegates", "hooks", "servers", "manifest">>

\* An Agent Plugins package: the shared steps, those of each tool, and the shared ones at the end.
LEMMA AgentPluginAt ==
  ASSUME NEW e \in Requests, e.mode = "agentPlugin"
  PROVE  LET m == Len(e.tools) IN
         /\ m \in Nat /\ Len(Plan(e)) = 8 + m * 5
         /\ Plan(e)[3] = Step("empty", None) /\ Plan(e)[4] = Step("copy", None) /\ Plan(e)[5] = Step("instructions", None)
         /\ \A i \in 1..m, j \in 1..5 : Plan(e)[5 + ((i - 1) * 5 + j)] = Step(PerTool[j], e.tools[i])
         /\ Plan(e)[6 + m * 5] = Step("scripts", None) /\ Plan(e)[7 + m * 5] = Step("portable", None)
         /\ Plan(e)[8 + m * 5] = Step("package", None)
         /\ \A k \in 3..Len(Plan(e)) :
              \/ k \in {3, 4, 5, 6 + m * 5, 7 + m * 5, 8 + m * 5}
              \/ \E i \in 1..m, j \in 1..5 : k = 5 + ((i - 1) * 5 + j)
<1> DEFINE m == Len(e.tools)
           D == Does(AllDos)
           head == Once(<<"resolve", "clean">>)
           start == Once(<<"empty", "copy", "instructions">>)
           per == For(e.tools, PerTool)
           end == Once(<<"scripts", "portable", "package">>)
<1>1. e.tools \in Seq(Tools) /\ m \in Nat
  <2>1. e.tools \in Seq(Tools)
    BY DEF Requests
  <2> QED BY <2>1
<1>2. Plan(e) = head \o ((start \o per) \o end)
  BY DEF Plan, Writing, PerTool
<1>3. head \in Seq(D) /\ Len(head) = 2
  <2>1. <<"resolve", "clean">> \in Seq(AllDos)
    BY DEF AllDos
  <2>2. head \in Seq(D)
    BY <2>1, OnceDoes
  <2>3. Len(head) = 2
    BY DEF Once
  <2> QED BY <2>2, <2>3
<1>4. start \in Seq(D) /\ Len(start) = 3 /\ start[1] = Step("empty", None) /\ start[2] = Step("copy", None) /\ start[3] = Step("instructions", None)
  <2>1. <<"empty", "copy", "instructions">> \in Seq(AllDos)
    BY DEF AllDos, Writes
  <2>2. start \in Seq(D)
    BY <2>1, OnceDoes
  <2>3. Len(start) = 3 /\ start[1] = Step("empty", None) /\ start[2] = Step("copy", None) /\ start[3] = Step("instructions", None)
    BY DEF Once, Step
  <2> QED BY <2>2, <2>3
<1>5. end \in Seq(D) /\ Len(end) = 3 /\ end[1] = Step("scripts", None) /\ end[2] = Step("portable", None) /\ end[3] = Step("package", None)
  <2>1. <<"scripts", "portable", "package">> \in Seq(AllDos)
    BY DEF AllDos, Writes
  <2>2. end \in Seq(D)
    BY <2>1, OnceDoes
  <2>3. Len(end) = 3 /\ end[1] = Step("scripts", None) /\ end[2] = Step("portable", None) /\ end[3] = Step("package", None)
    BY DEF Once, Step
  <2> QED BY <2>2, <2>3
<1>6. PerTool \in Seq(AllDos) /\ Len(PerTool) = 5 /\ PerTool # <<>> /\ 5 \in {1, 2, 5, 8}
  BY DEF AllDos, Writes, PerTool
<1>7. /\ Len(per) = m * 5 /\ m * 5 \in Nat
      /\ \A i \in 1..m, j \in 1..5 : (i - 1) * 5 + j \in 1..(m * 5) /\ per[(i - 1) * 5 + j] = Step(PerTool[j], e.tools[i])
      /\ \A k \in 1..(m * 5) : \E i \in 1..m, j \in 1..5 : k = (i - 1) * 5 + j
  BY <1>1, <1>6, ForAt
<1>8. per \in Seq(D)
  BY <1>1, <1>6, ForIn
<1> HIDE DEF m, D, head, start, per, end
<1> DEFINE s1 == start \o per
           s2 == s1 \o end
<1>9. /\ s1 \in Seq(D) /\ Len(s1) = 3 + m * 5 /\ \A k \in 1..3 : s1[k] = start[k]
      /\ \A k \in 1..(m * 5) : s1[3 + k] = per[k]
  <2>1. s1 \in Seq(D) /\ Joins(start, per, s1)
    BY <1>4, <1>8, JoinAt
  <2> HIDE DEF s1
  <2> QED BY <1>4, <1>7, <2>1 DEF Joins
<1> HIDE DEF s1
<1>10. /\ s2 \in Seq(D) /\ Len(s2) = 6 + m * 5 /\ \A k \in 1..(3 + m * 5) : s2[k] = s1[k]
       /\ \A k \in 1..3 : s2[3 + m * 5 + k] = end[k]
  <2>1. s2 \in Seq(D) /\ Joins(s1, end, s2)
    BY <1>5, <1>9, JoinAt
  <2> HIDE DEF s2
  <2> QED BY <1>1, <1>5, <1>9, <2>1 DEF Joins
<1>11. Plan(e) = head \o s2
  BY <1>2 DEF s1, s2
<1> HIDE DEF s2
<1>12. Len(Plan(e)) = 8 + m * 5 /\ \A k \in 1..(6 + m * 5) : Plan(e)[2 + k] = s2[k]
  <2>1. Joins(head, s2, Plan(e))
    BY <1>3, <1>10, <1>11, JoinAt
  <2> QED BY <1>1, <1>3, <1>10, <2>1 DEF Joins
<1>13. Plan(e)[3] = Step("empty", None) /\ Plan(e)[4] = Step("copy", None) /\ Plan(e)[5] = Step("instructions", None)
  <2>1. \A k \in 1..3 : Plan(e)[2 + k] = start[k]
    <3> TAKE k \in 1..3
    <3>1. k \in 1..(6 + m * 5) /\ k \in 1..(3 + m * 5)
      BY <1>1
    <3> QED BY <1>9, <1>10, <1>12, <3>1
  <2>2. Plan(e)[2 + 1] = start[1] /\ Plan(e)[2 + 2] = start[2] /\ Plan(e)[2 + 3] = start[3]
    BY <2>1
  <2> QED BY <1>4, <2>2
<1>14. /\ Plan(e)[6 + m * 5] = Step("scripts", None) /\ Plan(e)[7 + m * 5] = Step("portable", None)
       /\ Plan(e)[8 + m * 5] = Step("package", None)
  <2>1. \A k \in 1..3 : Plan(e)[2 + (3 + m * 5 + k)] = end[k]
    <3> TAKE k \in 1..3
    <3>1. 3 + m * 5 + k \in 1..(6 + m * 5)
      BY <1>1
    <3> QED BY <1>10, <1>12, <3>1
  <2>2. Plan(e)[2 + (3 + m * 5 + 1)] = end[1] /\ Plan(e)[2 + (3 + m * 5 + 2)] = end[2] /\ Plan(e)[2 + (3 + m * 5 + 3)] = end[3]
    BY <2>1
  <2>3. 2 + (3 + m * 5 + 1) = 6 + m * 5 /\ 2 + (3 + m * 5 + 2) = 7 + m * 5 /\ 2 + (3 + m * 5 + 3) = 8 + m * 5
    BY <1>1
  <2> QED BY <1>5, <2>2, <2>3
<1>15. ASSUME NEW x \in 1..(m * 5) PROVE Plan(e)[5 + x] = per[x]
  <2> DEFINE y == 3 + x
  <2>1. y \in 1..(6 + m * 5) /\ y \in 1..(3 + m * 5)
    BY <1>1
  <2>2. s1[y] = per[x]
    BY <1>9
  <2> HIDE DEF y
  <2>3. Plan(e)[2 + y] = s2[y] /\ s2[y] = s1[y]
    BY <2>1, <1>10, <1>12
  <2>4. 2 + y = 5 + x
    BY <1>1 DEF y
  <2> QED BY <2>2, <2>3, <2>4
<1>16. ASSUME NEW i \in 1..m, NEW j \in 1..5 PROVE Plan(e)[5 + ((i - 1) * 5 + j)] = Step(PerTool[j], e.tools[i])
  BY <1>7, <1>15
<1>17. ASSUME NEW k \in 3..Len(Plan(e))
       PROVE  \/ k \in {3, 4, 5, 6 + m * 5, 7 + m * 5, 8 + m * 5}
              \/ \E i \in 1..m, j \in 1..5 : k = 5 + ((i - 1) * 5 + j)
  <2>1. CASE k \in 6..(5 + m * 5)
    <3>1. k - 5 \in 1..(m * 5)
      BY <1>1, <2>1
    <3>2. PICK i \in 1..m, j \in 1..5 : k - 5 = (i - 1) * 5 + j
      BY <1>7, <3>1
    <3>3. k = 5 + ((i - 1) * 5 + j)
      BY <1>1, <3>2
    <3> QED BY <3>3
  <2>2. k \in {3, 4, 5, 6 + m * 5, 7 + m * 5, 8 + m * 5} \/ k \in 6..(5 + m * 5)
    BY <1>1, <1>12
  <2> QED BY <2>1, <2>2
<1> QED BY <1>1, <1>12, <1>13, <1>14, <1>16, <1>17 DEF m

-----------------------------------------------------------------------------
\* And which steps come after one, in each mode.

\* A request that an export may have.
Requested == request \in Requests /\ request.tools # <<>>

LEMMA StepIs == \A do, t : Step(do, t).do = do /\ Step(do, t).tool = t
BY DEF Step

\* A step at a later place is ahead.
LEMMA AheadHas ==
  ASSUME NEW k \in Nat, NEW j \in Nat, k <= j, j <= Len(Plan(request)), Len(Plan(request)) \in Nat,
         NEW w, Place(Plan(request)[j]) = w
  PROVE  Plan(request)[j] \in Ahead(k, w)
<1>1. j \in k..Len(Plan(request))
  OBVIOUS
<1> QED BY <1>1 DEF Ahead

\* The tools of a request.
LEMMA WantsAre ==
  ASSUME Requested
  PROVE  /\ Len(request.tools) \in Nat \ {0}
         /\ \A i \in 1..Len(request.tools) : request.tools[i] \in Wants
         /\ \A t \in Wants : t \in Tools /\ \E i \in 1..Len(request.tools) : request.tools[i] = t
         /\ \A t \in Tools : t # None
<1>1. request.tools \in Seq(Tools)
  BY DEF Requested, Requests
<1>2. request.tools # <<>>
  BY DEF Requested
<1>3. Wants = { request.tools[i] : i \in DOMAIN request.tools }
  BY DEF Wants, ToSet
<1>4. Len(request.tools) \in Nat \ {0} /\ DOMAIN request.tools = 1..Len(request.tools) /\ \A i \in 1..Len(request.tools) : request.tools[i] \in Tools
  BY <1>1, <1>2
<1>5. \A t \in Tools : t # None
  BY ExportAssumption
<1> QED BY <1>3, <1>4, <1>5

\* A package for each tool.
LEMMA EachOrdered ==
  ASSUME Requested, request.mode = "each"
  PROVE  /\ \A k \in 3..Len(Plan(request)) : OrderedAt(k)
         /\ \A w \in Packed : ~Cleared(3, w)
<1> DEFINE e == request
           m == Len(e.tools)
<1>1. /\ m \in Nat /\ Len(Plan(e)) = 2 + m * 8
      /\ \A i \in 1..m, j \in 1..8 : Plan(e)[2 + ((i - 1) * 8 + j)] = Step(EachDos[j], e.tools[i])
      /\ \A k \in 3..Len(Plan(e)) : \E i \in 1..m, j \in 1..8 : k = 2 + ((i - 1) * 8 + j)
  BY EachAt DEF Requested
<1>5. m \in Nat /\ Len(Plan(e)) = 2 + m * 8
  BY <1>1
<1>6. \A i \in 1..m, j \in 1..8 : Plan(e)[2 + ((i - 1) * 8 + j)] = Step(EachDos[j], e.tools[i])
  BY <1>1
<1>7. \A s : Place(s) = s.tool
  BY DEF Place
<1> HIDE DEF m
<1>2. ASSUME NEW i \in 1..m, NEW j \in 1..8, NEW q \in 3..(2 + ((i - 1) * 8 + j))
      PROVE  Step(EachDos[j], e.tools[i]) \in Ahead(q, e.tools[i])
  <2> DEFINE spot == 2 + ((i - 1) * 8 + j)
  <2>1. spot \in Nat /\ q \in Nat /\ q <= spot /\ spot <= Len(Plan(e)) /\ Len(Plan(e)) \in Nat
    BY <1>5
  <2>2. Plan(e)[spot] = Step(EachDos[j], e.tools[i]) /\ Place(Plan(e)[spot]) = e.tools[i]
    BY <1>6, <1>7, StepIs
  <2> HIDE DEF spot
  <2>3. Plan(e)[spot] \in Ahead(q, e.tools[i])
    BY <2>1, <2>2, AheadHas
  <2> QED BY <2>2, <2>3
<1>3. ASSUME NEW k \in 3..Len(Plan(e)) PROVE OrderedAt(k)
  <2>1. PICK i \in 1..m, j \in 1..8 : k = 2 + ((i - 1) * 8 + j)
    BY <1>1
  <2> DEFINE t == e.tools[i]
             A == Ahead(k + 1, t)
  <2>2. Plan(e)[k] = Step(EachDos[j], t) /\ Place(Plan(e)[k]) = t
    <3>1. Plan(e)[k] = Step(EachDos[j], t)
      BY <1>6, <2>1
    <3>2. Step(EachDos[j], t).tool = t
      BY StepIs
    <3> HIDE DEF t
    <3> QED BY <1>7, <3>1, <3>2
  <2>3. t \in Wants /\ t # None
    BY WantsAre DEF m
  <2>4. \A b \in 1..8 : j < b => Step(EachDos[b], t) \in A
    <3> TAKE b \in 1..8
    <3> HAVE j < b
    <3>1. k + 1 \in 3..(2 + ((i - 1) * 8 + b))
      BY <1>5, <2>1
    <3> QED BY <1>2, <3>1
  <2>5. ToolsOf(t) = {t} /\ t \in Packed
    BY <2>3 DEF ToolsOf, Packed
  <2>6. EachDos[1] = "empty" /\ EachDos[2] = "copy" /\ EachDos[3] = "instructions" /\ EachDos[4] = "delegates"
        /\ EachDos[5] = "hooks" /\ EachDos[6] = "scripts" /\ EachDos[7] = "servers" /\ EachDos[8] = "manifest"
    BY DEF EachDos
  <2>7. Plan(e)[k].do = EachDos[j] /\ Plan(e)[k].tool = t
    BY <2>2, StepIs
  <2> HIDE DEF t, A
  <2>13. j = 1 => Step("copy", t) \in A /\ Step("hooks", t) \in A /\ Step("delegates", t) \in A
    <3>1. 2 \in 1..8 /\ 4 \in 1..8 /\ 5 \in 1..8 /\ 1 < 2 /\ 1 < 4 /\ 1 < 5
      OBVIOUS
    <3> QED BY <2>4, <2>6, <3>1
  <2>14. j = 2 => Step("delegates", t) \in A
    <3>1. 4 \in 1..8 /\ 2 < 4
      OBVIOUS
    <3> QED BY <2>4, <2>6, <3>1
  <2>15. j \in {5, 7} => Step("manifest", t) \in A
    <3>1. 8 \in 1..8 /\ 5 < 8 /\ 7 < 8
      OBVIOUS
    <3> QED BY <2>4, <2>6, <3>1
  <2>16. j = 5 => Step("scripts", t) \in A
    <3>1. 6 \in 1..8 /\ 5 < 6
      OBVIOUS
    <3> QED BY <2>4, <2>6, <3>1
  <2>17. j = 1 \/ j = 2 \/ j = 3 \/ j = 4 \/ j = 5 \/ j = 6 \/ j = 7 \/ j = 8
    OBVIOUS
  <2>18. /\ EachDos[j] = "empty" => j = 1
         /\ EachDos[j] = "copy" => j = 2
         /\ EachDos[j] \in {"hooks", "servers"} => j \in {5, 7}
         /\ EachDos[j] = "hooks" => j = 5
    BY <2>6, <2>17
  <2>8. Plan(e)[k].do \in {"empty", "copy", "instructions", "delegates", "hooks", "scripts", "servers", "manifest"}
    BY <2>6, <2>7, <2>17
  <2>9. Plan(e)[k].do = "empty" => Step("copy", t) \in A /\ Step("hooks", t) \in A /\ Step("delegates", t) \in A
    BY <2>7, <2>13, <2>14, <2>15, <2>16, <2>18
  <2>10. Plan(e)[k].do = "copy" => Step("delegates", t) \in A
    BY <2>7, <2>13, <2>14, <2>15, <2>16, <2>18
  <2>11. Plan(e)[k].do \in {"hooks", "servers"} => Step("manifest", t) \in A
    BY <2>7, <2>13, <2>14, <2>15, <2>16, <2>18
  <2>12. Plan(e)[k].do = "hooks" => Step("scripts", t) \in A
    BY <2>7, <2>13, <2>14, <2>15, <2>16, <2>18
  <2> QED BY <2>2, <2>3, <2>5, <2>7, <2>8, <2>9, <2>10, <2>11, <2>12 DEF OrderedAt, A
<1>4. ASSUME NEW w \in Packed PROVE ~Cleared(3, w)
  <2>1. PICK i \in 1..m : w = e.tools[i]
    BY <1>4, WantsAre DEF Packed, m
  <2>2. 3 \in 3..(2 + ((i - 1) * 8 + 1)) /\ 1 \in 1..8
    BY <1>5, <2>1
  <2>3. Step(EachDos[1], e.tools[i]) \in Ahead(3, w)
    BY <1>2, <2>1, <2>2
  <2> QED BY <2>3 DEF Cleared, Step, EachDos
<1> QED BY <1>3, <1>4

\* One package that all share.
LEMMA MergedOrdered ==
  ASSUME Requested, request.mode = "merged"
  PROVE  /\ \A k \in 3..Len(Plan(request)) : OrderedAt(k)
         /\ \A w \in Packed : ~Cleared(3, w)
<1> DEFINE e == request
           m == Len(e.tools)
<1>1. /\ m \in Nat /\ Len(Plan(e)) = 7 + m * 3
      /\ Plan(e)[3] = Step("empty", None) /\ Plan(e)[4] = Step("copy", None)
      /\ \A i \in 1..m : /\ Plan(e)[4 + ((i - 1) * 2 + 1)] = Step("hooks", e.tools[i])
                         /\ Plan(e)[4 + ((i - 1) * 2 + 2)] = Step("servers", e.tools[i])
                         /\ Plan(e)[5 + m * 2 + i] = Step("manifest", e.tools[i])
      /\ Plan(e)[5 + m * 2] = Step("scripts", None)
      /\ Plan(e)[6 + m * 3] = Step("instructions", None) /\ Plan(e)[7 + m * 3] = Step("delegates", None)
      /\ \A k \in 3..Len(Plan(e)) :
           \/ k \in {3, 4, 5 + m * 2, 6 + m * 3, 7 + m * 3}
           \/ \E i \in 1..m : k \in {4 + ((i - 1) * 2 + 1), 4 + ((i - 1) * 2 + 2), 5 + m * 2 + i}
  BY MergedAt DEF Requested
<1>2. \A s : Place(s) = None
  BY DEF Place
<1>3. Packed = {None} /\ ToolsOf(None) = Wants
  BY DEF Packed, ToolsOf
<1>11. m \in Nat /\ Len(Plan(e)) = 7 + m * 3
  BY <1>1
<1>12. \A i \in 1..m : /\ Plan(e)[4 + ((i - 1) * 2 + 1)] = Step("hooks", e.tools[i])
                     /\ Plan(e)[4 + ((i - 1) * 2 + 2)] = Step("servers", e.tools[i])
                     /\ Plan(e)[5 + m * 2 + i] = Step("manifest", e.tools[i])
  BY <1>1
<1> HIDE DEF m
<1>4. ASSUME NEW q \in Nat, NEW j \in Nat, q <= j, j <= Len(Plan(e)) PROVE Plan(e)[j] \in Ahead(q, None)
  <2>1. Len(Plan(e)) \in Nat
    BY <1>1
  <2> QED BY <1>2, <1>4, <2>1, AheadHas
<1>5. ASSUME NEW k \in 3..Len(Plan(e)), NEW s, Plan(e)[k] = s
      PROVE  /\ k <= 4 + m * 2 => Step("scripts", None) \in Ahead(k + 1, None) /\ \A i \in 1..m : Step("manifest", e.tools[i]) \in Ahead(k + 1, None)
             /\ k <= 6 + m * 3 => Step("delegates", None) \in Ahead(k + 1, None)
             /\ k = 3 => Step("copy", None) \in Ahead(k + 1, None) /\ \A i \in 1..m : Step("hooks", e.tools[i]) \in Ahead(k + 1, None)
  <2>1. ASSUME k <= 4 + m * 2 PROVE Step("scripts", None) \in Ahead(k + 1, None) /\ \A i \in 1..m : Step("manifest", e.tools[i]) \in Ahead(k + 1, None)
    <3>1. k + 1 \in Nat /\ 5 + m * 2 \in Nat /\ k + 1 <= 5 + m * 2 /\ 5 + m * 2 <= Len(Plan(e))
      BY <1>1, <2>1
    <3>2. Step("scripts", None) \in Ahead(k + 1, None)
      BY <1>1, <1>4, <3>1
    <3>3. ASSUME NEW i \in 1..m PROVE Step("manifest", e.tools[i]) \in Ahead(k + 1, None)
      <4>1. 5 + m * 2 + i \in Nat /\ k + 1 <= 5 + m * 2 + i /\ 5 + m * 2 + i <= Len(Plan(e))
        BY <1>11, <3>1
      <4>2. Plan(e)[5 + m * 2 + i] \in Ahead(k + 1, None)
        BY <1>4, <3>1, <4>1
      <4> QED BY <1>1, <4>2
    <3> QED BY <3>2, <3>3
  <2>2. ASSUME k <= 6 + m * 3 PROVE Step("delegates", None) \in Ahead(k + 1, None)
    <3>1. k + 1 \in Nat /\ 7 + m * 3 \in Nat /\ k + 1 <= 7 + m * 3 /\ 7 + m * 3 <= Len(Plan(e))
      BY <1>1, <2>2
    <3> QED BY <1>1, <1>4, <3>1
  <2>3. ASSUME k = 3 PROVE Step("copy", None) \in Ahead(k + 1, None) /\ \A i \in 1..m : Step("hooks", e.tools[i]) \in Ahead(k + 1, None)
    <3>1. k + 1 = 4 /\ 4 \in Nat /\ 4 <= Len(Plan(e))
      BY <1>1, <2>3
    <3>2. Step("copy", None) \in Ahead(4, None)
      BY <1>1, <1>4, <3>1
    <3>3. ASSUME NEW i \in 1..m PROVE Step("hooks", e.tools[i]) \in Ahead(4, None)
      <4>1. 4 + ((i - 1) * 2 + 1) \in Nat /\ 4 <= 4 + ((i - 1) * 2 + 1) /\ 4 + ((i - 1) * 2 + 1) <= Len(Plan(e))
        BY <1>1
      <4>2. Plan(e)[4 + ((i - 1) * 2 + 1)] \in Ahead(4, None)
        BY <1>4, <3>1, <4>1
      <4> QED BY <1>1, <4>2
    <3> QED BY <3>1, <3>2, <3>3
  <2> QED BY <2>1, <2>2, <2>3
<1>6. ASSUME NEW k \in 3..Len(Plan(e)) PROVE OrderedAt(k)
  <2> DEFINE A == Ahead(k + 1, None)
  <2>0. \A t \in Wants : t \in Tools /\ t # None /\ \E i \in 1..m : e.tools[i] = t
    BY WantsAre DEF m
  <2>1. CASE k = 3
    <3>1. Plan(e)[k] = Step("empty", None)
      BY <1>1, <2>1
    <3>2. Step("copy", None) \in A /\ Step("delegates", None) \in A /\ \A i \in 1..m : Step("hooks", e.tools[i]) \in A
      BY <1>1, <1>5, <2>1
    <3>3. Plan(e)[k].do = "empty" /\ Place(Plan(e)[k]) = None
      BY <1>2, <3>1 DEF Step
    <3>4. \A t \in Wants : Step("hooks", t) \in A
      BY <2>0, <3>2
    <3> HIDE DEF A
    <3> QED BY <1>3, <3>2, <3>3, <3>4 DEF OrderedAt, A
  <2>2. CASE k = 4
    <3>1. Plan(e)[k].do = "copy" /\ Place(Plan(e)[k]) = None
      BY <1>1, <1>2, <2>2 DEF Step
    <3>2. Step("delegates", None) \in A
      BY <1>1, <1>5, <2>2
    <3> HIDE DEF A
    <3> QED BY <1>3, <3>1, <3>2 DEF OrderedAt, A
  <2>3. CASE k \in {5 + m * 2, 6 + m * 3, 7 + m * 3}
    <3>1. Plan(e)[k].do \in {"scripts", "instructions", "delegates"} /\ Place(Plan(e)[k]) = None
      <4>1. Plan(e)[k] = Step("scripts", None) \/ Plan(e)[k] = Step("instructions", None) \/ Plan(e)[k] = Step("delegates", None)
        BY <1>1, <2>3
      <4> QED BY <1>2, <4>1, StepIs
    <3> QED BY <1>3, <3>1 DEF OrderedAt
  <2>4. CASE \E i \in 1..m : k \in {4 + ((i - 1) * 2 + 1), 4 + ((i - 1) * 2 + 2)}
    <3>1. PICK i \in 1..m : k \in {4 + ((i - 1) * 2 + 1), 4 + ((i - 1) * 2 + 2)}
      BY <2>4
    <3>2. k <= 4 + m * 2
      BY <1>1, <3>1
    <3>3. Plan(e)[k].do \in {"hooks", "servers"} /\ Plan(e)[k].tool = e.tools[i] /\ Place(Plan(e)[k]) = None
      BY <1>2, <1>12, <3>1, StepIs
    <3>4. Step("scripts", None) \in A /\ Step("manifest", e.tools[i]) \in A
      BY <1>5, <3>2
    <3>5. e.tools[i] \in Wants
      BY WantsAre DEF m
    <3> HIDE DEF A
    <3> QED BY <1>3, <3>3, <3>4, <3>5 DEF OrderedAt, A
  <2>5. CASE \E i \in 1..m : k = 5 + m * 2 + i
    <3>1. PICK i \in 1..m : k = 5 + m * 2 + i
      BY <2>5
    <3>2. Plan(e)[k].do = "manifest" /\ Plan(e)[k].tool = e.tools[i] /\ Place(Plan(e)[k]) = None
      <4>1. Plan(e)[k] = Step("manifest", e.tools[i])
        BY <1>12, <3>1
      <4> QED BY <1>2, <4>1, StepIs
    <3>3. e.tools[i] \in Wants
      BY WantsAre DEF m
    <3> QED BY <1>3, <3>2, <3>3 DEF OrderedAt
  <2> QED BY <1>1, <2>1, <2>2, <2>3, <2>4, <2>5
<1>7. ASSUME NEW w \in Packed PROVE ~Cleared(3, w)
  <2>1. 3 \in Nat /\ 3 <= 3 /\ 3 <= Len(Plan(e))
    BY <1>11
  <2>2. Plan(e)[3] \in Ahead(3, None)
    BY <1>4, <2>1
  <2>3. Plan(e)[3].do = "empty"
    BY <1>1, StepIs
  <2> QED BY <1>3, <2>2, <2>3 DEF Cleared
<1> QED BY <1>6, <1>7

\* An Agent Plugins package.
LEMMA AgentPluginOrdered ==
  ASSUME Requested, request.mode = "agentPlugin"
  PROVE  /\ \A k \in 3..Len(Plan(request)) : OrderedAt(k)
         /\ \A w \in Packed : ~Cleared(3, w)
<1> DEFINE e == request
           m == Len(e.tools)
<1>1. /\ m \in Nat /\ Len(Plan(e)) = 8 + m * 5
      /\ Plan(e)[3] = Step("empty", None) /\ Plan(e)[4] = Step("copy", None) /\ Plan(e)[5] = Step("instructions", None)
      /\ \A i \in 1..m, j \in 1..5 : Plan(e)[5 + ((i - 1) * 5 + j)] = Step(PerTool[j], e.tools[i])
      /\ Plan(e)[6 + m * 5] = Step("scripts", None) /\ Plan(e)[7 + m * 5] = Step("portable", None)
      /\ Plan(e)[8 + m * 5] = Step("package", None)
      /\ \A k \in 3..Len(Plan(e)) :
           \/ k \in {3, 4, 5, 6 + m * 5, 7 + m * 5, 8 + m * 5}
           \/ \E i \in 1..m, j \in 1..5 : k = 5 + ((i - 1) * 5 + j)
  BY AgentPluginAt DEF Requested
<1>2. \A s : Place(s) = None
  BY DEF Place
<1>3. Packed = {None} /\ ToolsOf(None) = Wants
  BY DEF Packed, ToolsOf
<1>11. m \in Nat /\ Len(Plan(e)) = 8 + m * 5
  BY <1>1
<1>12. \A i \in 1..m, j \in 1..5 : Plan(e)[5 + ((i - 1) * 5 + j)] = Step(PerTool[j], e.tools[i])
  BY <1>1
<1> HIDE DEF m
<1>4. ASSUME NEW q \in Nat, NEW j \in Nat, q <= j, j <= Len(Plan(e)) PROVE Plan(e)[j] \in Ahead(q, None)
  <2>1. Len(Plan(e)) \in Nat
    BY <1>1
  <2> QED BY <1>2, <1>4, <2>1, AheadHas
<1>5. PerTool[1] = "artifacts" /\ PerTool[2] = "delegates" /\ PerTool[3] = "hooks" /\ PerTool[4] = "servers" /\ PerTool[5] = "manifest"
  BY DEF PerTool
<1>6. ASSUME NEW i \in 1..m, NEW j \in 1..5, NEW q \in Nat, q <= 5 + ((i - 1) * 5 + j)
      PROVE  Step(PerTool[j], e.tools[i]) \in Ahead(q, None)
  <2>1. 5 + ((i - 1) * 5 + j) \in Nat /\ 5 + ((i - 1) * 5 + j) <= Len(Plan(e))
    BY <1>11
  <2>2. Plan(e)[5 + ((i - 1) * 5 + j)] \in Ahead(q, None)
    BY <1>4, <1>6, <2>1
  <2> QED BY <1>12, <2>2
<1>7. \A t \in Wants : t \in Tools /\ t # None /\ \E i \in 1..m : e.tools[i] = t
  BY WantsAre DEF m
<1>8. ASSUME NEW k \in 3..Len(Plan(e)), k <= 4, NEW t \in Wants, NEW j \in 1..5
      PROVE  Step(PerTool[j], t) \in Ahead(k + 1, None)
  <2>1. PICK i \in 1..m : e.tools[i] = t
    BY <1>7
  <2>2. k + 1 \in Nat /\ k + 1 <= 5 + ((i - 1) * 5 + j)
    BY <1>8
  <2> QED BY <1>6, <2>1, <2>2
<1>9. ASSUME NEW k \in 3..Len(Plan(e)) PROVE OrderedAt(k)
  <2> DEFINE A == Ahead(k + 1, None)
  <2>1. CASE k = 3
    <3>1. Plan(e)[k].do = "empty" /\ Place(Plan(e)[k]) = None
      BY <1>1, <1>2, <2>1, StepIs
    <3>2. Step("copy", None) \in A
      <4>1. k + 1 = 4 /\ 4 \in Nat /\ 4 <= Len(Plan(e))
        BY <1>1, <2>1
      <4>2. Plan(e)[4] \in Ahead(4, None)
        BY <1>4, <4>1
      <4> QED BY <1>1, <4>1, <4>2
    <3>3. \A t \in Wants : Step("artifacts", t) \in A /\ Step("delegates", t) \in A /\ Step("hooks", t) \in A
      BY <1>5, <1>8, <2>1
    <3> HIDE DEF A
    <3> QED BY <1>3, <3>1, <3>2, <3>3 DEF OrderedAt, A
  <2>2. CASE k = 4
    <3>1. Plan(e)[k].do = "copy" /\ Place(Plan(e)[k]) = None
      BY <1>1, <1>2, <2>2, StepIs
    <3>2. \A t \in Wants : Step("delegates", t) \in A
      BY <1>5, <1>8, <2>2
    <3> HIDE DEF A
    <3> QED BY <1>3, <3>1, <3>2 DEF OrderedAt, A
  <2>3. CASE k \in {5, 6 + m * 5, 7 + m * 5}
    <3>1. Plan(e)[k].do \in {"scripts", "instructions", "portable"} /\ Place(Plan(e)[k]) = None
      <4>1. Plan(e)[k] = Step("scripts", None) \/ Plan(e)[k] = Step("instructions", None) \/ Plan(e)[k] = Step("portable", None)
        BY <1>1, <2>3
      <4> QED BY <1>2, <4>1, StepIs
    <3> QED BY <1>3, <3>1 DEF OrderedAt
  <2>4. CASE k = 8 + m * 5
    <3>1. Plan(e)[k].do = "package" /\ Place(Plan(e)[k]) = None /\ k = Len(Plan(e))
      BY <1>1, <1>2, <2>4, StepIs
    <3> QED BY <1>3, <3>1 DEF OrderedAt
  <2>5. CASE \E i \in 1..m, j \in 1..5 : k = 5 + ((i - 1) * 5 + j)
    <3>1. PICK i \in 1..m, j \in 1..5 : k = 5 + ((i - 1) * 5 + j)
      BY <2>5
    <3> DEFINE t == e.tools[i]
    <3>2. Plan(e)[k].do = PerTool[j] /\ Plan(e)[k].tool = t /\ Place(Plan(e)[k]) = None
      <4>1. Plan(e)[k] = Step(PerTool[j], t)
        BY <1>12, <3>1
      <4> QED BY <1>2, <4>1, StepIs
    <3>3. \A b \in 1..5 : j < b => Step(PerTool[b], t) \in A
      <4> TAKE b \in 1..5
      <4> HAVE j < b
      <4>1. k + 1 \in Nat /\ k + 1 <= 5 + ((i - 1) * 5 + b)
        BY <1>11, <3>1
      <4> QED BY <1>6, <4>1
    <3>4. t \in Wants
      BY WantsAre DEF m
    <3>5. Step("scripts", None) \in A
      <4>1. k + 1 \in Nat /\ 6 + m * 5 \in Nat /\ k + 1 <= 6 + m * 5 /\ 6 + m * 5 <= Len(Plan(e))
        BY <1>1, <3>1
      <4>2. Plan(e)[6 + m * 5] \in Ahead(k + 1, None)
        BY <1>4, <4>1
      <4> QED BY <1>1, <4>2
    <3> HIDE DEF A, t, m
    <3>6. Plan(e)[k].do \in {"artifacts", "delegates", "hooks", "servers", "manifest"}
      BY <1>5, <3>2
    <3>9. j = 1 \/ j = 2 \/ j = 3 \/ j = 4 \/ j = 5
      OBVIOUS
    <3>10. (PerTool[j] = "artifacts" => j = 1) /\ (PerTool[j] \in {"hooks", "servers"} => j \in {3, 4})
      BY <1>5, <3>9
    <3>11. 2 \in 1..5 /\ 5 \in 1..5 /\ 1 < 2 /\ 3 < 5 /\ 4 < 5
      OBVIOUS
    <3>12. (j = 1 => Step("delegates", t) \in A) /\ (j \in {3, 4} => Step("manifest", t) \in A)
      BY <1>5, <3>3, <3>11
    <3>7. Plan(e)[k].do = "artifacts" => Step("delegates", t) \in A
      BY <3>2, <3>10, <3>12
    <3>8. Plan(e)[k].do \in {"hooks", "servers"} => Step("manifest", t) \in A
      BY <3>2, <3>10, <3>12
    <3> QED BY <1>3, <3>2, <3>4, <3>5, <3>6, <3>7, <3>8 DEF OrderedAt, A
  <2> QED BY <1>1, <2>1, <2>2, <2>3, <2>4, <2>5
<1>10. ASSUME NEW w \in Packed PROVE ~Cleared(3, w)
  <2>1. 3 \in Nat /\ 3 <= 3 /\ 3 <= Len(Plan(e))
    BY <1>11
  <2>2. Plan(e)[3] \in Ahead(3, None)
    BY <1>4, <2>1
  <2>3. Plan(e)[3].do = "empty"
    BY <1>1, StepIs
  <2> QED BY <1>3, <2>2, <2>3 DEF Cleared
<1> QED BY <1>9, <1>10

\* What comes after each step of an export, whatever it is asked for.
LEMMA Ordered ==
  ASSUME Requested
  PROVE  /\ \A k \in 3..Len(Plan(request)) : OrderedAt(k)
         /\ \A w \in Packed : ~Cleared(3, w)
<1>1. request.mode \in {"each", "merged", "agentPlugin"}
  BY DEF Requested, Requests
<1> QED BY <1>1, EachOrdered, MergedOrdered, AgentPluginOrdered

-----------------------------------------------------------------------------
\* What a step copies and hands over, and what is still to come when it has.

\* What the adapters come to.
LEMMA AdaptersAre ==
  /\ Reads("artifacts") = {Claude, Copilot} /\ Reads("hooks") = {Claude, Codex, Copilot} /\ Reads("servers") = {Claude}
  /\ Adapter(Claude).under = None /\ Adapter(Codex).under = Codex /\ Adapter(Copilot).under = Copilot
  /\ Adapter(Claude).kinds = Kinds /\ Adapter(Copilot).kinds = Kinds \ {"rules"}
  /\ ~Adapter(Claude).loads /\ Adapter(Codex).loads /\ Adapter(Copilot).loads /\ Adapter(Cursor).loads
<1> USE ToolsDiffer
<1>1. /\ Adapter(Claude) = ClaudeLayout /\ Adapter(Codex) = CodexLayout /\ Adapter(Copilot) = CopilotLayout
      /\ Adapter(Cursor) = CursorLayout /\ Adapter(OpenCode) = OpenCodeLayout
  BY DEF Adapter
<1>2. \A what : Reads(what) = { t \in Tools : what \in Adapter(t).reads }
  BY DEF Reads
<1>3. /\ ClaudeLayout.reads = {"artifacts", "hooks", "servers"} /\ CodexLayout.reads = {"hooks"}
      /\ CopilotLayout.reads = {"artifacts", "hooks"} /\ CursorLayout.reads = {} /\ OpenCodeLayout.reads = {}
  BY DEF ClaudeLayout, CodexLayout, CopilotLayout, CursorLayout, OpenCodeLayout, Layout
<1>4. /\ Adapter(Claude).under = None /\ Adapter(Codex).under = Codex /\ Adapter(Copilot).under = Copilot
      /\ Adapter(Claude).kinds = Kinds /\ Adapter(Copilot).kinds = Kinds \ {"rules"}
      /\ ~Adapter(Claude).loads /\ Adapter(Codex).loads /\ Adapter(Copilot).loads /\ Adapter(Cursor).loads
  BY <1>1 DEF ClaudeLayout, CodexLayout, CopilotLayout, CursorLayout, OpenCodeLayout, Layout
<1>5. Tools = {Claude, Codex, Copilot, Cursor, OpenCode}
  BY DEF Tools
<1>6. Reads("artifacts") = {Claude, Copilot}
  BY <1>1, <1>2, <1>3, <1>5
<1>7. Reads("hooks") = {Claude, Codex, Copilot}
  BY <1>1, <1>2, <1>3, <1>5
<1>8. Reads("servers") = {Claude}
  BY <1>1, <1>2, <1>3, <1>5
<1> QED BY <1>4, <1>6, <1>7, <1>8

\* A step is ahead until it is taken.
LEMMA AheadNext ==
  ASSUME Len(Plan(request)) \in Nat, NEW k \in 1..Len(Plan(request)), NEW w
  PROVE  /\ Place(Plan(request)[k]) = w => Ahead(k, w) = Ahead(k + 1, w) \union {Plan(request)[k]}
         /\ Place(Plan(request)[k]) # w => Ahead(k, w) = Ahead(k + 1, w)
<1>1. k..Len(Plan(request)) = {k} \union ((k + 1)..Len(Plan(request)))
  OBVIOUS
<1> QED BY <1>1 DEF Ahead

\* A step copies what belongs in its package, and hands delegates to it where they
\* go; and delegates come after what was copied.
LEMMA CopiesBelong ==
  ASSUME Requested, NEW k \in 3..Len(Plan(request)), NEW under, NEW kind, Copies(Plan(request)[k], under, kind)
  PROVE  /\ kind \in Belong(Place(Plan(request)[k]), under)
         /\ Delegating(Place(Plan(request)[k]), under) =>
              \E s \in Ahead(k + 1, Place(Plan(request)[k])) : Hands(s, under)
<1> DEFINE s == Plan(request)[k]
           w == Place(s)
           A == Ahead(k + 1, w)
<1>1. OrderedAt(k) /\ request.mode \in {"each", "merged", "agentPlugin"}
  BY Ordered DEF Requested, Requests
<1>2. /\ w \in Packed
      /\ s.do = "artifacts" => s.tool \in Wants /\ request.mode = "agentPlugin" /\ Step("delegates", s.tool) \in A
      /\ s.do = "copy" => IF request.mode = "agentPlugin" THEN \A t \in Wants : Step("delegates", t) \in A ELSE Step("delegates", w) \in A
  BY <1>1 DEF OrderedAt
<1>3. /\ s.do \in {"copy", "artifacts"}
      /\ s.do = "copy" => under = None /\ kind \in CopiedKinds(s.tool)
      /\ s.do = "artifacts" => s.tool \in Reads("artifacts") /\ under = Adapter(s.tool).under /\ kind \in Adapter(s.tool).kinds \ {"skills"}
  BY DEF Copies
<1>4. w = IF request.mode = "each" THEN s.tool ELSE None
  BY DEF Place
<1> HIDE DEF s, w, A
<1>5. CASE request.mode = "each"
  <2>1. under = None /\ kind \in Adapter(w).kinds /\ Step("delegates", w) \in A
    BY <1>2, <1>3, <1>4, <1>5 DEF CopiedKinds
  <2>2. kind \in Belong(w, under)
    BY <1>5, <2>1 DEF Belong
  <2>3. Delegating(w, under) => Hands(Step("delegates", w), under)
    BY <1>5, StepIs DEF Delegating, Hands
  <2> QED BY <2>1, <2>2, <2>3 DEF A, w, s
<1>6. CASE request.mode = "merged"
  <2>1. under = None /\ kind \in Kinds /\ Step("delegates", w) \in A
    BY <1>2, <1>3, <1>4, <1>6 DEF CopiedKinds
  <2>2. kind \in Belong(w, under)
    BY <1>6, <2>1 DEF Belong
  <2>3. Hands(Step("delegates", w), under)
    BY <1>6, <2>1, StepIs DEF Hands
  <2> QED BY <2>1, <2>2, <2>3 DEF A, w, s
<1>7. CASE request.mode = "agentPlugin"
  <2>1. CASE s.do = "copy"
    <3>1. under = None /\ kind = "skills" /\ \A t \in Wants : Step("delegates", t) \in A
      BY <1>2, <1>3, <1>7, <2>1 DEF CopiedKinds
    <3>2. kind \in Belong(w, under)
      BY <1>7, <3>1 DEF Belong
    <3>3. Delegating(w, under) => \E t \in Reads("artifacts") \intersect Wants : under = Adapter(t).under
      BY <1>7 DEF Delegating
    <3>4. \A t \in Reads("artifacts") : under = Adapter(t).under => Hands(Step("delegates", t), under)
      BY <1>7, StepIs DEF Hands
    <3>5. Delegating(w, under) => \E d \in A : Hands(d, under)
      BY <3>1, <3>3, <3>4
    <3> QED BY <3>2, <3>5 DEF A, w, s
  <2>2. CASE s.do = "artifacts"
    <3>1. s.tool \in {Claude, Copilot} \intersect Wants /\ under = Adapter(s.tool).under /\ kind \in Adapter(s.tool).kinds \ {"skills"}
          /\ Step("delegates", s.tool) \in A
      BY <1>2, <1>3, <2>2, AdaptersAre
    <3>2. Hands(Step("delegates", s.tool), under)
      BY <1>7, <3>1, AdaptersAre, StepIs DEF Hands
    <3>3. Copilot # None
      BY WantsAre DEF Tools
    <3>4. kind \in Belong(w, under)
      <4>1. CASE s.tool = Claude
        <5>1. under = None /\ kind \in Kinds /\ Claude \in Wants
          BY <3>1, <4>1, AdaptersAre
        <5> QED BY <1>7, <5>1 DEF Belong
      <4>2. CASE s.tool = Copilot
        <5>1. under = Copilot /\ kind \in {"agents", "commands"} /\ Copilot \in Wants
          BY <3>1, <4>2, AdaptersAre DEF Kinds
        <5> QED BY <1>7, <3>3, <5>1 DEF Belong
      <4> QED BY <3>1, <4>1, <4>2
    <3> QED BY <3>1, <3>2, <3>4 DEF A, w, s
  <2> QED BY <1>3, <2>1, <2>2
<1> QED BY <1>1, <1>5, <1>6, <1>7

\* Delegates are handed where they go.
LEMMA HandsDelegate ==
  ASSUME Requested, NEW k \in 3..Len(Plan(request)), NEW under, Hands(Plan(request)[k], under)
  PROVE  Delegating(Place(Plan(request)[k]), under)
<1> DEFINE s == Plan(request)[k]
<1>1. OrderedAt(k) /\ request.mode \in {"each", "merged", "agentPlugin"}
  BY Ordered DEF Requested, Requests
<1>2. s.do = "delegates" /\ (request.mode = "agentPlugin" => s.tool \in Wants)
  BY <1>1 DEF OrderedAt, Hands
<1>3. CASE request.mode = "each"
  BY <1>3 DEF Hands, Delegating, Place
<1>4. CASE request.mode = "merged"
  BY <1>4 DEF Hands, Delegating, Place
<1>5. CASE request.mode = "agentPlugin"
  <2>1. s.tool \in Reads("artifacts") /\ under = Adapter(s.tool).under
    BY <1>5 DEF Hands
  <2> QED BY <1>2, <1>5, <2>1 DEF Delegating
<1> QED BY <1>1, <1>3, <1>4, <1>5

\* After a package is emptied everything that belongs there comes.
LEMMA EmptyThenAll ==
  ASSUME Requested, NEW k \in 3..Len(Plan(request)), Plan(request)[k].do = "empty"
  PROVE  LET w == Place(Plan(request)[k])
             A == Ahead(k + 1, w)
         IN /\ \A under, kind : kind \in Belong(w, under) => \E s \in A : Copies(s, under, kind)
            /\ \A under : Delegating(w, under) => \E s \in A : Hands(s, under)
            /\ \A t \in ToolsOf(w) : Step("hooks", HooksBy(t)) \in A
<1> DEFINE w == Place(Plan(request)[k])
           A == Ahead(k + 1, w)
<1>1. OrderedAt(k) /\ request.mode \in {"each", "merged", "agentPlugin"}
  BY Ordered DEF Requested, Requests
<1>2. /\ w \in Packed /\ Step("copy", w) \in A /\ \A t \in ToolsOf(w) : Step("hooks", t) \in A
      /\ request.mode # "agentPlugin" => Step("delegates", w) \in A
      /\ request.mode = "agentPlugin" => \A t \in Wants : Step("artifacts", t) \in A /\ Step("delegates", t) \in A
  BY <1>1 DEF OrderedAt
<1>3. request.mode # "each" => w = None
  BY DEF Place
<1> HIDE DEF w, A
<1>4. ASSUME NEW t \in ToolsOf(w) PROVE Step("hooks", HooksBy(t)) \in A
  <2>1. Merging(Claude) => w = None /\ Claude \in ToolsOf(w)
    BY <1>3 DEF Merging, ToolsOf, Wants
  <2> QED BY <1>2, <2>1 DEF HooksBy
<1>5. ASSUME NEW under, Delegating(w, under) PROVE \E s \in A : Hands(s, under)
  <2>1. CASE request.mode = "each"
    <3>1. Hands(Step("delegates", w), under)
      BY <1>5, <2>1, StepIs DEF Delegating, Hands
    <3> QED BY <1>2, <2>1, <3>1
  <2>2. CASE request.mode = "merged"
    <3>1. Hands(Step("delegates", w), under)
      BY <1>5, <2>2, StepIs DEF Delegating, Hands
    <3> QED BY <1>2, <2>2, <3>1
  <2>3. CASE request.mode = "agentPlugin"
    <3>1. PICK t \in Reads("artifacts") \intersect Wants : under = Adapter(t).under
      BY <1>5, <2>3 DEF Delegating
    <3>2. Hands(Step("delegates", t), under)
      BY <2>3, <3>1, StepIs DEF Hands
    <3> QED BY <1>2, <2>3, <3>1, <3>2
  <2> QED BY <1>1, <2>1, <2>2, <2>3
<1>6. ASSUME NEW under, NEW kind, kind \in Belong(w, under) PROVE \E s \in A : Copies(s, under, kind)
  <2>1. CASE request.mode \in {"each", "merged"}
    <3>1. under = None /\ kind \in CopiedKinds(w)
      BY <1>6, <2>1 DEF Belong, CopiedKinds
    <3>2. Copies(Step("copy", w), under, kind)
      BY <3>1, StepIs DEF Copies
    <3> QED BY <1>2, <3>2
  <2>2. CASE request.mode = "agentPlugin"
    <3>1. Copilot # None
      BY WantsAre DEF Tools
    <3>2. \/ under = None /\ kind = "skills"
          \/ under = None /\ Claude \in Wants /\ kind \in Kinds \ {"skills"}
          \/ under = Copilot /\ Copilot \in Wants /\ kind \in {"agents", "commands"}
      BY <1>6, <2>2, <3>1 DEF Belong
    <3>3. CASE under = None /\ kind = "skills"
      <4>1. Copies(Step("copy", w), under, kind)
        BY <2>2, <3>3, StepIs DEF Copies, CopiedKinds
      <4> QED BY <1>2, <4>1
    <3>4. CASE under = None /\ Claude \in Wants /\ kind \in Kinds \ {"skills"}
      <4>1. Copies(Step("artifacts", Claude), under, kind)
        BY <3>4, StepIs, AdaptersAre DEF Copies
      <4> QED BY <1>2, <2>2, <3>4, <4>1
    <3>5. CASE under = Copilot /\ Copilot \in Wants /\ kind \in {"agents", "commands"}
      <4>1. kind \in Adapter(Copilot).kinds \ {"skills"}
        BY <3>5, AdaptersAre DEF Kinds
      <4>2. Copies(Step("artifacts", Copilot), under, kind)
        BY <3>5, <4>1, StepIs, AdaptersAre DEF Copies
      <4> QED BY <1>2, <2>2, <3>5, <4>2
    <3> QED BY <3>2, <3>3, <3>4, <3>5
  <2> QED BY <1>1, <2>1, <2>2
<1> QED BY <1>4, <1>5, <1>6 DEF A, w

-----------------------------------------------------------------------------
\* Writing files over a package: what a step brings, and what it leaves.

\* What is written over what.
LEMMA OverIs ==
  ASSUME NEW F, NEW G
  PROVE  /\ DOMAIN Over(F, G) = DOMAIN F \union DOMAIN G
         /\ \A p \in DOMAIN F : Over(F, G)[p] = F[p]
         /\ \A p \in DOMAIN G \ DOMAIN F : Over(F, G)[p] = G[p]
BY DEF Over

\* A step writes the artifacts it brings and no others.
Gives(s, F) ==
  /\ \A under \in Unders, f \in Files : Artifact(under, f) \in DOMAIN F =>
       \/ Copies(s, under, f.kind) /\ Given(f) # Nobody /\ F[Artifact(under, f)] = Given(f)
       \/ Hands(s, under) /\ DelegatesOf(f) # {} /\ F[Artifact(under, f)] \in DelegatesOf(f)
  /\ \A under \in Unders, f \in Files :
       /\ Copies(s, under, f.kind) /\ Given(f) # Nobody => Artifact(under, f) \in DOMAIN F
       /\ Hands(s, under) /\ DelegatesOf(f) # {} => Artifact(under, f) \in DOMAIN F

\* A step that gives what it should leaves the artifacts in order.
LEMMA ArtifactsKeep ==
  ASSUME Requested, NEW k \in 3..Len(Plan(request)), Len(Plan(request)) \in Nat, NEW F, NEW files, NEW w, w = Place(Plan(request)[k]),
         Gives(Plan(request)[k], F), NothingElse(w, files),
         AllCopied(Ahead(k, w), w, files), AllHanded(Ahead(k, w), w, files)
  PROVE  /\ NothingElse(w, Over(F, files))
         /\ AllCopied(Ahead(k + 1, w), w, Over(F, files)) /\ AllHanded(Ahead(k + 1, w), w, Over(F, files))
<1> DEFINE s == Plan(request)[k]
           A == Ahead(k + 1, w)
           G == Over(F, files)
<1>1. Ahead(k, w) = A \union {s}
  BY AheadNext
<1>2. /\ DOMAIN G = DOMAIN F \union DOMAIN files
      /\ \A p \in DOMAIN F : G[p] = F[p]
      /\ \A p \in DOMAIN files \ DOMAIN F : G[p] = files[p]
  BY OverIs
<1>3. \A under, kind : Copies(s, under, kind) => kind \in Belong(w, under) /\ (Delegating(w, under) => \E d \in A : Hands(d, under))
  BY CopiesBelong
<1>4. \A under : Hands(s, under) => Delegating(w, under)
  BY HandsDelegate
<1>5. ~\E under, kind : Copies(s, under, kind) /\ Hands(s, under)
  BY DEF Copies, Hands
<1> HIDE DEF s, A, G
<1>6. ASSUME NEW under \in Unders, NEW f \in Files, Artifact(under, f) \in DOMAIN G
      PROVE  \/ Belongs(w, under, f) /\ G[Artifact(under, f)] = Given(f)
             \/ Handed(w, under, f) /\ G[Artifact(under, f)] \in DelegatesOf(f)
  <2>1. CASE Artifact(under, f) \in DOMAIN F
    <3>1. G[Artifact(under, f)] = F[Artifact(under, f)]
      BY <1>2, <2>1
    <3>2. CASE Copies(s, under, f.kind) /\ Given(f) # Nobody /\ F[Artifact(under, f)] = Given(f)
      BY <1>3, <3>1, <3>2 DEF Belongs
    <3>3. CASE Hands(s, under) /\ DelegatesOf(f) # {} /\ F[Artifact(under, f)] \in DelegatesOf(f)
      BY <1>4, <3>1, <3>3 DEF Handed
    <3> QED BY <2>1, <3>2, <3>3 DEF Gives, s
  <2>2. CASE Artifact(under, f) \notin DOMAIN F
    <3>1. Artifact(under, f) \in DOMAIN files /\ G[Artifact(under, f)] = files[Artifact(under, f)]
      BY <1>2, <1>6, <2>2
    <3> QED BY <3>1 DEF NothingElse
  <2> QED BY <2>1, <2>2
<1>7. ASSUME NEW under \in Unders, NEW f \in Files, Belongs(w, under, f)
      PROVE  Artifact(under, f) \in DOMAIN G \/ \E d \in A : Copies(d, under, f.kind)
  <2>1. CASE Artifact(under, f) \in DOMAIN files
    BY <1>2, <2>1
  <2>2. CASE \E d \in A \union {s} : Copies(d, under, f.kind)
    <3>1. CASE Copies(s, under, f.kind)
      <4>1. Artifact(under, f) \in DOMAIN F
        BY <1>7, <3>1 DEF Gives, Belongs, s
      <4> QED BY <1>2, <4>1
    <3> QED BY <2>2, <3>1
  <2> QED BY <1>1, <1>7, <2>1, <2>2 DEF AllCopied
<1>8. ASSUME NEW under \in Unders, NEW f \in Files, Handed(w, under, f)
      PROVE  \/ Artifact(under, f) \in DOMAIN G /\ G[Artifact(under, f)] \in DelegatesOf(f)
             \/ \E d \in A : Hands(d, under)
  <2>1. CASE Artifact(under, f) \in DOMAIN F
    <3>1. Artifact(under, f) \in DOMAIN G /\ G[Artifact(under, f)] = F[Artifact(under, f)]
      BY <1>2, <2>1
    <3>2. CASE Copies(s, under, f.kind)
      BY <1>3, <1>8, <3>2 DEF Handed
    <3> QED BY <2>1, <3>1, <3>2 DEF Gives, s
  <2>2. CASE Artifact(under, f) \notin DOMAIN F
    <3>1. ~Hands(s, under)
      BY <1>8, <2>2 DEF Gives, Handed, s
    <3>2. CASE Artifact(under, f) \in DOMAIN files /\ files[Artifact(under, f)] \in DelegatesOf(f)
      <4>1. Artifact(under, f) \in DOMAIN G /\ G[Artifact(under, f)] = files[Artifact(under, f)]
        BY <1>2, <2>2, <3>2
      <4> QED BY <3>2, <4>1
    <3>3. CASE \E d \in A \union {s} : Hands(d, under)
      BY <3>1, <3>3
    <3> QED BY <1>1, <1>8, <3>2, <3>3 DEF AllHanded
  <2> QED BY <2>1, <2>2
<1>9. NothingElse(w, G)
  BY <1>6 DEF NothingElse
<1>10. AllCopied(A, w, G)
  BY <1>7 DEF AllCopied
<1>11. AllHanded(A, w, G)
  BY <1>8 DEF AllHanded
<1> QED BY <1>9, <1>10, <1>11 DEF A, G

\* What a step writes of the other files.
Marks(s, F, files) ==
  /\ \A p \in DOMAIN F :
       /\ Allowed(p)
       /\ p.kind = "hooks" => s.do = "hooks" /\ p.name = s.tool
       /\ p.kind = "mcp" => (s.do = "servers" /\ p.name = s.tool) \/ (s.do = "portable" /\ p = PortableMCP)
       /\ p.kind = "manifest" => s.do = "manifest" /\ p = ManifestFile(s.tool) /\ F[p].of = Pointers(s.tool, files)
       /\ p.kind = "package" => s.do = "package" /\ F[p].of = { HookFile(Codex, Codex) } \intersect DOMAIN files
       /\ p.kind = "script" => s.do = "scripts"
  /\ s.do = "manifest" /\ Describes(s.tool) => ManifestFile(s.tool) \in DOMAIN F
  /\ s.do = "hooks" /\ Hooked => \A t \in ToolsOf(Place(s)) : ReadsSome(t) /\ HooksBy(t) = s.tool =>
       /\ ReadsHooks(t) \in DOMAIN F
       /\ request.mode # "agentPlugin" /\ request.starts /\ t \in {Copilot, Cursor} => Wrapper \in DOMAIN F
  /\ ForBoth(F)
  /\ s.do = "scripts" /\ (\E p \in DOMAIN files : p.kind = "hooks") =>
       \A i \in Hooking(content) : \A c \in content[i].hooks : ScriptOf(i, c) \in DOMAIN F /\ F[ScriptOf(i, c)] = From(i)

\* The paths of the generated files.
LEMMA PathsAre ==
  /\ \A t, u : HookFile(t, u).kind = "hooks" /\ HookFile(t, u).name = u
  /\ \A t : MCPFile(t).kind = "mcp" /\ MCPFile(t).name = t /\ ManifestFile(t).kind = "manifest"
  /\ PackageManifest.kind = "package" /\ Wrapper.kind = "wrapper" /\ PortableMCP.kind = "mcp" /\ PortableMCP.name = Cursor
  /\ ServerScript.kind = "serverScript" /\ Prompt.kind = "instructions" /\ Own.kind = "own"
  /\ \A i, c : ScriptOf(i, c).kind = "script"
  /\ \A t : ManifestFile(t).name = IF t = Copilot THEN Claude ELSE t
BY DEF HookFile, MCPFile, ManifestFile, PackageManifest, Wrapper, PortableMCP, ServerScript, Prompt, Own, ScriptOf, Path

\* The tools with one manifest, and what it points to.
LEMMA SameManifest ==
  ASSUME NEW t \in Tools, NEW u \in Tools, ManifestFile(t) = ManifestFile(u)
  PROVE  t = u \/ {t, u} = {Claude, Copilot}
<1>1. (IF t = Copilot THEN Claude ELSE t) = (IF u = Copilot THEN Claude ELSE u)
  BY PathsAre
<1> QED BY <1>1

\* What a manifest names.
LEMMA PointersOf ==
  /\ \A files : Pointers(Claude, files) = DOMAIN files \intersect ClaudePointers /\ Pointers(Copilot, files) = DOMAIN files \intersect ClaudePointers
  /\ \A files : Pointers(Codex, files) = DOMAIN files \intersect CodexPointers
  /\ \A files : Pointers(Cursor, files) = DOMAIN files \intersect CursorPointers
BY ToolsDiffer DEF Pointers

\* What it names is of its own tool.
LEMMA PointerIs ==
  ASSUME NEW t \in {Claude, Copilot, Codex, Cursor}, NEW F, NEW p \in Pointers(t, F)
  PROVE  /\ p \in DOMAIN F /\ p.kind \in {"hooks", "mcp"} /\ p.name = (IF t = Copilot THEN Claude ELSE t)
         /\ p # PortableMCP
<1>1. p \in DOMAIN F /\ p \in (IF t \in {Claude, Copilot} THEN ClaudePointers ELSE IF t = Codex THEN CodexPointers ELSE CursorPointers)
  BY PointersOf
<1>2. \A q \in ClaudePointers : q.kind \in {"hooks", "mcp"} /\ q.name = Claude
  BY PathsAre DEF ClaudePointers
<1>3. \A q \in CodexPointers : q.kind \in {"hooks", "mcp"} /\ q.name = Codex
  BY PathsAre DEF CodexPointers
<1>4. \A q \in CursorPointers : q.kind = "hooks" /\ q.name = Cursor
  BY PathsAre DEF CursorPointers
<1>5. PortableMCP.kind = "mcp" /\ PortableMCP.name = Cursor
  BY PathsAre
<1>6. CASE t \in {Claude, Copilot}
  BY <1>1, <1>2, <1>5, <1>6, ToolsDiffer
<1>7. CASE t = Codex
  BY <1>1, <1>3, <1>5, <1>7, ToolsDiffer
<1>8. CASE t = Cursor
  BY <1>1, <1>4, <1>5, <1>8, ToolsDiffer
<1> QED BY <1>6, <1>7, <1>8

\* And is what is there, or what is written.
LEMMA PointersOver ==
  ASSUME NEW t \in {Claude, Copilot, Codex, Cursor}, NEW F, NEW files
  PROVE  Pointers(t, Over(F, files)) = Pointers(t, F) \union Pointers(t, files)
<1>1. DOMAIN Over(F, files) = DOMAIN F \union DOMAIN files
  BY OverIs
<1>2. t = Claude \/ t = Copilot \/ t = Codex \/ t = Cursor
  OBVIOUS
<1> QED BY <1>1, <1>2, PointersOf

\* Manifests stay true: what they name comes before them, and after them nothing of their tool.
LEMMA ManifestsKeep ==
  ASSUME Requested, NEW k \in 3..Len(Plan(request)), Len(Plan(request)) \in Nat, NEW F, NEW files, NEW w, w = Place(Plan(request)[k]),
         Marks(Plan(request)[k], F, files), OnlyAllowed(files), ManifestsSay(Ahead(k, w), files)
  PROVE  ManifestsSay(Ahead(k + 1, w), Over(F, files))
<1> DEFINE s == Plan(request)[k]
           A == Ahead(k + 1, w)
           G == Over(F, files)
<1>1. Ahead(k, w) = A \union {s}
  BY AheadNext
<1>2. /\ DOMAIN G = DOMAIN F \union DOMAIN files
      /\ \A p \in DOMAIN F : G[p] = F[p]
      /\ \A p \in DOMAIN files \ DOMAIN F : G[p] = files[p]
  BY OverIs
<1>3. /\ s.do \in {"hooks", "servers"} => Step("manifest", s.tool) \in A /\ s.tool \in Wants
      /\ s.do = "manifest" => s.tool \in Wants
  BY Ordered DEF OrderedAt, A, s
<1>4. \A p \in DOMAIN F : /\ Allowed(p)
                          /\ p.kind = "hooks" => s.do = "hooks" /\ p.name = s.tool
                          /\ p.kind = "mcp" => (s.do = "servers" /\ p.name = s.tool) \/ (s.do = "portable" /\ p = PortableMCP)
                          /\ p.kind = "manifest" => s.do = "manifest" /\ p = ManifestFile(s.tool) /\ F[p].of = Pointers(s.tool, files)
  BY DEF Marks, s
<1>5. s.do = "manifest" /\ Describes(s.tool) => ManifestFile(s.tool) \in DOMAIN F
  BY DEF Marks, s
<1>6. \A t, files2 : Pointers(t, files2) \subseteq DOMAIN files2
  BY DEF Pointers
<1> HIDE DEF s, A
<1> SUFFICES ASSUME NEW t \in Wants, ManifestFile(t) \in DOMAIN G
             PROVE  \/ G[ManifestFile(t)].of = Pointers(t, G)
                    \/ \E d \in A : d.do = "manifest" /\ Describes(d.tool) /\ ManifestFile(d.tool) = ManifestFile(t)
  BY DEF ManifestsSay, A, G
<1> HIDE DEF G
<1>7. t \in Tools
  BY WantsAre
\* The tool whose manifest it is.
<1>8. PICK u \in Wants : Describes(u) /\ ManifestFile(t) = ManifestFile(u)
  <2>1. ManifestFile(t).kind = "manifest"
    BY PathsAre
  <2>2. Allowed(ManifestFile(t))
    BY <1>2, <1>4 DEF OnlyAllowed
  <2> QED BY <2>1, <2>2 DEF Allowed
<1>9. u \in Tools /\ u # OpenCode /\ (t = u \/ {t, u} = {Claude, Copilot})
  BY <1>7, <1>8, WantsAre, SameManifest DEF Describes
<1>10. t \in {Claude, Copilot, Codex, Cursor} /\ (request.mode = "agentPlugin" => t \in {Claude, Copilot})
  <2>1. u \in {Claude, Copilot, Codex, Cursor}
    BY <1>9 DEF Tools
  <2>2. request.mode = "agentPlugin" => u = Claude
    BY <1>8, <2>1, AdaptersAre DEF Describes
  <2> QED BY <1>9, <2>1, <2>2
<1>11. Pointers(t, G) = Pointers(t, F) \union Pointers(t, files)
  BY <1>10, PointersOver DEF G
<1>12. CASE Pointers(t, F) # {}
  <2>1. PICK p : p \in Pointers(t, F)
    BY <1>12
  <2>2. p \in DOMAIN F /\ p.kind \in {"hooks", "mcp"} /\ p.name = (IF t = Copilot THEN Claude ELSE t) /\ p # PortableMCP
    BY <1>10, <2>1, PointerIs
  <2>3. s.do \in {"hooks", "servers"} /\ p.name = s.tool
    BY <1>4, <2>2
  <2>4. ManifestFile(s.tool) = ManifestFile(t)
    BY <2>2, <2>3 DEF ManifestFile
  <2>5. Describes(s.tool)
    BY <1>10, <2>2, <2>3, AdaptersAre, ToolsDiffer DEF Describes
  <2>6. Step("manifest", s.tool) \in A
    BY <1>3, <2>3
  <2> QED BY <2>4, <2>5, <2>6, StepIs
<1>13. CASE Pointers(t, F) = {}
  <2>1. Pointers(t, G) = Pointers(t, files)
    BY <1>11, <1>13
  <2>2. CASE ManifestFile(t) \in DOMAIN F
    <3>1. /\ G[ManifestFile(t)].of = Pointers(s.tool, files) /\ s.do = "manifest"
          /\ ManifestFile(t) = ManifestFile(s.tool)
      BY <1>2, <1>4, <2>2, PathsAre
    <3>2. s.tool \in Tools
      BY <1>3, <3>1, WantsAre
    <3>3. t = s.tool \/ {t, s.tool} = {Claude, Copilot}
      BY <1>7, <3>1, <3>2, SameManifest
    <3>4. Pointers(s.tool, files) = Pointers(t, files)
      BY <3>3, PointersOf
    <3> QED BY <2>1, <3>1, <3>4
  <2>3. CASE ManifestFile(t) \notin DOMAIN F
    <3>1. ManifestFile(t) \in DOMAIN files /\ G[ManifestFile(t)] = files[ManifestFile(t)]
      BY <1>2, <2>3
    <3>2. ~(s.do = "manifest" /\ Describes(s.tool) /\ ManifestFile(s.tool) = ManifestFile(t))
      BY <1>5, <2>3
    <3>3. \/ files[ManifestFile(t)].of = Pointers(t, files)
          \/ \E d \in A \union {s} : d.do = "manifest" /\ Describes(d.tool) /\ ManifestFile(d.tool) = ManifestFile(t)
      BY <1>1, <3>1 DEF ManifestsSay
    <3> QED BY <2>1, <3>1, <3>2, <3>3
  <2> QED BY <2>2, <2>3
<1> QED BY <1>12, <1>13

\* The other files stay in order.
LEMMA MarksKeep ==
  ASSUME Requested, NEW k \in 3..Len(Plan(request)), Len(Plan(request)) \in Nat, NEW F, NEW files, NEW w, w = Place(Plan(request)[k]),
         Marks(Plan(request)[k], F, files), OnlyAllowed(files), PackageSays(k, files),
         HooksThere(Ahead(k, w), w, files), ForBoth(files), ScriptsThere(Ahead(k, w), files)
  PROVE  /\ OnlyAllowed(Over(F, files)) /\ PackageSays(k + 1, Over(F, files))
         /\ HooksThere(Ahead(k + 1, w), w, Over(F, files)) /\ ForBoth(Over(F, files))
         /\ ScriptsThere(Ahead(k + 1, w), Over(F, files))
<1> DEFINE s == Plan(request)[k]
           A == Ahead(k + 1, w)
           G == Over(F, files)
<1>1. Ahead(k, w) = A \union {s}
  BY AheadNext
<1>2. /\ DOMAIN G = DOMAIN F \union DOMAIN files
      /\ \A p \in DOMAIN F : G[p] = F[p]
      /\ \A p \in DOMAIN files \ DOMAIN F : G[p] = files[p]
  BY OverIs
<1>3. OrderedAt(k)
  BY Ordered
<1>4. OnlyAllowed(G)
  BY <1>2 DEF Marks, OnlyAllowed, s
<1>5. PackageSays(k + 1, G)
  <2>1. ~(k > Len(Plan(request)))
    OBVIOUS
  <2>2. PackageManifest \notin DOMAIN files
    BY <2>1 DEF PackageSays
  <2> SUFFICES ASSUME PackageManifest \in DOMAIN G
               PROVE  k + 1 > Len(Plan(request)) /\ G[PackageManifest].of = { p \in DOMAIN G : p = HookFile(Codex, Codex) }
    BY DEF PackageSays
  <2>3. PackageManifest \in DOMAIN F /\ G[PackageManifest] = F[PackageManifest]
    BY <1>2, <2>2
  <2>4. s.do = "package" /\ F[PackageManifest].of = { HookFile(Codex, Codex) } \intersect DOMAIN files
    BY <2>3, PathsAre DEF Marks, s
  <2>5. k = Len(Plan(request))
    BY <1>3, <2>4 DEF OrderedAt, s
  <2>6. HookFile(Codex, Codex) \notin DOMAIN F
    BY <2>4, PathsAre DEF Marks, s
  <2>7. { HookFile(Codex, Codex) } \intersect DOMAIN files = { p \in DOMAIN G : p = HookFile(Codex, Codex) }
    BY <1>2, <2>6
  <2> QED BY <2>3, <2>4, <2>5, <2>7
<1>6. HooksThere(A, w, G)
  <2> SUFFICES ASSUME Hooked, NEW t \in ToolsOf(w), ReadsSome(t)
               PROVE  \/ Step("hooks", HooksBy(t)) \in A
                      \/ /\ ReadsHooks(t) \in DOMAIN G
                         /\ request.mode # "agentPlugin" /\ request.starts /\ t \in {Copilot, Cursor} => Wrapper \in DOMAIN G
    BY DEF HooksThere
  <2>1. CASE Step("hooks", HooksBy(t)) = s
    <3>1. s.do = "hooks" /\ s.tool = HooksBy(t)
      BY <2>1, StepIs
    <3>2. /\ ReadsHooks(t) \in DOMAIN F
          /\ request.mode # "agentPlugin" /\ request.starts /\ t \in {Copilot, Cursor} => Wrapper \in DOMAIN F
      BY <3>1 DEF Marks, s
    <3> QED BY <1>2, <3>2
  <2>2. CASE Step("hooks", HooksBy(t)) \in A
    BY <2>2
  <2>3. CASE /\ ReadsHooks(t) \in DOMAIN files
             /\ request.mode # "agentPlugin" /\ request.starts /\ t \in {Copilot, Cursor} => Wrapper \in DOMAIN files
    BY <1>2, <2>3
  <2> HIDE DEF A, s, G
  <2>4. \/ Step("hooks", HooksBy(t)) \in A \union {s}
        \/ /\ ReadsHooks(t) \in DOMAIN files
           /\ request.mode # "agentPlugin" /\ request.starts /\ t \in {Copilot, Cursor} => Wrapper \in DOMAIN files
    BY <1>1 DEF HooksThere
  <2> QED BY <2>1, <2>2, <2>3, <2>4
<1>7. ForBoth(G)
  <2>1. ForBoth(F)
    BY DEF Marks
  <2> QED BY <1>2, <2>1 DEF ForBoth
<1>8. ScriptsThere(A, G)
  <2> DEFINE Right(H) == \A i \in Hooking(content) : \A c \in content[i].hooks : ScriptOf(i, c) \in DOMAIN H /\ H[ScriptOf(i, c)] = From(i)
             Some(H) == \E p \in DOMAIN H : p.kind = "hooks"
  <2>1. Some(F) => \E d \in A : d.do = "scripts"
    <3>1. Some(F) => s.do = "hooks"
      BY DEF Marks, s
    <3>2. s.do = "hooks" => Step("scripts", w) \in A
      BY <1>3 DEF OrderedAt, s, A
    <3> QED BY <3>1, <3>2, StepIs
  <2>2. s.do = "scripts" /\ Some(files) => Right(F)
    BY DEF Marks, s
  <2>3. Right(F) => Right(G)
    BY <1>2
  <2>4. Some(files) /\ Right(files) => Right(G)
    <3> SUFFICES ASSUME Some(files), Right(files), NEW i \in Hooking(content), NEW c \in content[i].hooks
                 PROVE  ScriptOf(i, c) \in DOMAIN G /\ G[ScriptOf(i, c)] = From(i)
      OBVIOUS
    <3>1. ScriptOf(i, c) \in DOMAIN files /\ files[ScriptOf(i, c)] = From(i)
      OBVIOUS
    <3>2. CASE ScriptOf(i, c) \in DOMAIN F
      <4>1. s.do = "scripts"
        BY <3>2, PathsAre DEF Marks, s
      <4>2. F[ScriptOf(i, c)] = From(i)
        BY <2>2, <4>1
      <4> QED BY <1>2, <3>2, <4>2
    <3>3. CASE ScriptOf(i, c) \notin DOMAIN F
      BY <1>2, <3>1, <3>3
    <3> QED BY <3>2, <3>3
  <2>5. Some(G) => Some(F) \/ Some(files)
    BY <1>2
  <2>6. Some(files) => (\E d \in A \union {s} : d.do = "scripts") \/ Right(files)
    BY <1>1 DEF ScriptsThere
  <2> HIDE DEF Right, Some, s, A, G
  <2>7. Some(G) => (\E d \in A : d.do = "scripts") \/ Right(G)
    BY <2>1, <2>2, <2>3, <2>4, <2>5, <2>6
  <2> QED BY <2>7 DEF ScriptsThere, Right, Some
<1> QED BY <1>4, <1>5, <1>6, <1>7, <1>8

\* What a step writes keeps its package in order.
LEMMA FitsKeeps ==
  ASSUME Requested, NEW k \in 3..Len(Plan(request)), Len(Plan(request)) \in Nat, NEW F, NEW files,
         Gives(Plan(request)[k], F), Marks(Plan(request)[k], F, files), Fits(k, Place(Plan(request)[k]), files)
  PROVE  Fits(k + 1, Place(Plan(request)[k]), Over(F, files))
<1> DEFINE w == Place(Plan(request)[k])
<1>1. /\ NothingElse(w, files) /\ AllCopied(Ahead(k, w), w, files) /\ AllHanded(Ahead(k, w), w, files)
      /\ OnlyAllowed(files) /\ ManifestsSay(Ahead(k, w), files) /\ PackageSays(k, files)
      /\ HooksThere(Ahead(k, w), w, files) /\ ForBoth(files) /\ ScriptsThere(Ahead(k, w), files)
  BY DEF Fits
<1> HIDE DEF w
<1>2. w = Place(Plan(request)[k])
  BY DEF w
<1>3. /\ NothingElse(w, Over(F, files))
      /\ AllCopied(Ahead(k + 1, w), w, Over(F, files)) /\ AllHanded(Ahead(k + 1, w), w, Over(F, files))
  BY <1>1, <1>2, ArtifactsKeep
<1>4. ManifestsSay(Ahead(k + 1, w), Over(F, files))
  BY <1>1, <1>2, ManifestsKeep
<1>5. /\ OnlyAllowed(Over(F, files)) /\ PackageSays(k + 1, Over(F, files))
      /\ HooksThere(Ahead(k + 1, w), w, Over(F, files)) /\ ForBoth(Over(F, files))
      /\ ScriptsThere(Ahead(k + 1, w), Over(F, files))
  BY <1>1, <1>2, MarksKeep
<1>6. Fits(k + 1, w, Over(F, files))
  BY <1>3, <1>4, <1>5 DEF Fits
<1> QED BY <1>2, <1>6

\* A package just emptied is in order.
LEMMA EmptiedFits ==
  ASSUME Requested, NEW k \in 3..Len(Plan(request)), Plan(request)[k].do = "empty", NEW w, w = Place(Plan(request)[k])
  PROVE  Fits(k + 1, w, NoFile)
<1> DEFINE A == Ahead(k + 1, w)
<1>1. DOMAIN NoFile = {}
  BY DEF NoFile
<1>2. /\ \A under, kind : kind \in Belong(w, under) => \E s \in A : Copies(s, under, kind)
      /\ \A under : Delegating(w, under) => \E s \in A : Hands(s, under)
      /\ \A t \in ToolsOf(w) : Step("hooks", HooksBy(t)) \in A
  BY EmptyThenAll
<1> HIDE DEF A
<1>3. NothingElse(w, NoFile)
  BY <1>1 DEF NothingElse
<1>4. AllCopied(A, w, NoFile)
  BY <1>2 DEF AllCopied, Belongs
<1>5. AllHanded(A, w, NoFile)
  BY <1>2 DEF AllHanded, Handed
<1>6. OnlyAllowed(NoFile) /\ ManifestsSay(A, NoFile) /\ PackageSays(k + 1, NoFile) /\ ForBoth(NoFile) /\ ScriptsThere(A, NoFile)
  BY <1>1 DEF OnlyAllowed, ManifestsSay, PackageSays, ForBoth, ScriptsThere
<1>7. HooksThere(A, w, NoFile)
  BY <1>2 DEF HooksThere
<1> QED BY <1>3, <1>4, <1>5, <1>6, <1>7 DEF Fits, A

\* A step of another package leaves one in order.
LEMMA ElsewhereFits ==
  ASSUME NEW k \in 3..Len(Plan(request)), Len(Plan(request)) \in Nat, NEW w, w # Place(Plan(request)[k]), NEW files, Fits(k, w, files)
  PROVE  Fits(k + 1, w, files)
<1>1. Ahead(k, w) = Ahead(k + 1, w)
  BY AheadNext
<1>2. ~(k > Len(Plan(request)))
  OBVIOUS
<1>3. PackageSays(k + 1, files)
  BY <1>2 DEF Fits, PackageSays
<1> QED BY <1>1, <1>3 DEF Fits

-----------------------------------------------------------------------------
\* The files that the sources and the delegates come to.

\* What the harness's content is while it is exported.
Carrying == Requested /\ content \in Contents

LEMMA FileIs ==
  ASSUME NEW f \in Files
  PROVE  /\ f = [ kind |-> f.kind, name |-> f.name, part |-> f.part ] /\ f.kind \in Kinds /\ <<f.kind, f.name>> \in Artifacts
         /\ f.kind \notin {"hooks", "wrapper", "mcp", "serverScript", "instructions", "manifest", "package", "own", "script"}
<1>1. f \in [ kind : Kinds, name : Names, part : {Main, Extra, Evals} ]
  BY AssemblyAssumption
<1>2. f = [ kind |-> f.kind, name |-> f.name, part |-> f.part ] /\ f.kind \in Kinds
  BY <1>1
<1>3. f.kind \notin {"hooks", "wrapper", "mcp", "serverScript", "instructions", "manifest", "package", "own", "script"}
  BY <1>2 DEF Kinds
<1>4. <<f.kind, f.name>> \in Artifacts
  BY DEF Artifacts
<1> QED BY <1>2, <1>3, <1>4

\* An artifact is not at the path of another.
LEMMA ArtifactIs ==
  ASSUME NEW f \in Files, NEW g \in Files, NEW under, NEW under2
  PROVE  /\ Artifact(under, f) = Artifact(under2, g) <=> under = under2 /\ f = g
         /\ Artifact(under, f).kind = f.kind /\ Artifact(under, f).name = f.name /\ Artifact(under, f).part = f.part
<1>1. /\ Artifact(under, f).under = under /\ Artifact(under2, g).under = under2
      /\ Artifact(under, f).kind = f.kind /\ Artifact(under, f).name = f.name /\ Artifact(under, f).part = f.part
      /\ Artifact(under2, g).kind = g.kind /\ Artifact(under2, g).name = g.name /\ Artifact(under2, g).part = g.part
  BY DEF Artifact
<1>2. f = [ kind |-> f.kind, name |-> f.name, part |-> f.part ] /\ g = [ kind |-> g.kind, name |-> g.name, part |-> g.part ]
  BY FileIs
<1> QED BY <1>1, <1>2

\* A pass over some kinds brings of those kinds what the whole content gives.
LEMMA BringsGiven ==
  ASSUME Carrying, NEW kinds, NEW sources, sources = content \/ sources = Restricted(kinds), NEW f \in Files, f.kind \in kinds
  PROVE  { i \in DOMAIN sources : f \in Brings(sources[i], kinds) } = Givers(f)
<1>1. content \in Seq(Sources)
  BY AssemblyAssumption DEF Carrying
<1>2. \A i \in DOMAIN content : content[i] \in Sources
  BY <1>1
<1>3. CASE sources = content
  BY <1>3 DEF Brings, Givers
<1>4. CASE sources = Restricted(kinds)
  <2>1. DOMAIN sources = DOMAIN content
    BY <1>4 DEF Restricted
  <2>2. ASSUME NEW i \in DOMAIN content
        PROVE  f \in Brings(sources[i], kinds) <=> f \in content[i].files /\ f.part # Evals /\ <<f.kind, f.name>> \in Asked(content[i])
    <3> DEFINE c == content[i]
               picks == { a \in c.picks : a[1] \in kinds }
               kept == IF picks = {} /\ c.picks # {} THEN {} ELSE c.files
               r == sources[i]
    <3>1. c \in Sources
      BY <1>2
    <3>2. r = [c EXCEPT !.picks = picks, !.files = kept]
      BY <1>4 DEF Restricted
    <3>3. r.picks = picks /\ r.files = kept
      BY <3>1, <3>2 DEF Sources
    <3>4. Asked(r) = (IF picks # {} THEN picks ELSE { <<g.kind, g.name>> : g \in kept })
      BY <3>3 DEF Asked
    <3>5. Asked(c) = (IF c.picks # {} THEN c.picks ELSE { <<g.kind, g.name>> : g \in c.files })
      BY DEF Asked
    <3>6. Brings(r, kinds) = { g \in kept : g.part # Evals /\ g.kind \in kinds /\ <<g.kind, g.name>> \in Asked(r) }
      BY <3>3 DEF Brings
    <3>7. <<f.kind, f.name>>[1] = f.kind
      OBVIOUS
    <3>8. <<f.kind, f.name>> \in picks <=> <<f.kind, f.name>> \in c.picks
      BY <3>7
    <3> HIDE DEF c, r
    <3>9. CASE c.picks = {}
      <4>1. picks = {} /\ kept = c.files /\ Asked(r) = Asked(c)
        BY <3>4, <3>5, <3>9
      <4> HIDE DEF picks, kept
      <4> QED BY <3>6, <4>1 DEF c, r
    <3>10. CASE c.picks # {} /\ picks = {}
      <4>1. kept = {}
        BY <3>10
      <4>2. <<f.kind, f.name>> \notin Asked(c)
        BY <3>5, <3>8, <3>10
      <4> HIDE DEF picks, kept
      <4> QED BY <3>6, <4>1, <4>2 DEF c, r
    <3>11. CASE c.picks # {} /\ picks # {}
      <4>1. kept = c.files /\ Asked(r) = picks /\ Asked(c) = c.picks
        BY <3>4, <3>5, <3>11
      <4> HIDE DEF picks, kept
      <4> QED BY <3>6, <3>8, <4>1 DEF c, r
    <3> QED BY <3>9, <3>10, <3>11
  <2> QED BY <2>1, <2>2 DEF Givers
<1> QED BY <1>3, <1>4

\* These are the files of some kinds that the sources give, under a directory.
TheGiven(F, under, kinds) ==
  /\ \A p \in DOMAIN F : \E f \in Files : p = Artifact(under, f)
  /\ \A f \in Files : Artifact(under, f) \in DOMAIN F <=> f.kind \in kinds /\ Given(f) # Nobody
  /\ \A f \in Files : Artifact(under, f) \in DOMAIN F => F[Artifact(under, f)] = Given(f)

\* What a pass over some kinds copies is what the sources give of them.
LEMMA CopiedIs ==
  ASSUME Carrying, NEW kinds, NEW sources, sources = content \/ sources = Restricted(kinds), NEW under
  PROVE  TheGiven(Copied(under, sources, kinds), under, kinds)
<1> DEFINE givers(f) == { i \in DOMAIN sources : f \in Brings(sources[i], kinds) }
           given == { f \in Files : givers(f) # {} }
           F == Copied(under, sources, kinds)
<1>1. F = [p \in { Artifact(under, f) : f \in given } |-> From(Max(givers([ kind |-> p.kind, name |-> p.name, part |-> p.part ])))]
  BY DEF Copied
<1>2. \A f \in Files : f.kind \in kinds => givers(f) = Givers(f)
  BY BringsGiven
<1>3. \A f \in Files : f.kind \notin kinds => givers(f) = {}
  BY DEF Brings
<1>4. \A f \in Files : Given(f) # Nobody <=> Givers(f) # {}
  BY DEF Given, Nobody, From
<1>5. \A f \in Files : f \in given <=> f.kind \in kinds /\ Given(f) # Nobody
  BY <1>2, <1>3, <1>4
<1> HIDE DEF givers
<1>6. DOMAIN F = { Artifact(under, f) : f \in given }
  BY <1>1
<1>7. \A f \in Files : Artifact(under, f) \in DOMAIN F <=> f \in given
  BY <1>6, ArtifactIs
<1>8. ASSUME NEW f \in Files, Artifact(under, f) \in DOMAIN F PROVE F[Artifact(under, f)] = Given(f)
  <2>1. f \in given /\ f.kind \in kinds /\ Given(f) # Nobody
    BY <1>5, <1>7, <1>8
  <2>2. F[Artifact(under, f)] = From(Max(givers([ kind |-> f.kind, name |-> f.name, part |-> f.part ])))
    BY <1>1, <1>6, <1>8, ArtifactIs
  <2>3. [ kind |-> f.kind, name |-> f.name, part |-> f.part ] = f
    BY FileIs
  <2>4. givers(f) = Givers(f) /\ Givers(f) # {}
    BY <1>2, <1>4, <2>1
  <2> QED BY <2>2, <2>3, <2>4 DEF Given
<1>9. \A p \in DOMAIN F : \E f \in Files : p = Artifact(under, f)
  BY <1>6
<1> HIDE DEF F, given
<1>10. \A f \in Files : Artifact(under, f) \in DOMAIN F <=> f.kind \in kinds /\ Given(f) # Nobody
  BY <1>5, <1>7
<1> QED BY <1>8, <1>9, <1>10 DEF F, TheGiven

\* Each delegate is one agent.
LEMMA DelegateFilesAre ==
  ASSUME WalkInv, NEW under
  PROVE  /\ \A p \in DOMAIN DelegateFiles(under) : \E f \in Files : p = Artifact(under, f)
         /\ \A f \in Files : Artifact(under, f) \in DOMAIN DelegateFiles(under) <=> DelegatesOf(f) # {}
         /\ \A f \in Files : Artifact(under, f) \in DOMAIN DelegateFiles(under) => DelegateFiles(under)[Artifact(under, f)] \in DelegatesOf(f)
<1> DEFINE F == DelegateFiles(under)
           name(k) == NameOf[out[k].dir]
<1>1. DOMAIN F = { Artifact(under, Agent(name(k))) : k \in DOMAIN out }
  BY DEF DelegateFiles
<1>2. DOMAIN out \subseteq Nat /\ \A k \in DOMAIN out : out[k].dir \in Dirs
  <2>1. out \in Seq(AgentRecords)
    BY DEF WalkInv, WalkTypes
  <2>2. DOMAIN out = 1..Len(out) /\ Len(out) \in Nat
    BY <2>1
  <2>3. \A k \in DOMAIN out : out[k] \in AgentRecords
    BY <2>1
  <2>4. \A k \in DOMAIN out : out[k].dir \in Dirs
    BY <2>3 DEF AgentRecords
  <2> QED BY <2>2, <2>4
<1>3. \A k \in DOMAIN out : Agent(name(k)) \in Files
  BY <1>2, AssemblyAssumption DEF Agent
<1>4. \A i, j \in DOMAIN out : name(i) = name(j) => i = j
  BY DEF WalkInv, AgentsAreReached
<1>5. \A f \in Files : DelegatesOf(f) = { [ by |-> "delegate", of |-> out[k].dir ] : k \in { k \in DOMAIN out : Agent(name(k)) = f } }
  BY DEF DelegatesOf
<1>6. ASSUME NEW k \in DOMAIN out
      PROVE  F[Artifact(under, Agent(name(k)))] = [ by |-> "delegate", of |-> out[k].dir ]
  <2> DEFINE p == Artifact(under, Agent(name(k)))
             S == { j \in DOMAIN out : name(j) = p.name }
  <2>1. p \in DOMAIN F
    BY <1>1
  <2>2. F[p] = [ by |-> "delegate", of |-> out[Max(S)].dir ]
    BY <1>1, <2>1 DEF DelegateFiles
  <2>3. p.name = name(k)
    BY DEF Artifact, Agent
  <2>4. S = {k}
    BY <1>4, <2>3
  <2>5. Max({k}) = k
    <3>1. k \in Nat
      BY <1>2
    <3>2. \E x \in {k} : \A y \in {k} : x >= y
      BY <3>1
    <3> QED BY <3>2 DEF Max
  <2> QED BY <2>2, <2>4, <2>5
<1>7. ASSUME NEW f \in Files PROVE Artifact(under, f) \in DOMAIN F <=> \E k \in DOMAIN out : Agent(name(k)) = f
  BY <1>1, <1>3, ArtifactIs
<1>8. \A f \in Files : Artifact(under, f) \in DOMAIN F <=> DelegatesOf(f) # {}
  <2> TAKE f \in Files
  <2>1. DelegatesOf(f) # {} <=> \E k \in DOMAIN out : Agent(name(k)) = f
    <3>1. ASSUME NEW k \in DOMAIN out, Agent(name(k)) = f PROVE DelegatesOf(f) # {}
      <4>1. [ by |-> "delegate", of |-> out[k].dir ] \in DelegatesOf(f)
        BY <1>5, <3>1
      <4> QED BY <4>1
    <3>2. ASSUME NEW d, d \in DelegatesOf(f) PROVE \E k \in DOMAIN out : Agent(name(k)) = f
      BY <1>5, <3>2
    <3> QED BY <3>1, <3>2
  <2> QED BY <1>7, <2>1
<1>9. ASSUME NEW f \in Files, Artifact(under, f) \in DOMAIN F PROVE F[Artifact(under, f)] \in DelegatesOf(f)
  <2>1. PICK k \in DOMAIN out : Agent(name(k)) = f
    BY <1>7, <1>9
  <2>2. F[Artifact(under, f)] = [ by |-> "delegate", of |-> out[k].dir ]
    BY <1>6, <2>1
  <2>3. [ by |-> "delegate", of |-> out[k].dir ] \in DelegatesOf(f)
    BY <1>5, <2>1
  <2> QED BY <2>2, <2>3
<1>10. \A p \in DOMAIN F : \E f \in Files : p = Artifact(under, f)
  BY <1>1, <1>3
<1> QED BY <1>8, <1>9, <1>10

-----------------------------------------------------------------------------
\* Each step that writes brings what it should.

\* Now is a step that writes.
WritesNow(do) == Carrying /\ stage \in 3..Len(Plan(request)) /\ Now.do = do

LEMMA NowIs ==
  ASSUME Requested, stage \in 3..Len(Plan(request))
  PROVE  OrderedAt(stage) /\ Now = Plan(request)[stage] /\ Where = Place(Now) /\ Tool = Now.tool
BY Ordered DEF Now, Where, Place, Tool

\* A step without artifacts.
LEMMA GivesNone ==
  ASSUME NEW s, s.do \notin {"copy", "artifacts", "delegates"}, NEW F, \A p \in DOMAIN F : p.kind \notin Kinds
  PROVE  Gives(s, F)
<1>1. \A under \in Unders, f \in Files : Artifact(under, f) \notin DOMAIN F
  <2> TAKE under \in Unders, f \in Files
  <2>1. Artifact(under, f).kind = f.kind /\ f.kind \in Kinds
    BY FileIs, ArtifactIs
  <2> QED BY <2>1
<1>2. \A under, kind : ~Copies(s, under, kind) /\ ~Hands(s, under)
  BY DEF Copies, Hands
<1> QED BY <1>1, <1>2 DEF Gives

Marked == {"hooks", "mcp", "manifest", "package", "script"}

\* A step without the files that others name.
LEMMA MarksNone ==
  ASSUME NEW s, s.do \notin {"manifest", "hooks", "scripts"}, NEW F, NEW files,
         \A p \in DOMAIN F : Allowed(p) /\ p.kind \notin Marked
  PROVE  Marks(s, F, files)
<1>1. HookFile(None, Claude) \notin DOMAIN F
  BY PathsAre DEF Marked
<1>2. ForBoth(F)
  BY <1>1 DEF ForBoth
<1> QED BY <1>2 DEF Marks, Marked

\* An artifact may be anywhere.
LEMMA AllowedArtifact ==
  ASSUME NEW f \in Files, NEW under, NEW p, p = Artifact(under, f)
  PROVE  Allowed(p) /\ p.kind \notin Marked
<1>1. p.kind \notin {"hooks", "wrapper", "mcp", "serverScript", "instructions", "manifest", "package", "own", "script"}
  BY FileIs, ArtifactIs
<1> QED BY <1>1 DEF Allowed, Marked

LEMMA NothingWritten == DOMAIN NoFile = {}
BY DEF NoFile

LEMMA OnlyIs == \A p, v : DOMAIN Only(p, v) = {p} /\ Only(p, v)[p] = v
BY DEF Only

\* The copy of the sources.
LEMMA CopyWrites ==
  ASSUME WritesNow("copy")
  PROVE  Gives(Now, Copied(None, CopySources, CopyKinds)) /\ Marks(Now, Copied(None, CopySources, CopyKinds), Here)
<1> DEFINE F == Copied(None, CopySources, CopyKinds)
<1>1. CopySources = content \/ CopySources = Restricted(CopyKinds)
  BY DEF CopySources
<1>2. CopyKinds = CopiedKinds(Now.tool)
  BY DEF CopyKinds, CopiedKinds, Tool
<1>3. /\ \A p \in DOMAIN F : \E f \in Files : p = Artifact(None, f)
      /\ \A f \in Files : Artifact(None, f) \in DOMAIN F <=> f.kind \in CopyKinds /\ Given(f) # Nobody
      /\ \A f \in Files : Artifact(None, f) \in DOMAIN F => F[Artifact(None, f)] = Given(f)
  <2> DEFINE under == None
             sources == CopySources
             kinds == CopyKinds
  <2>1. Carrying /\ (sources = content \/ sources = Restricted(kinds)) /\ F = Copied(under, sources, kinds)
    BY <1>1 DEF WritesNow
  <2> HIDE DEF under, sources, kinds, F
  <2>2. TheGiven(Copied(under, sources, kinds), under, kinds)
    BY <2>1, CopiedIs
  <2> QED BY <2>1, <2>2 DEF TheGiven, under, kinds
<1>4. Now.do = "copy"
  BY DEF WritesNow
<1>5. \A under, kind : Copies(Now, under, kind) <=> under = None /\ kind \in CopyKinds
  BY <1>2, <1>4 DEF Copies
<1>6. \A under : ~Hands(Now, under)
  BY <1>4 DEF Hands
<1> HIDE DEF F
<1>7. \A under \in Unders, f \in Files : Artifact(under, f) \in DOMAIN F => under = None
  BY <1>3, ArtifactIs
<1>8. Gives(Now, F)
  BY <1>3, <1>5, <1>6, <1>7 DEF Gives
<1>9. \A p \in DOMAIN F : Allowed(p) /\ p.kind \notin Marked
  BY <1>3, AllowedArtifact
<1>10. Marks(Now, F, Here)
  BY <1>4, <1>9, MarksNone
<1> QED BY <1>8, <1>10 DEF F

\* The artifacts of one tool in an Agent Plugins package.
LEMMA ArtifactsWrite ==
  ASSUME WritesNow("artifacts"), NEW kinds, kinds = Adapter(Tool).kinds \ {"skills"}, NEW F,
         F = IF Tool \in Reads("artifacts") THEN Copied(Adapter(Tool).under, Restricted(kinds), kinds) ELSE NoFile
  PROVE  Gives(Now, F) /\ Marks(Now, F, Here)
<1>1. Now.do = "artifacts" /\ Tool = Now.tool
  BY DEF WritesNow, Tool
<1>2. \A under, kind : Copies(Now, under, kind) <=> Tool \in Reads("artifacts") /\ under = Adapter(Tool).under /\ kind \in kinds
  BY <1>1 DEF Copies
<1>3. \A under : ~Hands(Now, under)
  BY <1>1 DEF Hands
<1>4. CASE Tool \in Reads("artifacts")
  <2> DEFINE base == Adapter(Tool).under
             sources == Restricted(kinds)
  <2>5. Carrying /\ F = Copied(base, sources, kinds) /\ (sources = content \/ sources = Restricted(kinds))
    BY <1>4 DEF WritesNow
  <2>6. \A under, kind : Copies(Now, under, kind) <=> under = base /\ kind \in kinds
    BY <1>2, <1>4
  <2> HIDE DEF base, sources
  <2>1. /\ \A p \in DOMAIN F : \E f \in Files : p = Artifact(base, f)
        /\ \A f \in Files : Artifact(base, f) \in DOMAIN F <=> f.kind \in kinds /\ Given(f) # Nobody
        /\ \A f \in Files : Artifact(base, f) \in DOMAIN F => F[Artifact(base, f)] = Given(f)
    <3>1. TheGiven(Copied(base, sources, kinds), base, kinds)
      BY <2>5, CopiedIs
    <3> QED BY <2>5, <3>1 DEF TheGiven
  <2>2. ASSUME NEW under \in Unders, NEW f \in Files, Artifact(under, f) \in DOMAIN F PROVE under = base
    <3>1. PICK g \in Files : Artifact(under, f) = Artifact(base, g)
      BY <2>1, <2>2
    <3> QED BY <3>1, ArtifactIs
  <2>3. Gives(Now, F)
    BY <1>3, <2>1, <2>2, <2>6 DEF Gives
  <2>4. \A p \in DOMAIN F : Allowed(p) /\ p.kind \notin Marked
    BY <2>1, AllowedArtifact
  <2> QED BY <1>1, <2>3, <2>4, MarksNone
<1>5. CASE Tool \notin Reads("artifacts")
  <2>1. DOMAIN F = {}
    BY <1>5, NothingWritten
  <2>2. Gives(Now, F)
    BY <1>2, <1>3, <1>5, <2>1 DEF Gives
  <2> QED BY <1>1, <2>1, <2>2, MarksNone
<1> QED BY <1>4, <1>5

\* The delegates.
LEMMA DelegatesWrite ==
  ASSUME WritesNow("delegates"), WalkInv, NEW F,
         F = CASE request.mode = "merged" -> DelegateFiles(None)
               [] request.mode = "each" -> IF Tool \in TakesDelegates THEN DelegateFiles(None) ELSE NoFile
               [] OTHER -> IF Tool \in TakesDelegates \intersect Reads("artifacts") THEN DelegateFiles(Adapter(Tool).under) ELSE NoFile
  PROVE  Gives(Now, F) /\ Marks(Now, F, Here)
<1>1. Now.do = "delegates" /\ Tool = Now.tool
  BY DEF WritesNow, Tool
<1>2. \A under, kind : ~Copies(Now, under, kind)
  BY <1>1 DEF Copies
<1>3. ASSUME NEW under, F = DelegateFiles(under), \A u : Hands(Now, u) <=> u = under PROVE Gives(Now, F) /\ Marks(Now, F, Here)
  <2>1. /\ \A p \in DOMAIN F : \E f \in Files : p = Artifact(under, f)
        /\ \A f \in Files : Artifact(under, f) \in DOMAIN F <=> DelegatesOf(f) # {}
        /\ \A f \in Files : Artifact(under, f) \in DOMAIN F => F[Artifact(under, f)] \in DelegatesOf(f)
    BY <1>3, DelegateFilesAre
  <2>2. \A u \in Unders, f \in Files : Artifact(u, f) \in DOMAIN F => u = under
    BY <2>1, ArtifactIs
  <2>3. Gives(Now, F)
    BY <1>2, <1>3, <2>1, <2>2 DEF Gives
  <2>4. \A p \in DOMAIN F : Allowed(p) /\ p.kind \notin Marked
    BY <2>1, AllowedArtifact
  <2> QED BY <1>1, <2>3, <2>4, MarksNone
<1>4. ASSUME F = NoFile, \A u : ~Hands(Now, u) PROVE Gives(Now, F) /\ Marks(Now, F, Here)
  <2>1. DOMAIN F = {}
    BY <1>4, NothingWritten
  <2>2. Gives(Now, F)
    BY <1>2, <1>4, <2>1 DEF Gives
  <2> QED BY <1>1, <2>1, <2>2, MarksNone
<1>5. CASE request.mode = "merged"
  BY <1>1, <1>3, <1>5 DEF Hands
<1>6. CASE request.mode = "each"
  BY <1>1, <1>3, <1>4, <1>6 DEF Hands
<1>7. CASE request.mode \notin {"merged", "each"}
  <2>1. Reads("artifacts") \subseteq TakesDelegates
    <3>1. Adapter(Claude).delegates /\ Adapter(Copilot).delegates
      BY ToolsDiffer DEF Adapter, ClaudeLayout, CopilotLayout, Layout
    <3> QED BY <3>1, AdaptersAre DEF TakesDelegates, Tools
  <2>2. CASE Tool \in Reads("artifacts")
    BY <1>1, <1>3, <1>7, <2>1, <2>2 DEF Hands
  <2>3. CASE Tool \notin Reads("artifacts")
    BY <1>1, <1>4, <1>7, <2>3 DEF Hands
  <2> QED BY <2>2, <2>3
<1> QED BY <1>5, <1>6, <1>7

\* The instructions.
LEMMA InstructionsWrite ==
  ASSUME WritesNow("instructions"), NEW F, F = IF Instructs /\ Carried THEN Only(Prompt, Made("instructions")) ELSE NoFile
  PROVE  Gives(Now, F) /\ Marks(Now, F, Here)
<1>1. Now.do = "instructions"
  BY DEF WritesNow
<1>2. DOMAIN F \subseteq {Prompt}
  BY OnlyIs, NothingWritten
<1>3. Prompt.kind = "instructions"
  BY PathsAre
<1>4. \A p \in DOMAIN F : Allowed(p) /\ p.kind \notin Marked /\ p.kind \notin Kinds
  BY <1>2, <1>3 DEF Allowed, Marked, Kinds
<1> QED BY <1>1, <1>4, GivesNone, MarksNone

\* The servers of a tool.
LEMMA ServersWrite ==
  ASSUME WritesNow("servers"), NEW F,
         F = IF request.servers = "none" \/ (request.mode = "agentPlugin" /\ Tool \notin Reads("servers")) THEN NoFile
             ELSE Over(Only(MCPFile(Tool), Made("servers")), IF request.mode = "agentPlugin" THEN NoFile ELSE Only(ServerScript, Made("script")))
  PROVE  Gives(Now, F) /\ Marks(Now, F, Here)
<1>1. Now.do = "servers" /\ Tool = Now.tool
  BY DEF WritesNow, Tool
<1>2. DOMAIN F \subseteq {MCPFile(Tool), ServerScript} /\ (DOMAIN F # {} => request.servers # "none")
  <2> DEFINE script == IF request.mode = "agentPlugin" THEN NoFile ELSE Only(ServerScript, Made("script"))
  <2>1. DOMAIN script \subseteq {ServerScript}
    BY OnlyIs, NothingWritten
  <2> HIDE DEF script
  <2>2. DOMAIN Over(Only(MCPFile(Tool), Made("servers")), script) \subseteq {MCPFile(Tool), ServerScript}
    <3> DEFINE made == Only(MCPFile(Tool), Made("servers"))
    <3>1. DOMAIN made = {MCPFile(Tool)}
      BY OnlyIs
    <3> HIDE DEF made
    <3>2. DOMAIN Over(made, script) = DOMAIN made \union DOMAIN script
      BY OverIs
    <3> QED BY <2>1, <3>1, <3>2 DEF made
  <2>3. CASE request.servers = "none" \/ (request.mode = "agentPlugin" /\ Tool \notin Reads("servers"))
    BY <2>3, NothingWritten
  <2>4. CASE ~(request.servers = "none" \/ (request.mode = "agentPlugin" /\ Tool \notin Reads("servers")))
    <3>1. F = Over(Only(MCPFile(Tool), Made("servers")), script)
      BY <2>4 DEF script
    <3> QED BY <2>2, <2>4, <3>1
  <2> QED BY <2>3, <2>4
<1>3. \A p \in DOMAIN F : Allowed(p) /\ p.kind \in {"mcp", "serverScript"} /\ (p.kind = "mcp" => p.name = Tool)
  BY <1>2, PathsAre DEF Allowed
<1>4. HookFile(None, Claude) \notin DOMAIN F
  BY <1>3, PathsAre
<1>5. Gives(Now, F)
  BY <1>1, <1>3, GivesNone DEF Kinds
<1>6. ForBoth(F)
  BY <1>4 DEF ForBoth
<1>7. Marks(Now, F, Here)
  BY <1>1, <1>3, <1>6 DEF Marks
<1> QED BY <1>5, <1>7

\* The servers in the portable format.
LEMMA PortableWrites ==
  ASSUME WritesNow("portable"), NEW F,
         F = Over(IF request.servers = "portable" THEN Only(PortableMCP, Made("servers")) ELSE NoFile,
                  IF request.servers # "none" THEN Only(ServerScript, Made("script")) ELSE NoFile)
  PROVE  Gives(Now, F) /\ Marks(Now, F, Here)
<1>1. Now.do = "portable"
  BY DEF WritesNow
<1>2. DOMAIN F \subseteq {PortableMCP, ServerScript} /\ (DOMAIN F # {} => request.servers # "none")
  <2> DEFINE servers == IF request.servers = "portable" THEN Only(PortableMCP, Made("servers")) ELSE NoFile
             script == IF request.servers # "none" THEN Only(ServerScript, Made("script")) ELSE NoFile
  <2>1. DOMAIN servers \subseteq {PortableMCP} /\ (DOMAIN servers # {} => request.servers # "none")
    BY OnlyIs, NothingWritten
  <2>2. DOMAIN script \subseteq {ServerScript} /\ (DOMAIN script # {} => request.servers # "none")
    BY OnlyIs, NothingWritten
  <2>3. F = Over(servers, script)
    OBVIOUS
  <2> HIDE DEF servers, script
  <2>4. DOMAIN F = DOMAIN servers \union DOMAIN script
    BY <2>3, OverIs
  <2> QED BY <2>1, <2>2, <2>4
<1>3. \A p \in DOMAIN F : Allowed(p) /\ p.kind \in {"mcp", "serverScript"} /\ (p.kind = "mcp" => p = PortableMCP)
  BY <1>2, PathsAre DEF Allowed
<1>4. HookFile(None, Claude) \notin DOMAIN F
  BY <1>3, PathsAre
<1>5. Gives(Now, F)
  BY <1>1, <1>3, GivesNone DEF Kinds
<1>6. ForBoth(F)
  BY <1>4 DEF ForBoth
<1>7. Marks(Now, F, Here)
  BY <1>1, <1>3, <1>6 DEF Marks
<1> QED BY <1>5, <1>7

\* The manifest of a tool, after what it names.
LEMMA ManifestWrites ==
  ASSUME WritesNow("manifest"), NEW F,
         F = CASE Tool = OpenCode \/ (request.mode = "agentPlugin" /\ Adapter(Tool).loads) -> NoFile
               [] OTHER -> Only(ManifestFile(Tool), Made(Pointers(Tool, Here)))
  PROVE  Gives(Now, F) /\ Marks(Now, F, Here)
<1>1. Now.do = "manifest" /\ Tool = Now.tool
  BY DEF WritesNow, Tool
<1>2. Tool \in Wants
  BY <1>1, NowIs DEF WritesNow, Carrying, OrderedAt
<1>3. CASE ~Describes(Tool)
  <2>1. DOMAIN F = {}
    BY <1>3, NothingWritten DEF Describes
  <2>2. Gives(Now, F)
    BY <1>1, <2>1, GivesNone
  <2>3. ForBoth(F)
    BY <2>1 DEF ForBoth
  <2>4. Marks(Now, F, Here)
    BY <1>1, <1>3, <2>1, <2>3 DEF Marks
  <2> QED BY <2>2, <2>4
<1>4. CASE Describes(Tool)
  <2>1. F = Only(ManifestFile(Tool), Made(Pointers(Tool, Here)))
    BY <1>4 DEF Describes
  <2>2. DOMAIN F = {ManifestFile(Tool)} /\ F[ManifestFile(Tool)].of = Pointers(Tool, Here)
    <3>1. DOMAIN F = {ManifestFile(Tool)} /\ F[ManifestFile(Tool)] = Made(Pointers(Tool, Here))
      BY <2>1, OnlyIs
    <3>2. Made(Pointers(Tool, Here)).of = Pointers(Tool, Here)
      BY DEF Made
    <3> QED BY <3>1, <3>2
  <2>3. ManifestFile(Tool).kind = "manifest"
    BY PathsAre
  <2>4. Allowed(ManifestFile(Tool))
    BY <1>2, <1>4, <2>3 DEF Allowed
  <2>5. Gives(Now, F)
    BY <1>1, <2>2, <2>3, GivesNone DEF Kinds
  <2>6. ForBoth(F)
    BY <2>2, <2>3, PathsAre DEF ForBoth
  <2>7. Marks(Now, F, Here)
    BY <1>1, <2>2, <2>3, <2>4, <2>6 DEF Marks
  <2> QED BY <2>5, <2>7
<1> QED BY <1>3, <1>4

\* The manifest of the package, last of all.
LEMMA PackageWrites ==
  ASSUME WritesNow("package"), NEW F, F = Only(PackageManifest, Made({ HookFile(Codex, Codex) } \intersect DOMAIN Here))
  PROVE  Gives(Now, F) /\ Marks(Now, F, Here)
<1>1. Now.do = "package"
  BY DEF WritesNow
<1>2. DOMAIN F = {PackageManifest} /\ F[PackageManifest].of = { HookFile(Codex, Codex) } \intersect DOMAIN Here
  <2>1. DOMAIN F = {PackageManifest} /\ F[PackageManifest] = Made({ HookFile(Codex, Codex) } \intersect DOMAIN Here)
    BY OnlyIs
  <2>2. Made({ HookFile(Codex, Codex) } \intersect DOMAIN Here).of = { HookFile(Codex, Codex) } \intersect DOMAIN Here
    BY DEF Made
  <2> QED BY <2>1, <2>2
<1>3. PackageManifest.kind = "package"
  BY PathsAre
<1>4. Allowed(PackageManifest)
  BY <1>3 DEF Allowed
<1>5. Gives(Now, F)
  BY <1>1, <1>2, <1>3, GivesNone DEF Kinds
<1>6. ForBoth(F)
  BY <1>2, <1>3, PathsAre DEF ForBoth
<1>7. Marks(Now, F, Here)
  BY <1>1, <1>2, <1>3, <1>4, <1>6 DEF Marks
<1> QED BY <1>5, <1>7

-----------------------------------------------------------------------------
\* The hooks and their scripts.

\* The hooks' scripts have a place each: that of the source, and there the
\* script.
LEMMA FolderIsOwn ==
  ASSUME NEW i \in Hooking(content), NEW j \in Hooking(content), Folder(content, i) = Folder(content, j)
  PROVE  i = j
<1> SUFFICES ASSUME i # j PROVE FALSE
  OBVIOUS
<1>1. /\ Folder(content, i)[1] = content[i].label /\ Folder(content, j)[1] = content[j].label
      /\ Folder(content, i)[2] = (IF Shared(content, i) THEN i ELSE 0)
      /\ Folder(content, j)[2] = (IF Shared(content, j) THEN j ELSE 0)
  BY DEF Folder
<1>2. content[i].label = content[j].label
  BY <1>1
<1>3. Shared(content, i) /\ Shared(content, j)
  BY <1>2 DEF Shared
<1> QED BY <1>1, <1>3

Wanted == UNION { { <<Folder(content, i), s, i>> : s \in content[i].hooks } : i \in Hooking(content) }

LEMMA WantedIs ==
  \A w : w \in Wanted <=> \E i \in Hooking(content) : \E s \in content[i].hooks : w = <<Folder(content, i), s, i>>
BY DEF Wanted

\* Every script has a place of its own, so none is copied over another.
LEMMA HookScriptsAre ==
  ASSUME content \in Contents
  PROVE  /\ HookScripts(content) = Wanted
         /\ \A i \in Hooking(content) : \A s \in content[i].hooks :
              /\ <<Folder(content, i), s, i>> \in Wanted
              /\ \A w \in Wanted : w[1] = Folder(content, i) /\ w[2] = s => w = <<Folder(content, i), s, i>>
<1>1. HookScripts(content) = { w \in Wanted : \A o \in Wanted : o[1] = w[1] /\ o[2] = w[2] => w[3] >= o[3] }
  BY DEF HookScripts, Wanted
<1>2. \A i \in Hooking(content) : i \in Nat
  <2>1. content \in Seq(Sources)
    BY AssemblyAssumption
  <2>2. DOMAIN content = 1..Len(content) /\ Len(content) \in Nat
    BY <2>1
  <2> QED BY <2>2 DEF Hooking
<1>3. ASSUME NEW i \in Hooking(content), NEW s \in content[i].hooks, NEW w \in Wanted, w[1] = Folder(content, i), w[2] = s
      PROVE  w = <<Folder(content, i), s, i>>
  <2>4. PICK j \in Hooking(content) : \E c \in content[j].hooks : w = <<Folder(content, j), c, j>>
    BY <1>3, WantedIs
  <2>1. PICK c \in content[j].hooks : w = <<Folder(content, j), c, j>>
    BY <2>4
  <2>2. w[1] = Folder(content, j) /\ w[2] = c
    BY <2>1
  <2>3. i = j /\ c = s
    BY <1>3, <2>2, FolderIsOwn
  <2> QED BY <2>1, <2>3
<1>4. ASSUME NEW w \in Wanted, NEW o \in Wanted, o[1] = w[1], o[2] = w[2] PROVE w[3] >= o[3]
  <2>4. PICK i \in Hooking(content) : \E s \in content[i].hooks : w = <<Folder(content, i), s, i>>
    BY <1>4, WantedIs
  <2>1. PICK s \in content[i].hooks : w = <<Folder(content, i), s, i>>
    BY <2>4
  <2>2. w[1] = Folder(content, i) /\ w[2] = s /\ w[3] = i
    BY <2>1
  <2>3. o = w
    BY <1>3, <1>4, <2>1, <2>2
  <2> QED BY <1>2, <2>2, <2>3
<1>5. HookScripts(content) = Wanted
  BY <1>1, <1>4
<1>6. \A i \in Hooking(content) : \A s \in content[i].hooks : <<Folder(content, i), s, i>> \in Wanted
  BY WantedIs
<1> QED BY <1>3, <1>5, <1>6

\* The scripts that the hooks run.
LEMMA ScriptsWrite ==
  ASSUME WritesNow("scripts"), NEW F,
         F = IF \A f \in DOMAIN Here : f.kind # "hooks" THEN NoFile
             ELSE [f \in { Path(None, "script", <<w[1], w[2]>>) : w \in HookScripts(content) } |->
                     From(CHOOSE i \in DOMAIN content : <<f.name[1], f.name[2], i>> \in HookScripts(content))]
  PROVE  Gives(Now, F) /\ Marks(Now, F, Here)
<1>1. Now.do = "scripts" /\ content \in Contents
  BY DEF WritesNow, Carrying
<1>2. \A p \in DOMAIN F : p.kind = "script" /\ Allowed(p)
  <2> TAKE p \in DOMAIN F
  <2>1. PICK w \in HookScripts(content) : p = Path(None, "script", <<w[1], w[2]>>)
    BY NothingWritten
  <2>2. p.kind = "script"
    BY <2>1 DEF Path
  <2>3. Hooked
    <3>1. w \in Wanted
      BY <1>1, <2>1, HookScriptsAre
    <3> QED BY <3>1, WantedIs DEF Hooked
  <2> QED BY <2>2, <2>3 DEF Allowed
<1>3. ASSUME \E p \in DOMAIN Here : p.kind = "hooks", NEW i \in Hooking(content), NEW c \in content[i].hooks
      PROVE  ScriptOf(i, c) \in DOMAIN F /\ F[ScriptOf(i, c)] = From(i)
  <2>1. F = [f \in { Path(None, "script", <<w[1], w[2]>>) : w \in HookScripts(content) } |->
                     From(CHOOSE j \in DOMAIN content : <<f.name[1], f.name[2], j>> \in HookScripts(content))]
    BY <1>3
  <2> DEFINE w == <<Folder(content, i), c, i>>
             p == ScriptOf(i, c)
  <2>2. w \in HookScripts(content) /\ w[1] = Folder(content, i) /\ w[2] = c
    BY <1>1, HookScriptsAre
  <2>3. p = Path(None, "script", <<w[1], w[2]>>)
    BY DEF ScriptOf
  <2>4. p \in DOMAIN F
    <3>1. DOMAIN F = { Path(None, "script", <<x[1], x[2]>>) : x \in HookScripts(content) }
      BY <2>1
    <3> HIDE DEF w, p
    <3> QED BY <2>2, <2>3, <3>1
  <2>5. p.name[1] = Folder(content, i) /\ p.name[2] = c
    BY DEF ScriptOf, Path
  <2>6. F[p] = From(CHOOSE j \in DOMAIN content : <<p.name[1], p.name[2], j>> \in HookScripts(content))
    BY <2>1, <2>4
  <2>7. i \in DOMAIN content
    BY DEF Hooking
  <2>8. \A j : <<Folder(content, i), c, j>> \in HookScripts(content) <=> j = i
    <3> TAKE j
    <3> DEFINE o == <<Folder(content, i), c, j>>
    <3>1. o[1] = Folder(content, i) /\ o[2] = c /\ o[3] = j /\ w[3] = i
      OBVIOUS
    <3>2. o \in HookScripts(content) => o = w
      BY <1>1, <3>1, HookScriptsAre
    <3> QED BY <2>2, <3>1, <3>2
  <2>9. (CHOOSE j \in DOMAIN content : <<p.name[1], p.name[2], j>> \in HookScripts(content)) = i
    BY <2>5, <2>7, <2>8
  <2> QED BY <2>4, <2>6, <2>9
<1>4. Gives(Now, F)
  BY <1>1, <1>2, GivesNone DEF Kinds
<1>5. ForBoth(F)
  BY <1>2, PathsAre DEF ForBoth
<1> QED BY <1>1, <1>2, <1>3, <1>4, <1>5 DEF Marks

LEMMA WrappedIs ==
  ASSUME NEW p, NEW v
  PROVE  LET F == Over(Only(p, v), Wrapped) IN
         /\ p \in DOMAIN F /\ DOMAIN F \subseteq {p, Wrapper} /\ F[p] = v
         /\ request.starts => Wrapper \in DOMAIN F
<1> DEFINE made == Only(p, v)
           F == Over(made, Wrapped)
<1>1. DOMAIN made = {p} /\ made[p] = v
  BY OnlyIs
<1>2. DOMAIN Wrapped \subseteq {Wrapper} /\ (request.starts => Wrapper \in DOMAIN Wrapped)
  <2>1. CASE request.starts
    <3>1. Wrapped = Only(Wrapper, Made("wrapper"))
      BY <2>1 DEF Wrapped
    <3>2. DOMAIN Only(Wrapper, Made("wrapper")) = {Wrapper}
      BY OnlyIs
    <3>3. DOMAIN Wrapped = {Wrapper}
      BY <3>1, <3>2
    <3> QED BY <3>3
  <2>2. CASE ~request.starts
    <3>1. Wrapped = NoFile
      BY <2>2 DEF Wrapped
    <3> QED BY <2>2, <3>1, NothingWritten
  <2> QED BY <2>1, <2>2
<1> HIDE DEF made
<1>3. DOMAIN F = DOMAIN made \union DOMAIN Wrapped /\ \A q \in DOMAIN made : F[q] = made[q]
  BY OverIs
<1> HIDE DEF F
<1>4. p \in DOMAIN F /\ DOMAIN F \subseteq {p, Wrapper} /\ F[p] = v /\ (request.starts => Wrapper \in DOMAIN F)
  BY <1>1, <1>2, <1>3
<1> QED BY <1>4 DEF F, made

\* What a tool's adapter makes of the hooks.
LEMMA ConfigIs ==
  ASSUME NEW t \in Tools, NEW both \in BOOLEAN
  PROVE  /\ HookFile(None, t) \in DOMAIN HookConfig(t, both)
         /\ DOMAIN HookConfig(t, both) \subseteq {HookFile(None, t), Wrapper}
         /\ request.starts /\ (t \in {Copilot, Cursor} \/ (t = Claude /\ both)) => Wrapper \in DOMAIN HookConfig(t, both)
         /\ t = Claude /\ both => HookConfig(t, both)[HookFile(None, Claude)] = Made("both")
<1> USE ToolsDiffer
<1>1. /\ HookConfig(Claude, both) = ClaudeHooks(both) /\ HookConfig(Codex, both) = CodexHooks
      /\ HookConfig(Copilot, both) = CopilotHooks /\ HookConfig(Cursor, both) = CursorHooks
      /\ HookConfig(OpenCode, both) = OpenCodeHooks
  BY DEF HookConfig
<1>2. CASE t = Claude /\ both
  <2>1. HookConfig(t, both) = Over(Only(HookFile(None, Claude), Made("both")), Wrapped)
    BY <1>1, <1>2 DEF ClaudeHooks
  <2> QED BY <1>2, <2>1, WrappedIs
<1>3. CASE t \in {Copilot, Cursor}
  <2>1. HookConfig(t, both) = Over(Only(HookFile(None, t), Made("own")), Wrapped)
    BY <1>1, <1>3 DEF CopilotHooks, CursorHooks
  <2> QED BY <1>3, <2>1, WrappedIs
<1>4. CASE (t = Claude /\ ~both) \/ t \in {Codex, OpenCode}
  <2>1. HookConfig(t, both) = Only(HookFile(None, t), Made("own"))
    BY <1>1, <1>4 DEF ClaudeHooks, CodexHooks, OpenCodeHooks
  <2>2. DOMAIN HookConfig(t, both) = {HookFile(None, t)}
    BY <2>1, OnlyIs
  <2>3. t \notin {Copilot, Cursor} /\ ~(t = Claude /\ both)
    BY <1>4
  <2> QED BY <2>2, <2>3
<1> QED BY <1>2, <1>3, <1>4 DEF Tools

\* The hooks of a tool: one file, where the tool looks for it, and the wrapper it needs.
LEMMA HooksWrite ==
  ASSUME WritesNow("hooks"), WriteHooks
  PROVE  \E F : Put(F) /\ Gives(Now, F) /\ Marks(Now, F, Here)
<1>1. Now.do = "hooks" /\ Tool = Now.tool /\ Where = Place(Now) /\ OrderedAt(stage) /\ Now = Plan(request)[stage] /\ Requested
  BY NowIs DEF WritesNow, Carrying
<1>2. Tool \in Wants /\ Tool \in Tools
  BY <1>1, WantsAre DEF OrderedAt
<1>3. \A u : Hooked => Allowed(HookFile(u, Tool)) /\ Allowed(Wrapper)
  BY <1>2, PathsAre DEF Allowed
\* What is left to show of a file the step writes.
<1>4. ASSUME NEW F, Put(F), NEW u, DOMAIN F \subseteq {HookFile(u, Tool), Wrapper}, DOMAIN F # {} => Hooked, ForBoth(F),
             ASSUME Hooked, NEW t \in ToolsOf(Where), ReadsSome(t), HooksBy(t) = Tool
             PROVE  /\ ReadsHooks(t) \in DOMAIN F
                    /\ request.mode # "agentPlugin" /\ request.starts /\ t \in {Copilot, Cursor} => Wrapper \in DOMAIN F
      PROVE  \E G : Put(G) /\ Gives(Now, G) /\ Marks(Now, G, Here)
  <2>1. \A p \in DOMAIN F : Allowed(p) /\ p.kind \in {"hooks", "wrapper"} /\ (p.kind = "hooks" => p.name = Tool)
    BY <1>3, <1>4, PathsAre
  <2>2. Gives(Now, F)
    BY <1>1, <2>1, GivesNone DEF Kinds
  <2>3. Marks(Now, F, Here)
    BY <1>1, <1>4, <2>1 DEF Marks
  <2> QED BY <1>4, <2>2, <2>3
<1>5. CASE ~Hooked
  <2>1. Put(NoFile) /\ ForBoth(NoFile)
    BY <1>5, NothingWritten DEF WriteHooks, ForBoth
  <2> QED BY <1>4, <1>5, <2>1, NothingWritten
<1>6. CASE Hooked /\ request.mode = "agentPlugin"
  <2>1. ~Merging(Claude) /\ \A t : HooksBy(t) = t
    BY <1>6 DEF Merging, HooksBy
  <2>2. \A t : ReadsSome(t) => t \in Reads("hooks")
    BY <1>6 DEF ReadsSome
  <2>3. CASE Tool \notin Reads("hooks")
    <3>1. Put(NoFile) /\ ForBoth(NoFile)
      BY <1>6, <2>3, NothingWritten DEF WriteHooks, ForBoth
    <3> QED BY <1>4, <2>1, <2>2, <2>3, <3>1, NothingWritten
  <2>4. CASE Tool \in Reads("hooks")
    <3>1. PICK v : Put(Only(HookFile(Adapter(Tool).under, Tool), v))
      BY <1>6, <2>4 DEF WriteHooks
    <3> DEFINE u == Adapter(Tool).under
               F == Only(HookFile(u, Tool), v)
    <3>2. DOMAIN F = {HookFile(u, Tool)} /\ Put(F)
      BY <3>1, OnlyIs
    <3>3. ReadsHooks(Tool) = HookFile(u, Tool)
      BY <1>6, <2>1 DEF ReadsHooks
    <3> HIDE DEF F, u
    <3>4. ForBoth(F)
      BY <2>1 DEF ForBoth
    <3> QED BY <1>4, <1>6, <2>1, <3>2, <3>3, <3>4
  <2> QED BY <2>3, <2>4
<1>7. CASE Hooked /\ request.mode # "agentPlugin" /\ Tool = Copilot /\ Merging(Claude)
  <2>1. Put(NoFile) /\ ForBoth(NoFile)
    BY <1>7, NothingWritten DEF WriteHooks, ForBoth
  <2>2. \A t : HooksBy(t) # Tool
    BY <1>7, ToolsDiffer DEF HooksBy
  <2> QED BY <1>4, <2>1, <2>2, NothingWritten
<1>8. CASE Hooked /\ request.mode # "agentPlugin" /\ ~(Tool = Copilot /\ Merging(Claude))
  <2> DEFINE both == (Tool = Claude /\ Merging(Copilot))
             F == HookConfig(Tool, both)
  <2>1. Put(F)
    BY <1>8 DEF WriteHooks
  <2>2. both \in BOOLEAN
    BY DEF Merging
  <2>3. both <=> Tool = Claude /\ Merging(Copilot)
    OBVIOUS
  <2> HIDE DEF both
  <2>4. /\ HookFile(None, Tool) \in DOMAIN F /\ DOMAIN F \subseteq {HookFile(None, Tool), Wrapper}
        /\ request.starts /\ (Tool \in {Copilot, Cursor} \/ (Tool = Claude /\ both)) => Wrapper \in DOMAIN F
        /\ Tool = Claude /\ both => F[HookFile(None, Claude)] = Made("both")
    BY <1>2, <2>2, ConfigIs
  <2> HIDE DEF F
  <2>5. ForBoth(F)
    <3> SUFFICES ASSUME Merging(Copilot), HookFile(None, Claude) \in DOMAIN F PROVE F[HookFile(None, Claude)] = Made("both")
      BY DEF ForBoth
    <3>1. Tool = Claude
      BY <2>4, PathsAre
    <3> QED BY <2>3, <2>4, <3>1
  <2>6. ASSUME NEW t \in ToolsOf(Where), HooksBy(t) = Tool
        PROVE  /\ ReadsHooks(t) \in DOMAIN F
               /\ request.mode # "agentPlugin" /\ request.starts /\ t \in {Copilot, Cursor} => Wrapper \in DOMAIN F
    <3>1. CASE t = Copilot /\ Merging(Claude)
      <4>1. Tool = Claude /\ ReadsHooks(t) = HookFile(None, Claude)
        BY <1>8, <2>6, <3>1 DEF HooksBy, ReadsHooks
      <4>2. Merging(Copilot)
        <5>1. request.mode = "merged" /\ Where = None
          BY <1>1, <3>1 DEF Merging, Place
        <5> QED BY <2>6, <3>1, <5>1 DEF Merging, ToolsOf, Wants
      <4> QED BY <2>3, <2>4, <4>1, <4>2
    <3>2. CASE ~(t = Copilot /\ Merging(Claude))
      <4>1. t = Tool /\ ReadsHooks(t) = HookFile(None, t)
        BY <1>8, <2>6, <3>2 DEF HooksBy, ReadsHooks
      <4> QED BY <2>4, <4>1
    <3> QED BY <3>1, <3>2
  <2> QED BY <1>4, <1>8, <2>1, <2>4, <2>5, <2>6
<1> QED BY <1>5, <1>6, <1>7, <1>8

-----------------------------------------------------------------------------
\* A step that leaves the request, the sources and the delegates leaves what fits.

\* What fits is of the request, the sources and the delegates.
LEMMA PlansStay ==
  ASSUME request' = request, NEW k, NEW w
  PROVE  /\ Plan(request)' = Plan(request) /\ Packed' = Packed /\ Wants' = Wants
         /\ Ahead(k, w)' = Ahead(k, w) /\ Cleared(k, w)' = Cleared(k, w) /\ ToolsOf(w)' = ToolsOf(w)
<1>1. Plan(request)' = Plan(request)
  BY DEF Plan, Writing, For, Once
<1>2. Wants' = Wants
  BY DEF Wants
<1>3. \A s : Place(s)' = Place(s)
  BY DEF Place
<1>4. Ahead(k, w)' = Ahead(k, w)
  BY <1>1, <1>3 DEF Ahead
<1>5. Cleared(k, w)' = Cleared(k, w)
  BY <1>4 DEF Cleared
<1>6. Packed' = Packed /\ ToolsOf(w)' = ToolsOf(w)
  BY <1>2 DEF Packed, ToolsOf
<1> QED BY <1>1, <1>2, <1>4, <1>5, <1>6

LEMMA ArtifactsStay ==
  ASSUME UNCHANGED <<request, content, out>>, NEW A, NEW w, NEW files
  PROVE  /\ NothingElse(w, files)' <=> NothingElse(w, files)
         /\ AllCopied(A, w, files)' <=> AllCopied(A, w, files)
         /\ AllHanded(A, w, files)' <=> AllHanded(A, w, files)
<1>1. Wants' = Wants
  BY DEF Wants
<1>2. \A f : Givers(f)' = Givers(f)
  BY DEF Givers
<1>3. \A f : Given(f)' = Given(f)
  BY <1>2 DEF Given
<1>4. \A x, u : Belong(x, u)' = Belong(x, u)
  BY <1>1 DEF Belong
<1>5. \A x, u, f : Belongs(x, u, f)' <=> Belongs(x, u, f)
  BY <1>3, <1>4 DEF Belongs
<1>6. \A x, u : Delegating(x, u)' <=> Delegating(x, u)
  BY <1>1 DEF Delegating
<1>7. \A f : DelegatesOf(f)' = DelegatesOf(f)
  BY DEF DelegatesOf
<1>8. \A x, u, f : Handed(x, u, f)' <=> Handed(x, u, f)
  BY <1>6, <1>7 DEF Handed
<1>9. \A t : CopiedKinds(t)' = CopiedKinds(t)
  BY DEF CopiedKinds
<1>10. \A s, u, kind : Copies(s, u, kind)' <=> Copies(s, u, kind)
  BY <1>9 DEF Copies
<1>11. \A s, u : Hands(s, u)' <=> Hands(s, u)
  BY DEF Hands
<1>12. NothingElse(w, files)' <=> NothingElse(w, files)
  BY <1>3, <1>5, <1>7, <1>8 DEF NothingElse
<1>13. AllCopied(A, w, files)' <=> AllCopied(A, w, files)
  BY <1>5, <1>10 DEF AllCopied
<1>14. AllHanded(A, w, files)' <=> AllHanded(A, w, files)
  BY <1>7, <1>8, <1>11 DEF AllHanded
<1> QED BY <1>12, <1>13, <1>14

LEMMA OthersStay ==
  ASSUME UNCHANGED <<request, content>>, NEW k, NEW A, NEW w, NEW files
  PROVE  /\ OnlyAllowed(files)' <=> OnlyAllowed(files)
         /\ ManifestsSay(A, files)' <=> ManifestsSay(A, files)
         /\ PackageSays(k, files)' <=> PackageSays(k, files)
         /\ HooksThere(A, w, files)' <=> HooksThere(A, w, files)
         /\ ForBoth(files)' <=> ForBoth(files)
         /\ ScriptsThere(A, files)' <=> ScriptsThere(A, files)
<1>1. Wants' = Wants /\ Plan(request)' = Plan(request) /\ ToolsOf(w)' = ToolsOf(w)
  BY PlansStay
<1>2. Hooking(content)' = Hooking(content) /\ Hooked' = Hooked
  BY DEF Hooked, Hooking
<1>3. \A t : Describes(t)' <=> Describes(t)
  BY DEF Describes
<1>4. \A t : Merging(t)' <=> Merging(t)
  BY DEF Merging
<1>5. \A t : ReadsHooks(t)' = ReadsHooks(t) /\ HooksBy(t)' = HooksBy(t) /\ (ReadsSome(t)' <=> ReadsSome(t))
  BY <1>4 DEF ReadsHooks, HooksBy, ReadsSome
<1>6. \A i, c : ScriptOf(i, c)' = ScriptOf(i, c)
  BY DEF ScriptOf, Folder, Shared, Hooking
<1>7. \A p : Allowed(p)' <=> Allowed(p)
  BY <1>1, <1>2, <1>3 DEF Allowed
<1>8. OnlyAllowed(files)' <=> OnlyAllowed(files)
  BY <1>7 DEF OnlyAllowed
<1>9. ManifestsSay(A, files)' <=> ManifestsSay(A, files)
  BY <1>1, <1>3 DEF ManifestsSay
<1>10. PackageSays(k, files)' <=> PackageSays(k, files)
  BY <1>1 DEF PackageSays
<1>11. HooksThere(A, w, files)' <=> HooksThere(A, w, files)
  BY <1>1, <1>2, <1>5 DEF HooksThere
<1>12. ForBoth(files)' <=> ForBoth(files)
  BY <1>4 DEF ForBoth
<1>13. ScriptsThere(A, files)' <=> ScriptsThere(A, files)
  BY <1>2, <1>6 DEF ScriptsThere
<1> QED BY <1>8, <1>9, <1>10, <1>11, <1>12, <1>13

LEMMA FitsStay ==
  ASSUME UNCHANGED <<request, content, out>>, NEW k, NEW w, NEW files
  PROVE  Fits(k, w, files)' <=> Fits(k, w, files)
<1>1. Ahead(k, w)' = Ahead(k, w)
  BY PlansStay
<1> QED BY <1>1, ArtifactsStay, OthersStay DEF Fits

-----------------------------------------------------------------------------
\* From step to step.

LEMMA AheadOf ==
  ASSUME NEW k \in Nat, NEW j \in Nat, k <= j, NEW w, Cleared(k, w), Len(Plan(request)) \in Nat
  PROVE  Cleared(j, w)
<1>1. j..Len(Plan(request)) \subseteq k..Len(Plan(request))
  OBVIOUS
<1> QED BY <1>1 DEF Cleared, Ahead

\* A request has a plan.
LEMMA RequestIs ==
  ASSUME request \in Exports
  PROVE  /\ Requested /\ request \in Requests /\ request.content \in Contents /\ request # None
         /\ Len(Plan(request)) \in Nat /\ Len(Plan(request)) >= 2
<1>1. request \in Requests /\ request.tools # <<>> /\ request # None
  BY ExportAssumption
<1>2. request.content \in Contents
  BY <1>1 DEF Requests
<1> QED BY <1>1, <1>2, PlanBegins DEF Requested

\* Before --clean is over no package is.
LEMMA NoneCleared ==
  ASSUME request \in Exports, NEW k \in Nat, k <= 3, NEW w \in Packed
  PROVE  ~Cleared(k, w)
<1>1. Requested /\ Len(Plan(request)) \in Nat
  BY RequestIs
<1>2. ~Cleared(3, w)
  BY <1>1, Ordered
<1> QED BY <1>1, <1>2, AheadOf

\* A step writes a package the request is for.
LEMMA PlaceIs ==
  ASSUME request \in Exports, stage \in 3..Len(Plan(request))
  PROVE  Where \in Packed /\ (request.mode # "each" => Where = None /\ Packed = {None}) /\ (request.mode = "each" => Where # None)
<1>1. Requested
  BY RequestIs
<1>2. Where \in Packed
  BY <1>1, NowIs DEF OrderedAt
<1>3. request.mode # "each" => Where = None /\ Packed = {None}
  BY DEF Where, Packed
<1>4. request.mode = "each" => Where # None
  BY <1>1, <1>2, WantsAre DEF Packed
<1> QED BY <1>2, <1>3, <1>4

\* A step that goes on: what it does to the package it writes is what matters.
LEMMA PackageGoesOn ==
  ASSUME PackageInv, OutputInv, status = "exporting", Onward, UNCHANGED <<request, content>>, DOMAIN packages' = DOMAIN packages,
         stage > 2 => out' = out,
         stage > 2 => /\ \A w \in Packed \ {Where} : packages'[w] = packages[w]
                      /\ Cleared(stage + 1, Where) => Fits(stage + 1, Where, packages'[Where])
  PROVE  PackageInv'
<1>1. request \in Exports /\ stage \in 1..Len(Plan(request)) /\ content = request.content /\ DOMAIN packages = Tools \union {None}
  <2>1. request \in Exports /\ stage \in 1..Len(Plan(request))
    BY DEF OutputInv
  <2> QED BY <2>1, RequestIs DEF PackageInv
<1>2. Requested /\ Len(Plan(request)) \in Nat /\ Len(Plan(request)) >= 2 /\ request # None
  BY <1>1, RequestIs
<1>3. /\ \A w \in Packed : Cleared(stage, w) => Fits(stage, w, packages[w])
      /\ stage' = stage + 1 /\ status' = IF stage = Len(Plan(request)) THEN "done" ELSE "exporting"
  BY <1>2 DEF PackageInv, Onward
<1>4. Plan(request)' = Plan(request) /\ Packed' = Packed
  BY PlansStay
<1>5. stage' \in 1..(Len(Plan(request)) + 1) /\ (status' = "done" <=> stage' = Len(Plan(request)) + 1)
  BY <1>1, <1>2, <1>3
<1>6. ASSUME NEW w \in Packed, Cleared(stage + 1, w) PROVE Fits(stage + 1, w, packages'[w]) /\ stage > 2
  <2>1. stage > 2
    <3> SUFFICES ASSUME ~(stage > 2) PROVE FALSE
      OBVIOUS
    <3>1. stage + 1 \in Nat /\ stage + 1 <= 3
      BY <1>1, <1>2
    <3> QED BY <1>1, <1>6, <3>1, NoneCleared
  <2>2. stage \in 3..Len(Plan(request))
    BY <1>1, <1>2, <2>1
  <2>3. CASE w = Where
    BY <1>6, <2>1, <2>3
  <2>4. CASE w # Where
    <3>1. Where = Place(Plan(request)[stage])
      BY <1>2, <2>2, NowIs
    <3>2. Cleared(stage, w)
      <4>1. stage \in 1..Len(Plan(request)) /\ Place(Plan(request)[stage]) # w
        BY <1>1, <2>4, <3>1
      <4>2. Ahead(stage, w) = Ahead(stage + 1, w)
        BY <1>2, <4>1, AheadNext
      <4> QED BY <1>6, <4>2 DEF Cleared
    <3>3. Fits(stage + 1, w, packages[w])
      BY <1>2, <1>3, <2>2, <2>4, <3>1, <3>2, ElsewhereFits
    <3> QED BY <2>1, <2>4, <3>3
  <2> QED BY <2>1, <2>3, <2>4
<1>7. ASSUME NEW w \in Packed, Cleared(stage, w)' PROVE Fits(stage, w, packages[w])'
  <2>1. \A k, v : Cleared(k, v)' <=> Cleared(k, v)
    BY PlansStay
  <2>2. Cleared(stage + 1, w)
    BY <1>3, <1>7, <2>1
  <2>3. Fits(stage + 1, w, packages'[w]) /\ stage > 2
    BY <1>6, <2>2
  <2>4. \A k, v, files : Fits(k, v, files)' <=> Fits(k, v, files)
    BY <2>3, FitsStay
  <2> QED BY <1>3, <2>3, <2>4
<1> QED BY <1>1, <1>2, <1>4, <1>5, <1>7 DEF PackageInv

LEMMA WritesAre ==
  ASSUME PackageInv, OutputInv, NEW do, do \notin {"resolve", "clean"}, Doing(do)
  PROVE  WritesNow(do) /\ request \in Exports /\ status = "exporting" /\ stage > 2
<1>1. /\ status = "exporting" /\ Now.do = do /\ request \in Exports /\ stage \in 1..Len(Plan(request)) /\ stage > 2
      /\ Len(Plan(request)) \in Nat
  BY DoingAt DEF Doing, OutputInv
<1>2. Requested /\ request.content \in Contents /\ request # None
  BY <1>1, RequestIs
<1>3. content = request.content
  BY <1>1, <1>2 DEF PackageInv
<1>4. stage \in 3..Len(Plan(request))
  BY <1>1
<1> QED BY <1>1, <1>2, <1>3, <1>4 DEF WritesNow, Carrying

\* A step that puts what it should.
LEMMA PutKeeps ==
  ASSUME PackageInv, OutputInv, NEW do, do \notin {"resolve", "clean", "empty"}, Doing(do),
         NEW F, Put(F), Gives(Now, F), Marks(Now, F, Here)
  PROVE  PackageInv'
<1>1. WritesNow(do) /\ request \in Exports /\ status = "exporting" /\ stage > 2
  BY WritesAre
<1>2. Requested /\ stage \in 3..Len(Plan(request)) /\ Now.do = do /\ Len(Plan(request)) \in Nat /\ request # None
  BY <1>1, RequestIs DEF WritesNow
<1>3. Now = Plan(request)[stage] /\ Where = Place(Plan(request)[stage])
  BY <1>2, NowIs
<1>4. /\ packages' = [packages EXCEPT ![Where] = Over(F, packages[Where])]
      /\ Onward /\ request' = request /\ content' = content /\ out' = out
  BY DEF Put, launchVars, walkVars
<1>5. DOMAIN packages' = DOMAIN packages /\ \A w \in Packed \ {Where} : packages'[w] = packages[w]
  BY <1>4
<1>6. packages'[Where] = Over(F, Here)
  <2>1. DOMAIN packages = Tools \union {None}
    BY DEF PackageInv
  <2>2. Where \in Packed
    BY <1>1, <1>2, PlaceIs
  <2>3. Where \in DOMAIN packages
    BY <1>2, <2>1, <2>2, WantsAre DEF Packed
  <2> QED BY <1>4, <2>3 DEF Here
<1>7. ASSUME Cleared(stage + 1, Where) PROVE Fits(stage + 1, Where, packages'[Where])
  <2>1. Cleared(stage, Where)
    <3>1. Ahead(stage, Where) = Ahead(stage + 1, Where) \union {Now}
      <4>1. stage \in 1..Len(Plan(request))
        BY <1>2
      <4> QED BY <1>2, <1>3, <4>1, AheadNext
    <3> QED BY <1>2, <1>7, <3>1 DEF Cleared
  <2>2. Where \in Packed
    BY <1>1, <1>2, PlaceIs
  <2>3. Fits(stage, Where, Here)
    BY <1>1, <1>2, <2>1, <2>2 DEF PackageInv, Here
  <2> HIDE DEF Here
  <2>4. Fits(stage + 1, Place(Plan(request)[stage]), Over(F, Here))
    BY <1>2, <1>3, <2>3, FitsKeeps
  <2> QED BY <1>3, <1>6, <2>4
<1> QED BY <1>1, <1>4, <1>5, <1>7, PackageGoesOn

\* The step that empties a package.
LEMMA EmptyKeeps ==
  ASSUME PackageInv, OutputInv, Empty
  PROVE  PackageInv'
<1>1. Doing("empty") /\ packages' = Emptied(packages, Where) /\ Onward /\ request' = request /\ content' = content /\ out' = out
  BY DEF Empty, launchVars, walkVars
<1>2. WritesNow("empty") /\ request \in Exports /\ status = "exporting" /\ stage > 2
  BY <1>1, WritesAre
<1>3. Requested /\ stage \in 3..Len(Plan(request)) /\ Now.do = "empty"
  BY <1>2, RequestIs DEF WritesNow
<1>4. Now = Plan(request)[stage] /\ Where = Place(Plan(request)[stage])
  BY <1>3, NowIs
<1>5. DOMAIN packages = Tools \union {None} /\ Where \in Packed /\ Packed \subseteq Tools \union {None}
      /\ (request.mode # "each" => Where = None /\ Packed = {None}) /\ (request.mode = "each" => Where # None)
  <2>1. Packed \subseteq Tools \union {None}
    BY <1>3, WantsAre DEF Packed
  <2> QED BY <1>2, <1>3, <2>1, PlaceIs DEF PackageInv
<1>6. DOMAIN packages' = DOMAIN packages /\ packages'[Where] = NoFile /\ \A w \in Packed \ {Where} : packages'[w] = packages[w]
  <2>1. CASE Where = None
    <3>1. packages' = [w \in Tools \union {None} |-> NoFile]
      BY <1>1, <2>1 DEF Emptied, NoPackages
    <3> QED BY <1>5, <2>1, <3>1
  <2>2. CASE Where # None
    <3>1. packages' = [packages EXCEPT ![Where] = NoFile]
      BY <1>1, <2>2 DEF Emptied
    <3> QED BY <1>5, <3>1
  <2> QED BY <2>1, <2>2
<1>7. Fits(stage + 1, Where, packages'[Where])
  BY <1>3, <1>4, <1>6, EmptiedFits
<1> QED BY <1>1, <1>2, <1>6, <1>7, PackageGoesOn

\* An export that begins.
Starts == request \in Exports /\ content = request.content /\ stage = 1 /\ status = "exporting" /\ DOMAIN packages = Tools \union {None}

LEMMA PackageStarts == Starts => PackageInv
<1> SUFFICES ASSUME Starts PROVE PackageInv
  OBVIOUS
<1>1. request \in Exports /\ stage = 1 /\ 1 \in Nat /\ 1 <= 3
  BY DEF Starts
<1>2. Len(Plan(request)) \in Nat /\ Len(Plan(request)) >= 2
  BY <1>1, RequestIs
<1>3. \A w \in Packed : ~Cleared(stage, w)
  BY <1>1, NoneCleared
<1>4. stage \in 1..(Len(Plan(request)) + 1) /\ stage # Len(Plan(request)) + 1
  BY <1>1, <1>2
<1> QED BY <1>3, <1>4 DEF Starts, PackageInv

\* An export that gives up promises nothing.
LEMMA PackageRests ==
  ASSUME PackageInv, packages' = packages, request' = None \/ status' \notin {"exporting", "done"}
  PROVE  PackageInv'
BY DEF PackageInv

LEMMA PackageKeeps ==
  ASSUME PackageInv, OutputInv, WalkInv, ExportNext
  PROVE  PackageInv'
<1> USE DEF launchVars, walkVars
<1>1. CASE request = None /\ AssemblyNext /\ UNCHANGED exportVars
  BY <1>1, PackageRests DEF exportVars
<1>2. CASE ResolveDelegates
  <2>1. Doing("resolve") /\ UNCHANGED <<request, content, packages>> /\ stage = 1 /\ request \in Exports /\ status = "exporting"
    BY <1>2, DoingAt DEF ResolveDelegates, OutputInv, Doing
  <2>2. CASE Onward
    BY <2>1, <2>2, PackageGoesOn
  <2>3. CASE status' = "refused"
    BY <2>1, <2>3, PackageRests
  <2>4. CASE UNCHANGED <<stage, status>>
    <3>1. DOMAIN packages = Tools \union {None} /\ content = request.content
      BY <2>1, RequestIs DEF PackageInv
    <3>2. Starts'
      BY <2>1, <2>4, <3>1 DEF Starts
    <3> QED BY <3>2, PackageStarts, PTL
  <2>5. Onward \/ status' = "refused" \/ UNCHANGED <<stage, status>>
    <3>1. CASE walk' = "flat"
      BY <1>2, <3>1 DEF ResolveDelegates
    <3>2. CASE walk' = "refused"
      BY <1>2, <3>2 DEF ResolveDelegates
    <3>3. CASE walk' # "flat" /\ walk' # "refused"
      BY <1>2, <3>3 DEF ResolveDelegates
    <3> QED BY <3>1, <3>2, <3>3
  <2> QED BY <2>2, <2>3, <2>4, <2>5
<1>3. CASE ResolveWithout
  <2>1. stage = 1 /\ status = "exporting"
    BY <1>3, DoingAt DEF ResolveWithout, Doing
  <2> QED BY <1>3, <2>1, PackageGoesOn DEF ResolveWithout
<1>4. CASE RefuseSource \/ RefuseToClean \/ CopyRefuses \/ ExportFails
  <2>1. packages' = packages /\ status' \in {"refused", "failed", "mispicked"}
    BY <1>4 DEF RefuseSource, RefuseToClean, CopyRefuses, ExportFails
  <2> QED BY <2>1, PackageRests
<1>5. CASE CleanOutput
  <2>1. stage = 2 /\ status = "exporting" /\ Onward /\ UNCHANGED <<request, content, out>>
    BY <1>5, DoingAt DEF CleanOutput, Doing
  <2>2. DOMAIN packages' = DOMAIN packages
    BY <1>5 DEF CleanOutput, PackageInv, NoPackages
  <2> QED BY <2>1, <2>2, PackageGoesOn
<1>6. CASE Empty
  BY <1>6, EmptyKeeps
<1>7. CASE CopyContent
  <2>1. Doing("copy") /\ Put(Copied(None, CopySources, CopyKinds))
    BY <1>7 DEF CopyContent
  <2> QED BY <2>1, WritesAre, CopyWrites, PutKeeps
<1>8. CASE CopyArtifacts
  <2> DEFINE kinds == Adapter(Tool).kinds \ {"skills"}
             F == IF Tool \in Reads("artifacts") THEN Copied(Adapter(Tool).under, Restricted(kinds), kinds) ELSE NoFile
  <2>1. Doing("artifacts") /\ Put(F)
    BY <1>8 DEF CopyArtifacts
  <2>2. Gives(Now, F) /\ Marks(Now, F, Here)
    BY <2>1, WritesAre, ArtifactsWrite
  <2> HIDE DEF F
  <2> QED BY <2>1, <2>2, PutKeeps
<1>9. CASE WriteInstructions
  <2> DEFINE F == IF Instructs /\ Carried THEN Only(Prompt, Made("instructions")) ELSE NoFile
  <2>1. Doing("instructions") /\ Put(F)
    BY <1>9 DEF WriteInstructions
  <2>2. Gives(Now, F) /\ Marks(Now, F, Here)
    BY <2>1, WritesAre, InstructionsWrite
  <2> HIDE DEF F
  <2> QED BY <2>1, <2>2, PutKeeps
<1>10. CASE WriteDelegates
  <2> DEFINE F == CASE request.mode = "merged" -> DelegateFiles(None)
               [] request.mode = "each" -> IF Tool \in TakesDelegates THEN DelegateFiles(None) ELSE NoFile
               [] OTHER -> IF Tool \in TakesDelegates \intersect Reads("artifacts") THEN DelegateFiles(Adapter(Tool).under) ELSE NoFile
  <2>1. Doing("delegates") /\ Put(F)
    BY <1>10 DEF WriteDelegates
  <2>2. Gives(Now, F) /\ Marks(Now, F, Here)
    BY <2>1, WritesAre, DelegatesWrite
  <2> HIDE DEF F
  <2> QED BY <2>1, <2>2, PutKeeps
<1>11. CASE WriteHooks
  <2>1. Doing("hooks")
    BY <1>11 DEF WriteHooks
  <2>2. PICK F : Put(F) /\ Gives(Now, F) /\ Marks(Now, F, Here)
    BY <1>11, <2>1, WritesAre, HooksWrite
  <2> QED BY <2>1, <2>2, PutKeeps
<1>12. CASE WriteScripts
  <2> DEFINE F == IF \A f \in DOMAIN Here : f.kind # "hooks" THEN NoFile
             ELSE [f \in { Path(None, "script", <<w[1], w[2]>>) : w \in HookScripts(content) } |->
                     From(CHOOSE i \in DOMAIN content : <<f.name[1], f.name[2], i>> \in HookScripts(content))]
  <2>1. Doing("scripts") /\ Put(F)
    BY <1>12 DEF WriteScripts
  <2>2. Gives(Now, F) /\ Marks(Now, F, Here)
    BY <2>1, WritesAre, ScriptsWrite
  <2> HIDE DEF F
  <2> QED BY <2>1, <2>2, PutKeeps
<1>13. CASE WriteServers
  <2> DEFINE F == IF request.servers = "none" \/ (request.mode = "agentPlugin" /\ Tool \notin Reads("servers")) THEN NoFile
             ELSE Over(Only(MCPFile(Tool), Made("servers")), IF request.mode = "agentPlugin" THEN NoFile ELSE Only(ServerScript, Made("script")))
  <2>1. Doing("servers") /\ Put(F)
    BY <1>13 DEF WriteServers
  <2>2. Gives(Now, F) /\ Marks(Now, F, Here)
    BY <2>1, WritesAre, ServersWrite
  <2> HIDE DEF F
  <2> QED BY <2>1, <2>2, PutKeeps
<1>14. CASE WriteManifest
  <2> DEFINE F == CASE Tool = OpenCode \/ (request.mode = "agentPlugin" /\ Adapter(Tool).loads) -> NoFile
               [] OTHER -> Only(ManifestFile(Tool), Made(Pointers(Tool, Here)))
  <2>1. Doing("manifest") /\ Put(F)
    BY <1>14 DEF WriteManifest
  <2>2. Gives(Now, F) /\ Marks(Now, F, Here)
    BY <2>1, WritesAre, ManifestWrites
  <2> HIDE DEF F
  <2> QED BY <2>1, <2>2, PutKeeps
<1>15. CASE WritePortable
  <2> DEFINE F == Over(IF request.servers = "portable" THEN Only(PortableMCP, Made("servers")) ELSE NoFile,
                  IF request.servers # "none" THEN Only(ServerScript, Made("script")) ELSE NoFile)
  <2>1. Doing("portable") /\ Put(F)
    BY <1>15 DEF WritePortable
  <2>2. Gives(Now, F) /\ Marks(Now, F, Here)
    BY <2>1, WritesAre, PortableWrites
  <2> HIDE DEF F
  <2> QED BY <2>1, <2>2, PutKeeps
<1>16. CASE WritePackage
  <2> DEFINE F == Only(PackageManifest, Made({ HookFile(Codex, Codex) } \intersect DOMAIN Here))
  <2>1. Doing("package") /\ Put(F)
    BY <1>16 DEF WritePackage
  <2>2. Gives(Now, F) /\ Marks(Now, F, Here)
    BY <2>1, WritesAre, PackageWrites
  <2> HIDE DEF F
  <2> QED BY <2>1, <2>2, PutKeeps
<1>17. CASE StartExport
  <2>1. Starts'
    BY <1>17 DEF StartExport, Starts, PackageInv
  <2> QED BY <2>1, PackageStarts, PTL
<1> QED BY <1>1, <1>2, <1>3, <1>4, <1>5, <1>6, <1>7, <1>8, <1>9, <1>10, <1>11, <1>12, <1>13, <1>14, <1>15, <1>16, <1>17 DEF ExportNext

LEMMA PackageBegins == ExportInit => PackageInv
<1>1. DOMAIN NoPackages = Tools \union {None}
  BY DEF NoPackages
<1>2. CASE request = None /\ packages = NoPackages
  BY <1>1, <1>2 DEF PackageInv
<1>3. CASE /\ request \in Exports /\ content = request.content /\ stage = 1 /\ status = "exporting"
           /\ packages \in {NoPackages, [NoPackages EXCEPT ![None] = Only(Own, Nobody)]}
  <2>1. Starts
    BY <1>1, <1>3 DEF Starts
  <2> QED BY <2>1, PackageStarts
<1> QED BY <1>2, <1>3 DEF ExportInit

-----------------------------------------------------------------------------
\* A finished export.

\* Nothing is ahead of a finished export.
LEMMA DoneFits ==
  ASSUME PackageInv, Exported
  PROVE  /\ Requested
         /\ \A w \in Packed : LET files == packages[w] IN
              /\ NothingElse(w, files) /\ AllCopied({}, w, files) /\ AllHanded({}, w, files)
              /\ OnlyAllowed(files) /\ ManifestsSay({}, files) /\ PackageSays(stage, files)
              /\ HooksThere({}, w, files) /\ ForBoth(files) /\ ScriptsThere({}, files)
<1>1. request \in Exports /\ stage = Len(Plan(request)) + 1 /\ \A w \in Packed : Cleared(stage, w) => Fits(stage, w, packages[w])
  BY DEF PackageInv, Exported
<1>2. Requested /\ Len(Plan(request)) \in Nat
  BY <1>1, RequestIs
<1>3. \A w : Ahead(stage, w) = {}
  <2>1. stage..Len(Plan(request)) = {}
    BY <1>1, <1>2
  <2> QED BY <2>1 DEF Ahead
<1>4. \A w \in Packed : Fits(stage, w, packages[w])
  BY <1>1, <1>3 DEF Cleared
<1> QED BY <1>2, <1>3, <1>4 DEF Fits

LEMMA PackageIsRight == PackageInv => PackageIsTheHarness
<1> SUFFICES ASSUME PackageInv, Exported, NEW where \in Packed
             PROVE  LET files == packages[where] IN
    /\ \A under \in {None} \union Tools, f \in Files :
         LET p == Artifact(under, f)
             delegates == IF Delegating(where, under) THEN { k \in DOMAIN out : Agent(NameOf[out[k].dir]) = f } ELSE {}
         IN IF delegates # {} THEN p \in DOMAIN files /\ files[p] \in { [ by |-> "delegate", of |-> out[k].dir ] : k \in delegates }
            ELSE IF f.kind \in Belong(where, under) /\ Given(f) # Nobody THEN p \in DOMAIN files /\ files[p] = Given(f)
            ELSE p \notin DOMAIN files
    /\ \A p \in DOMAIN files :
         /\ p.kind # "own" /\ p.kind \in {"hooks", "script", "wrapper"} => Hooked
         /\ p.kind \in {"hooks", "manifest"} => { t \in Wants : p.name \in {t, IF t = Copilot THEN Claude ELSE t} } # {}
         /\ p.kind \in {"mcp", "serverScript"} => request.servers # "none"
  BY DEF PackageIsTheHarness
<1> DEFINE files == packages[where]
<1>1. NothingElse(where, files) /\ AllCopied({}, where, files) /\ AllHanded({}, where, files) /\ OnlyAllowed(files)
  BY DoneFits
<1> HIDE DEF files
<1>2. ASSUME NEW under \in {None} \union Tools, NEW f \in Files, NEW p, p = Artifact(under, f), NEW delegates,
             delegates = IF Delegating(where, under) THEN { k \in DOMAIN out : Agent(NameOf[out[k].dir]) = f } ELSE {}
      PROVE  IF delegates # {} THEN p \in DOMAIN files /\ files[p] \in { [ by |-> "delegate", of |-> out[k].dir ] : k \in delegates }
             ELSE IF f.kind \in Belong(where, under) /\ Given(f) # Nobody THEN p \in DOMAIN files /\ files[p] = Given(f)
             ELSE p \notin DOMAIN files
  <2>1. under \in Unders
    BY DEF Unders
  <2>2. Delegating(where, under) => DelegatesOf(f) = { [ by |-> "delegate", of |-> out[k].dir ] : k \in delegates }
    BY <1>2 DEF DelegatesOf
  <2>3. p \in DOMAIN files =>
          \/ Belongs(where, under, f) /\ files[p] = Given(f)
          \/ Handed(where, under, f) /\ files[p] \in DelegatesOf(f)
    BY <1>1, <1>2, <2>1 DEF NothingElse
  <2>4. Handed(where, under, f) => p \in DOMAIN files /\ files[p] \in DelegatesOf(f)
    BY <1>1, <1>2, <2>1 DEF AllHanded
  <2>5. Belongs(where, under, f) => p \in DOMAIN files
    BY <1>1, <1>2, <2>1 DEF AllCopied
  <2>6. Handed(where, under, f) <=> delegates # {}
    <3>1. Delegating(where, under) => (DelegatesOf(f) # {} <=> delegates # {})
      <4> SUFFICES ASSUME Delegating(where, under) PROVE DelegatesOf(f) # {} <=> delegates # {}
        OBVIOUS
      <4>1. \A k \in delegates : [ by |-> "delegate", of |-> out[k].dir ] \in DelegatesOf(f)
        BY <2>2
      <4>2. \A d \in DelegatesOf(f) : \E k \in delegates : TRUE
        BY <2>2
      <4> QED BY <4>1, <4>2
    <3>2. ~Delegating(where, under) => delegates = {}
      BY <1>2
    <3> QED BY <3>1, <3>2 DEF Handed
  <2>7. CASE delegates # {}
    <3>1. Delegating(where, under)
      BY <2>6, <2>7 DEF Handed
    <3> QED BY <2>2, <2>4, <2>6, <2>7, <3>1
  <2>8. CASE delegates = {}
    <3>1. f.kind \in Belong(where, under) /\ Given(f) # Nobody <=> Belongs(where, under, f)
      BY DEF Belongs
    <3> QED BY <2>3, <2>5, <2>6, <2>8, <3>1
  <2> QED BY <2>7, <2>8
<1>3. ASSUME NEW p \in DOMAIN files
      PROVE  /\ p.kind \in {"hooks", "script", "wrapper"} => Hooked
             /\ p.kind \in {"hooks", "manifest"} => { t \in Wants : p.name \in {t, IF t = Copilot THEN Claude ELSE t} } # {}
             /\ p.kind \in {"mcp", "serverScript"} => request.servers # "none"
  <2>1. Allowed(p)
    BY <1>1 DEF OnlyAllowed
  <2>2. ASSUME p.kind \in {"hooks", "manifest"} PROVE \E t \in Wants : p.name \in {t, IF t = Copilot THEN Claude ELSE t}
    <3>1. CASE p.kind = "hooks"
      BY <2>1, <3>1 DEF Allowed
    <3>2. CASE p.kind = "manifest"
      <4>1. PICK t \in Wants : p = ManifestFile(t)
        BY <2>1, <3>2 DEF Allowed
      <4>2. p.name = IF t = Copilot THEN Claude ELSE t
        BY <4>1, PathsAre
      <4> QED BY <4>2
    <3> QED BY <2>2, <3>1, <3>2
  <2>3. p.kind \in {"hooks", "manifest"} => { t \in Wants : p.name \in {t, IF t = Copilot THEN Claude ELSE t} } # {}
    BY <2>2
  <2> QED BY <2>1, <2>3 DEF Allowed
<1> QED BY <1>2, <1>3 DEF files

LEMMA PointersAreRight == PackageInv => PointersHold
<1> SUFFICES ASSUME PackageInv, Exported, NEW where \in Packed, NEW files, files = packages[where]
             PROVE  /\ \A t \in ToolsOf(where) : ManifestFile(t) \in DOMAIN files => files[ManifestFile(t)].of = Pointers(t, files)
                    /\ PackageManifest \in DOMAIN files => files[PackageManifest].of = { p \in DOMAIN files : p = HookFile(Codex, Codex) }
                    /\ Hooked => \A t \in IF request.mode = "agentPlugin" THEN ToolsOf(where) \intersect Reads("hooks") ELSE ToolsOf(where) :
                         /\ ReadsHooks(t) \in DOMAIN files
                         /\ t = Copilot /\ Merging(Claude) => files[ReadsHooks(t)] = Made("both")
                         /\ \A i \in Hooking(content) : \A s \in content[i].hooks :
                              ScriptOf(i, s) \in DOMAIN files /\ files[ScriptOf(i, s)] = From(i)
                         /\ request.mode # "agentPlugin" /\ request.starts /\ t \in {Copilot, Cursor} => Wrapper \in DOMAIN files
  BY DEF PointersHold, ToolsOf, ScriptOf
<1>1. /\ Requested /\ ManifestsSay({}, files) /\ PackageSays(stage, files)
      /\ HooksThere({}, where, files) /\ ForBoth(files) /\ ScriptsThere({}, files)
  BY DoneFits
<1>2. \A t \in ToolsOf(where) : t \in Wants
  BY DEF ToolsOf, Packed
<1>3. \A t \in ToolsOf(where) : ManifestFile(t) \in DOMAIN files => files[ManifestFile(t)].of = Pointers(t, files)
  BY <1>1, <1>2 DEF ManifestsSay
<1>4. PackageManifest \in DOMAIN files => files[PackageManifest].of = { p \in DOMAIN files : p = HookFile(Codex, Codex) }
  BY <1>1 DEF PackageSays
<1>5. ASSUME Hooked, NEW t \in IF request.mode = "agentPlugin" THEN ToolsOf(where) \intersect Reads("hooks") ELSE ToolsOf(where)
      PROVE  /\ ReadsHooks(t) \in DOMAIN files
             /\ t = Copilot /\ Merging(Claude) => files[ReadsHooks(t)] = Made("both")
             /\ \A i \in Hooking(content) : \A s \in content[i].hooks :
                  ScriptOf(i, s) \in DOMAIN files /\ files[ScriptOf(i, s)] = From(i)
             /\ request.mode # "agentPlugin" /\ request.starts /\ t \in {Copilot, Cursor} => Wrapper \in DOMAIN files
  <2>1. t \in ToolsOf(where) /\ ReadsSome(t)
    BY <1>5 DEF ReadsSome
  <2>2. /\ ReadsHooks(t) \in DOMAIN files
        /\ request.mode # "agentPlugin" /\ request.starts /\ t \in {Copilot, Cursor} => Wrapper \in DOMAIN files
    BY <1>1, <1>5, <2>1 DEF HooksThere
  <2>3. ReadsHooks(t).kind = "hooks" /\ (t = Copilot /\ Merging(Claude) => ReadsHooks(t) = HookFile(None, Claude))
    <3>1. Merging(Claude) => request.mode = "merged"
      BY DEF Merging
    <3>2. CASE request.mode = "agentPlugin"
      <4>1. ReadsHooks(t) = HookFile(Adapter(t).under, t)
        BY <3>1, <3>2 DEF ReadsHooks
      <4> QED BY <3>1, <3>2, <4>1, PathsAre
    <3>3. CASE request.mode # "agentPlugin" /\ t = Copilot /\ Merging(Claude)
      BY <3>3, PathsAre DEF ReadsHooks
    <3>4. CASE request.mode # "agentPlugin" /\ ~(t = Copilot /\ Merging(Claude))
      <4>1. ReadsHooks(t) = HookFile(None, t)
        BY <3>4 DEF ReadsHooks
      <4> QED BY <3>4, <4>1, PathsAre
    <3> QED BY <3>2, <3>3, <3>4
  <2>4. t = Copilot /\ Merging(Claude) => files[ReadsHooks(t)] = Made("both")
    <3> SUFFICES ASSUME t = Copilot, Merging(Claude) PROVE files[ReadsHooks(t)] = Made("both")
      OBVIOUS
    <3>1. Merging(Copilot)
      BY <1>2, <2>1 DEF Merging, Wants
    <3> QED BY <1>1, <2>2, <2>3, <3>1 DEF ForBoth
  <2>5. \A i \in Hooking(content) : \A s \in content[i].hooks : ScriptOf(i, s) \in DOMAIN files /\ files[ScriptOf(i, s)] = From(i)
    BY <1>1, <2>2, <2>3 DEF ScriptsThere
  <2> QED BY <2>2, <2>4, <2>5
<1> QED BY <1>3, <1>4, <1>5

\* Every package that has been emptied fits, but for the steps still ahead of it.
\* An export that fails or gives up leaves what it leaves.
THEOREM PackageInvariant == ExportSpec => [](WalkInv /\ OutputInv /\ PackageInv)
<1>1. ASSUME WalkInv /\ OutputInv /\ PackageInv, [ExportNext]_<<assemblyVars, exportVars>> PROVE PackageInv'
  <2>1. CASE ExportNext
    BY <1>1, <2>1, PackageKeeps
  <2>2. CASE UNCHANGED <<assemblyVars, exportVars>>
    <3>1. PackageInv
      BY <1>1
    <3>2. UNCHANGED <<request, content, out, stage, status, packages>>
      BY <2>2 DEF assemblyVars, exportVars, walkVars
    <3>3. Plan(request)' = Plan(request) /\ Packed' = Packed /\ \A k, w : Cleared(k, w)' <=> Cleared(k, w)
      BY <3>2, PlansStay
    <3>4. \A k, w, files : Fits(k, w, files)' <=> Fits(k, w, files)
      BY <3>2, FitsStay
    <3>5. ASSUME NEW w \in Packed, Cleared(stage, w)', request # None /\ status \in {"exporting", "done"} PROVE Fits(stage, w, packages[w])'
      BY <3>1, <3>2, <3>3, <3>4, <3>5 DEF PackageInv
    <3> QED BY <3>1, <3>2, <3>3, <3>5 DEF PackageInv
  <2> QED BY <1>1, <2>1, <2>2
<1>2. ExportSpec => []PackageInv
  BY <1>1, PackageBegins, ExportInvariant, PTL DEF ExportSpec
<1> QED BY <1>2, ExportInvariant, PTL

\* A finished export is the harness, in every package and for every request, and
\* its manifests name what is there: whatever was in the directory, whichever
\* export wrote it, in whichever mode and for whichever tools.
THEOREM ExportsHold == ExportSpec => []ExportHolds
<1>1. PackageInv => ExportHolds
  BY PackageIsRight, PointersAreRight DEF ExportHolds
<1> QED BY <1>1, PackageInvariant, PTL
-----------------------------------------------------------------------------
\* The instructions that a launch composes.

\* A set of numbers has a least one.
LEMMA Smallest ==
  ASSUME NEW T \in SUBSET Nat, T # {}
  PROVE  \E x \in T : \A y \in T : x <= y
<1>1. \A y \in Nat, x \in Nat : y < x => <<y, x>> \in OpToRel(<, Nat)
  BY Zenon DEF OpToRel
<1>2. \E x \in T : \A y \in T : ~(<<y, x>> \in OpToRel(<, Nat))
  BY NatLessThanWellFounded, WFMin, Zenon
<1>3. \E x \in T : \A y \in T : ~(y < x)
  BY <1>1, <1>2, Zenon
<1> QED BY <1>3

\* Of a finite set of numbers there is one that is the k-th.
LEMMA KthIs ==
  ASSUME NEW n \in Nat, NEW places \in SUBSET (1..n), NEW k \in 1..Cardinality(places)
  PROVE  \E i \in places : Cardinality({ j \in places : j <= i }) = k
<1> DEFINE upto(i) == { j \in places : j <= i }
           card(i) == Cardinality(upto(i))
           T == { i \in 0..n : card(i) >= k }
<1>1. \A j \in places : j \in Nat /\ 1 <= j /\ j <= n
  OBVIOUS
<1>2. IsFiniteSet(places) /\ Cardinality(places) \in Nat
  <2>1. IsFiniteSet(1..n)
    BY FS_Interval
  <2> QED BY <2>1, FS_Subset, FS_CardinalityType
<1>3. \A i \in 0..n : IsFiniteSet(upto(i)) /\ card(i) \in Nat
  <2>1. \A i \in 0..n : upto(i) \in SUBSET places
    OBVIOUS
  <2> QED BY <1>2, <2>1, FS_Subset, FS_CardinalityType
<1>4. k \in Nat /\ k >= 1 /\ k <= Cardinality(places)
  BY <1>2
<1>5. upto(n) = places
  BY <1>1
<1>6. upto(0) = {}
  <2>1. \A j \in places : ~(j <= 0)
    BY <1>1
  <2> QED BY <2>1
<1>7. card(0) = 0
  BY <1>6, FS_EmptySet
<1>8. ASSUME NEW i \in 1..n, i \notin places PROVE upto(i) = upto(i - 1)
  <2>1. \A j \in places : j <= i <=> j <= i - 1
    BY <1>1, <1>8
  <2> QED BY <2>1
<1>9. ASSUME NEW i \in 1..n, i \in places PROVE upto(i) = upto(i - 1) \union {i} /\ i \notin upto(i - 1)
  <2>1. \A j \in places : j <= i <=> (j <= i - 1 \/ j = i)
    BY <1>1, <1>9
  <2>2. ~(i <= i - 1)
    OBVIOUS
  <2> QED BY <1>9, <2>1, <2>2
<1>10. ASSUME NEW i \in 1..n, i \in places PROVE card(i) = card(i - 1) + 1
  <2>1. i - 1 \in 0..n
    OBVIOUS
  <2> QED BY <1>3, <1>9, <1>10, <2>1, FS_AddElement
<1>11. \A i \in 1..n : i \notin places => card(i) = card(i - 1)
  BY <1>8
<1>12. card(n) >= k
  BY <1>4, <1>5
<1> HIDE DEF upto, card
<1>13. T \in SUBSET Nat /\ n \in T
  BY <1>12
<1>14. PICK i \in T : \A j \in T : i <= j
  BY <1>13, Smallest
<1>15. i \in 0..n /\ card(i) >= k /\ i # 0
  BY <1>4, <1>7
<1>16. i \in 1..n /\ i - 1 \in 0..n
  BY <1>15
<1>17. i - 1 \notin T
  BY <1>14, <1>16
<1>18. card(i - 1) < k
  BY <1>3, <1>4, <1>16, <1>17
<1>19. i \in places
  BY <1>3, <1>4, <1>11, <1>15, <1>16, <1>18
<1>20. card(i) = k
  BY <1>3, <1>4, <1>10, <1>15, <1>16, <1>18, <1>19
<1> QED BY <1>19, <1>20 DEF card, upto

\* Each of a finite set of numbers is the n-th for one n, and for each n up to how
\* many they are there is one.
LEMMA NthIs ==
  ASSUME NEW n \in Nat, NEW at0 \in SUBSET (1..n)
  PROVE  /\ IsFiniteSet(at0) /\ Cardinality(at0) \in Nat
         /\ \A k \in 1..Cardinality(at0) : Nth(at0, k) \in at0
         /\ \A i \in at0 : \E k \in 1..Cardinality(at0) : Nth(at0, k) = i
         /\ 1 \in at0 => Cardinality(at0) >= 1 /\ Nth(at0, 1) = 1
<1> DEFINE upto(m) == { j \in at0 : j <= m }
           card(m) == Cardinality(upto(m))
<1>1. IsFiniteSet(1..n)
  BY FS_Interval
<1>2. IsFiniteSet(at0) /\ Cardinality(at0) \in Nat
  BY <1>1, FS_Subset, FS_CardinalityType
<1>3. \A m \in at0 : upto(m) \in SUBSET at0 /\ m \in upto(m) /\ m \in Nat
  OBVIOUS
<1>4. \A m \in at0 : IsFiniteSet(upto(m)) /\ card(m) \in Nat /\ card(m) <= Cardinality(at0)
  BY <1>2, <1>3, FS_Subset, FS_CardinalityType
<1>5. \A m \in at0 : card(m) >= 1
  <2> SUFFICES ASSUME NEW m \in at0 PROVE card(m) # 0
    BY <1>4
  <2>1. upto(m) # {}
    BY <1>3
  <2> QED BY <1>4, <2>1, FS_EmptySet
<1>6. ASSUME NEW m \in at0, NEW l \in at0, m < l PROVE card(m) # card(l)
  <2>0. \A j \in at0 : j <= m => j <= l
    BY <1>3, <1>6
  <2>1. upto(m) \subseteq upto(l)
    BY <2>0
  <2>2. l \in upto(l) /\ l \notin upto(m)
    BY <1>3, <1>6
  <2>3. upto(m) # upto(l)
    BY <2>2
  <2> HIDE DEF upto
  <2> QED BY <1>4, <2>1, <2>3, FS_Subset
<1>7. \A m, l \in at0 : card(m) = card(l) => m = l
  BY <1>3, <1>6
<1>8. \A i \in at0 : card(i) \in 1..Cardinality(at0)
  BY <1>2, <1>4, <1>5
<1>9. \A i \in at0 : (CHOOSE j \in at0 : card(j) = card(i)) = i
  BY <1>7
<1>10. \A k : Nth(at0, k) = CHOOSE i \in at0 : card(i) = k
  BY DEF Nth
<1>11. ASSUME NEW k \in 1..Cardinality(at0) PROVE Nth(at0, k) \in at0
  <2>1. \E i \in at0 : card(i) = k
    BY KthIs
  <2> HIDE DEF card
  <2> QED BY <1>10, <2>1
<1>12. ASSUME 1 \in at0 PROVE card(1) = 1
  <2>1. upto(1) = {1}
    <3>1. \A j \in at0 : j \in Nat /\ j >= 1
      OBVIOUS
    <3>2. \A j \in at0 : j <= 1 <=> j = 1
      BY <3>1
    <3> QED BY <1>12, <3>2
  <2> QED BY <2>1, FS_Singleton
<1> HIDE DEF card
<1>13. \A i \in at0 : Nth(at0, card(i)) = i
  BY <1>9, <1>10
<1>14. \A i \in at0 : \E k \in 1..Cardinality(at0) : Nth(at0, k) = i
  BY <1>8, <1>13
<1>15. 1 \in at0 => Cardinality(at0) >= 1 /\ Nth(at0, 1) = 1
  BY <1>2, <1>8, <1>12, <1>13
<1> QED BY <1>2, <1>11, <1>14, <1>15

\* The texts of these sources.
Told(sources) == { sources[i].text : i \in Spoken(sources) }

\* Every text is first said somewhere, and nowhere twice.
LEMMA SaidOnce ==
  ASSUME NEW S, NEW sources \in Seq(S)
  PROVE  /\ FirstSaid(sources) \in SUBSET (1..Len(sources)) /\ FirstSaid(sources) \subseteq Spoken(sources)
         /\ \A t \in Told(sources) : \E i \in FirstSaid(sources) : sources[i].text = t
         /\ \A i, j \in FirstSaid(sources) : sources[i].text = sources[j].text => i = j
         /\ 1 \in Spoken(sources) => 1 \in FirstSaid(sources)
<1>1. DOMAIN sources = 1..Len(sources) /\ Len(sources) \in Nat
  OBVIOUS
<1>2. Spoken(sources) \in SUBSET (1..Len(sources))
  BY <1>1 DEF Spoken
<1>3. \A i \in Spoken(sources) : i \in Nat /\ 1 <= i
  BY <1>1, <1>2
<1>4. \A i \in FirstSaid(sources) : i \in Spoken(sources) /\ \A j \in Spoken(sources) : sources[j].text = sources[i].text => i <= j
  BY DEF FirstSaid
<1>5. ASSUME NEW t \in Told(sources) PROVE \E i \in FirstSaid(sources) : sources[i].text = t
  <2> DEFINE T == { i \in Spoken(sources) : sources[i].text = t }
  <2>1. T # {}
    BY <1>5 DEF Told
  <2>2. T \in SUBSET Nat
    BY <1>3
  <2>3. PICK i \in T : \A j \in T : i <= j
    BY <2>1, <2>2, Smallest
  <2>4. i \in FirstSaid(sources)
    BY <2>3 DEF FirstSaid
  <2> QED BY <2>3, <2>4
<1>6. ASSUME NEW i \in FirstSaid(sources), NEW j \in FirstSaid(sources), sources[i].text = sources[j].text PROVE i = j
  <2>1. i \in Spoken(sources) /\ j \in Spoken(sources) /\ i <= j /\ j <= i
    BY <1>4, <1>6
  <2> QED BY <1>3, <2>1
<1>7. 1 \in Spoken(sources) => 1 \in FirstSaid(sources)
  BY <1>3 DEF FirstSaid
<1> QED BY <1>2, <1>4, <1>5, <1>6, <1>7

\* The sections have every text of the sources once; what the first source says
\* comes first.
LEMMA SectionsAre ==
  ASSUME NEW S, NEW sources \in Seq(S)
  PROVE  LET list == Sections(sources) IN
         /\ { list[k].text : k \in DOMAIN list } = Told(sources) /\ Len(list) = Cardinality(Told(sources))
         /\ 1 \in Spoken(sources) => list[1] = [ label |-> sources[1].label, text |-> sources[1].text ]
<1> DEFINE first == FirstSaid(sources)
           n == Cardinality(first)
           list == Sections(sources)
           said(i) == [ label |-> sources[i].label, text |-> sources[i].text ]
<1>1. Len(sources) \in Nat
  OBVIOUS
<1>2. /\ first \in SUBSET (1..Len(sources)) /\ first \subseteq Spoken(sources)
      /\ \A t \in Told(sources) : \E i \in first : sources[i].text = t
      /\ \A i, j \in first : sources[i].text = sources[j].text => i = j
      /\ 1 \in Spoken(sources) => 1 \in first
  BY SaidOnce
<1> HIDE DEF first
<1>3. /\ IsFiniteSet(first) /\ n \in Nat
      /\ \A k \in 1..n : Nth(first, k) \in first
      /\ \A i \in first : \E k \in 1..n : Nth(first, k) = i
      /\ 1 \in first => n >= 1 /\ Nth(first, 1) = 1
  BY <1>1, <1>2, NthIs
<1>4. list = [k \in 1..n |-> said(Nth(first, k))]
  BY DEF Sections, first
<1>5. \A i : said(i).text = sources[i].text
  OBVIOUS
<1> HIDE DEF list, n, said
<1>6. DOMAIN list = 1..n /\ \A k \in 1..n : list[k] = said(Nth(first, k))
  BY <1>4
<1>7. Len(list) = n
  <2> DEFINE X == { list[k] : k \in 1..n }
  <2>1. list \in [1..n -> X]
    BY <1>4, <1>6
  <2> HIDE DEF X
  <2>2. list \in Seq(X)
    BY <1>3, <2>1, SeqDef
  <2>3. DOMAIN list = 1..Len(list) /\ Len(list) \in Nat
    BY <2>2
  <2> QED BY <1>3, <1>6, <2>3
<1>8. Told(sources) = { sources[i].text : i \in first }
  <2>1. Told(sources) = { sources[i].text : i \in Spoken(sources) }
    BY DEF Told
  <2>2. { sources[i].text : i \in first } \subseteq Told(sources)
    BY <1>2, <2>1
  <2>3. ASSUME NEW t \in Told(sources) PROVE t \in { sources[i].text : i \in first }
    BY <1>2, <2>3
  <2> QED BY <2>2, <2>3
<1>9. { list[k].text : k \in DOMAIN list } = Told(sources)
  <2>1. \A k \in 1..n : list[k].text = sources[Nth(first, k)].text
    BY <1>5, <1>6
  <2>2. \A k \in 1..n : list[k].text \in Told(sources)
    BY <1>3, <1>8, <2>1
  <2>3. ASSUME NEW t \in Told(sources) PROVE \E k \in 1..n : list[k].text = t
    <3>1. PICK i \in first : sources[i].text = t
      BY <1>2
    <3>2. PICK k \in 1..n : Nth(first, k) = i
      BY <1>3
    <3> QED BY <2>1, <3>1, <3>2
  <2> QED BY <1>6, <2>2, <2>3
<1>10. Cardinality(Told(sources)) = n
  <2> DEFINE f == [i \in first |-> sources[i].text]
  <2>1. f \in [first -> Told(sources)] /\ \A i \in first : f[i] = sources[i].text
    BY <1>8
  <2>2. \A i, j \in first : f[i] = f[j] => i = j
    BY <1>2, <2>1
  <2>3. \A t \in Told(sources) : \E i \in first : f[i] = t
    BY <1>2, <2>1
  <2> HIDE DEF f
  <2>7. f \in Surjection(first, Told(sources))
    BY <2>1, <2>3 DEF Surjection
  <2>8. f \in Injection(first, Told(sources))
    BY <2>1, <2>2 DEF Injection, IsInjective
  <2>4. f \in Surjection(first, Told(sources)) /\ f \in Injection(first, Told(sources))
    BY <2>7, <2>8
  <2>5. f \in Bijection(first, Told(sources))
    BY <2>4 DEF Bijection
  <2>6. ExistsBijection(first, Told(sources))
    BY <2>5 DEF ExistsBijection
  <2> QED BY <1>3, <2>6, FS_Bijection DEF n
<1>11. ASSUME 1 \in Spoken(sources) PROVE list[1] = said(1)
  <2>1. 1 \in 1..n /\ Nth(first, 1) = 1
    BY <1>2, <1>3, <1>11
  <2> QED BY <1>6, <2>1
<1> QED BY <1>7, <1>9, <1>10, <1>11 DEF said, list

\* The harness's own source first, the others after it.
LEMMA OwnFirstIs ==
  ASSUME NEW S, NEW sources \in Seq(S), sources # <<>>
  PROVE  LET list == OwnFirst(sources) IN
         /\ list \in Seq(S) /\ list[1] = sources[Len(sources)] /\ 1 \in DOMAIN list
         /\ \A k \in DOMAIN list : \E i \in DOMAIN sources : list[k] = sources[i]
         /\ \A i \in DOMAIN sources : \E k \in DOMAIN list : list[k] = sources[i]
<1> DEFINE n == Len(sources)
           front == Front(sources)
           list == OwnFirst(sources)
<1>1. n \in Nat /\ n >= 1 /\ DOMAIN sources = 1..n /\ sources[n] \in S
  BY EmptySeq
<1>2. front = SubSeq(sources, 1, n - 1)
  BY DEF Front
<1>3. front \in Seq(S) /\ Len(front) = n - 1 /\ \A k \in 1..(n - 1) : front[k] = sources[k]
  BY <1>1, <1>2
<1>4. list = <<sources[n]>> \o front
  BY DEF OwnFirst, Last
<1>5. list \in Seq(S) /\ Len(list) = n /\ list[1] = sources[n] /\ \A k \in 2..n : list[k] = front[k - 1]
  <2> HIDE DEF list, front, n
  <2> DEFINE own == <<sources[n]>>
  <2>1. own \in Seq(S) /\ Len(own) = 1 /\ own[1] = sources[n]
    BY <1>1
  <2> HIDE DEF own
  <2>5. front \in Seq(S) /\ Len(front) = n - 1
    BY <1>3
  <2>2. own \o front \in Seq(S) /\ Len(own \o front) = n
    <3>1. own \o front \in Seq(S) /\ Len(own \o front) = Len(own) + Len(front)
      BY <2>1, <2>5, ConcatProperties
    <3> QED BY <1>1, <2>1, <2>5, <3>1
  <2>3. (own \o front)[1] = sources[n]
    <3>1. 1 \in 1..(Len(own) + Len(front)) /\ 1 <= Len(own)
      BY <1>1, <2>1, <2>5
    <3>2. (own \o front)[1] = own[1]
      BY <2>1, <2>5, <3>1, ConcatProperties
    <3> QED BY <2>1, <3>2
  <2>4. ASSUME NEW k \in 2..n PROVE (own \o front)[k] = front[k - 1]
    <3>1. k \in 1..(Len(own) + Len(front)) /\ ~(k <= Len(own))
      BY <1>1, <2>1, <2>5
    <3>2. (own \o front)[k] = front[k - Len(own)]
      BY <2>1, <2>5, <3>1, ConcatProperties
    <3> QED BY <2>1, <3>2
  <2> QED BY <1>4, <2>2, <2>3, <2>4 DEF own
<1> HIDE DEF list, front, n
<1>6. DOMAIN list = 1..n
  BY <1>5
<1>7. \A k \in 2..n : list[k] = sources[k - 1] /\ k - 1 \in 1..n
  BY <1>1, <1>3, <1>5
<1>8. ASSUME NEW k \in DOMAIN list PROVE \E i \in DOMAIN sources : list[k] = sources[i]
  <2>1. k = 1 \/ k \in 2..n
    BY <1>1, <1>6
  <2>2. n \in DOMAIN sources
    BY <1>1
  <2>3. CASE k \in 2..n
    <3>1. list[k] = sources[k - 1] /\ k - 1 \in DOMAIN sources
      BY <1>1, <1>7, <2>3
    <3> QED BY <3>1
  <2> QED BY <1>5, <2>1, <2>2, <2>3
<1>9. ASSUME NEW i \in DOMAIN sources PROVE \E k \in DOMAIN list : list[k] = sources[i]
  <2>1. CASE i = n
    BY <1>1, <1>5, <1>6, <2>1
  <2>2. CASE i # n
    <3>1. i + 1 \in 2..n /\ (i + 1) - 1 = i
      BY <1>1, <2>2
    <3>2. list[i + 1] = sources[i]
      BY <1>7, <3>1
    <3>3. i + 1 \in DOMAIN list
      BY <1>6, <3>1
    <3> QED BY <3>2, <3>3
  <2> QED BY <2>1, <2>2
<1> QED BY <1>1, <1>5, <1>6, <1>8, <1>9 DEF list, n

\* The instructions have every text once, the harness's own first.
LEMMA InstructionsAre ==
  ASSUME content \in Contents
  PROVE  LET spoken == { i \in DOMAIN content : ~content[i].silent /\ content[i].text # None }
             list == Sections(OwnFirst(content))
         IN /\ { list[k].text : k \in DOMAIN list } = { content[i].text : i \in spoken }
            /\ Len(list) = Cardinality({ content[i].text : i \in spoken })
            /\ Len(content) \in spoken => list[1] = [ label |-> Top, text |-> content[Len(content)].text ]
<1> DEFINE sources == OwnFirst(content)
           spoken == { i \in DOMAIN content : ~content[i].silent /\ content[i].text # None }
<1>1. content \in Seq(Sources) /\ content # <<>>
  BY AssemblyAssumption
<1>2. /\ sources \in Seq(Sources) /\ sources[1] = content[Len(content)] /\ 1 \in DOMAIN sources
      /\ \A k \in DOMAIN sources : \E i \in DOMAIN content : sources[k] = content[i]
      /\ \A i \in DOMAIN content : \E k \in DOMAIN sources : sources[k] = content[i]
  BY <1>1, OwnFirstIs
<1>3. content[Len(content)].label = Top
  <2>1. Len(content) \in DOMAIN content
    BY <1>1, EmptySeq
  <2> QED BY <2>1, AssemblyAssumption
<1> HIDE DEF sources
<1>4. Told(sources) = { content[i].text : i \in spoken }
  <2>1. ASSUME NEW i \in spoken PROVE content[i].text \in Told(sources)
    <3>1. PICK k \in DOMAIN sources : sources[k] = content[i]
      BY <1>2
    <3> QED BY <3>1 DEF Told, Spoken
  <2>2. ASSUME NEW k \in Spoken(sources) PROVE sources[k].text \in { content[i].text : i \in spoken }
    <3>0. k \in DOMAIN sources /\ ~sources[k].silent /\ sources[k].text # None
      BY DEF Spoken
    <3>1. PICK i \in DOMAIN content : sources[k] = content[i]
      BY <1>2, <3>0
    <3> QED BY <3>0, <3>1
  <2> QED BY <2>1, <2>2 DEF Told
<1>5. Len(content) \in spoken => 1 \in Spoken(sources)
  BY <1>2 DEF Spoken
<1> HIDE DEF spoken
<1>6. LET list == Sections(sources) IN
      /\ { list[k].text : k \in DOMAIN list } = Told(sources) /\ Len(list) = Cardinality(Told(sources))
      /\ 1 \in Spoken(sources) => list[1] = [ label |-> sources[1].label, text |-> sources[1].text ]
  BY <1>2, SectionsAre
<1> QED BY <1>2, <1>3, <1>4, <1>5, <1>6 DEF sources, spoken
-----------------------------------------------------------------------------
\* The run directory that a launch assembles.

\* Who has a file when so much is copied, and when commands are skills.
Wrote(f) == { i \in Givers(f) : i < at \/ (i = at /\ <<f.kind, f.name>> \notin todo) }
LastOf(S) == IF S = {} THEN Nobody ELSE From(Max(S))
SoFar(f) == LastOf(Wrote(f))

AsSkill(f) ==
  /\ vendor.skiller /\ f = Skill(f.name) /\ [f EXCEPT !.kind = "commands"] \in Files
  /\ Givers([f EXCEPT !.kind = "commands"]) # {} /\ \A g \in Of("skills", f.name) : Givers(g) = {}
WithCommands(f) ==
  IF vendor.skiller /\ f.kind = "commands" THEN Nobody
  ELSE IF AsSkill(f) THEN [ by |-> "command", of |-> Max(Givers([f EXCEPT !.kind = "commands"])) ]
  ELSE Given(f)

NamedAs(f) == { i \in DOMAIN out : Agent(NameOf[out[i].dir]) = f }

\* A file is a delegate's once one of its name is written.
WithDelegates(f) ==
  IF { i \in NamedAs(f) : i < at } = {} THEN {WithCommands(f)} ELSE { [ by |-> "delegate", of |-> out[i].dir ] : i \in NamedAs(f) }

DirIsShaped ==
  dir = [ files |-> [f \in Files |-> dir.files[f]], sections |-> dir.sections, rules |-> dir.rules, scripts |-> dir.scripts ]

RulesAre == { f.name : f \in { g \in Files : g.kind = "rules" /\ vendor.folds /\ Given(g) # Nobody } }

\* What the directory has at each step: the copies so far, then the commands as
\* skills, the instructions, the agents so far, and the scripts.
DirInv ==
  /\ content \in Contents /\ DirIsShaped /\ warned = [n \in Names |-> warned[n]]
  /\ IF request = None THEN status = "done" ELSE step = "idle"
  /\ step = "copy" =>
       /\ at \in DOMAIN content /\ todo \subseteq Asked(content[at])
       /\ \A f \in Files : dir.files[f] = SoFar(f)
       /\ \A n \in Names : Agent(n) \in Files => warned[n] = SoFar(Agent(n)).of
  /\ step = "commands" => \A f \in Files : dir.files[f] = Given(f)
  /\ step \in {"commands", "instructions", "delegates", "agents", "hooks", "done"} =>
       \A n \in Names : Agent(n) \in Files => warned[n] = Given(Agent(n)).of
  /\ step \in {"instructions", "delegates"} => \A f \in Files : dir.files[f] = WithCommands(f)
  /\ step \in {"delegates", "agents", "hooks", "done"} => dir.sections = Sections(OwnFirst(content)) /\ dir.rules = RulesAre
  /\ step = "agents" => at \in Nat \ {0} /\ \A f \in Files : dir.files[f] \in WithDelegates(f)
  /\ step \in {"hooks", "done"} => \A f \in Files : dir.files[f] \in Holds(f)
  /\ step = "done" => dir.scripts = HookScripts(content)

LEMMA SourcesAre ==
  ASSUME content \in Contents
  PROVE  /\ content \in Seq(Sources) /\ Len(content) \in Nat \ {0} /\ DOMAIN content = 1..Len(content)
         /\ \A i \in DOMAIN content : content[i] \in Sources /\ i \in Nat /\ i >= 1
<1>1. content \in Seq(Sources) /\ content # <<>>
  BY AssemblyAssumption
<1>2. Len(content) \in Nat \ {0} /\ DOMAIN content = 1..Len(content)
  BY <1>1, EmptySeq
<1>3. \A i \in DOMAIN content : content[i] \in Sources /\ i \in Nat /\ i >= 1
  BY <1>1, <1>2
<1> QED BY <1>1, <1>2, <1>3

\* What is given depends on the content and the tool alone.
LEMMA GivenStays ==
  ASSUME UNCHANGED <<content, vendor>>, NEW f
  PROVE  Givers(f)' = Givers(f) /\ Given(f)' = Given(f) /\ AsSkill(f)' = AsSkill(f) /\ WithCommands(f)' = WithCommands(f)
<1>1. \A g : Givers(g)' = Givers(g)
  BY DEF Givers
<1>2. Given(f)' = Given(f)
  BY <1>1 DEF Given
<1>3. AsSkill(f)' = AsSkill(f)
  BY <1>1 DEF AsSkill
<1>4. WithCommands(f)' = WithCommands(f)
  BY <1>1, <1>2, <1>3 DEF WithCommands
<1> QED BY <1>1, <1>2, <1>3, <1>4

LEMMA HeldStays ==
  ASSUME UNCHANGED <<content, vendor, out>>, NEW f
  PROVE  Holds(f)' = Holds(f) /\ NamedAs(f)' = NamedAs(f) /\ RulesAre' = RulesAre
<1>1. \A g : Givers(g)' = Givers(g) /\ Given(g)' = Given(g)
  BY GivenStays
<1> QED BY <1>1 DEF Holds, NamedAs, RulesAre

\* Files of agents and their names.
LEMMA AgentIs ==
  /\ \A n, m : Agent(n) = Agent(m) <=> n = m
  /\ \A n : Agent(n).kind = "agents" /\ Agent(n).name = n /\ Agent(n).part = Main
  /\ \A f \in Files : f.kind = "agents" => f = Agent(f.name)
<1>1. \A n : Agent(n).kind = "agents" /\ Agent(n).name = n /\ Agent(n).part = Main
  BY DEF Agent
<1>2. ASSUME NEW f \in Files, f.kind = "agents" PROVE f = Agent(f.name)
  <2>1. f.part = Main
    BY <1>2, AssemblyAssumption
  <2> QED BY <1>2, <2>1, FileIs DEF Agent
<1> QED BY <1>1, <1>2

\* What holds where nothing is assembled.
LEMMA NothingDone ==
  ASSUME content' \in Contents, DirIsShaped', (warned = [n \in Names |-> warned[n]])',
         IF request' = None THEN status' = "done" ELSE step' = "idle", step' \in {"ready", "failed", "idle"}
  PROVE  DirInv'
BY DEF DirInv

LEMMA DirRests ==
  ASSUME DirInv, UNCHANGED <<content, vendor, dir, warned, at, todo, step, request, status, out>>
  PROVE  DirInv'
<1>1. \A f : /\ Givers(f)' = Givers(f) /\ Given(f)' = Given(f) /\ WithCommands(f)' = WithCommands(f)
             /\ Holds(f)' = Holds(f) /\ NamedAs(f)' = NamedAs(f) /\ RulesAre' = RulesAre
  BY GivenStays, HeldStays
<1>2. \A f : SoFar(f)' = SoFar(f) /\ WithDelegates(f)' = WithDelegates(f)
  BY <1>1 DEF SoFar, Wrote, WithDelegates
<1> QED BY <1>1, <1>2 DEF DirInv, DirIsShaped

\* The steps of a launch.
LEMMA CopiesKeep ==
  ASSUME DirInv, request = None, UNCHANGED exportVars, AssembleTo \/ CopyArtifact \/ NextSource
  PROVE  DirInv'
<1>1. /\ content \in Contents /\ DirIsShaped /\ warned = [n \in Names |-> warned[n]]
      /\ status = "done" /\ UNCHANGED <<content, vendor, request, status>>
  BY DEF DirInv, exportVars, AssembleTo, CopyArtifact, NextSource
<1>2. \A f : Givers(f)' = Givers(f) /\ Given(f)' = Given(f)
  BY <1>1, GivenStays
<1>3. Len(content) \in Nat \ {0} /\ DOMAIN content = 1..Len(content) /\ \A i \in DOMAIN content : content[i] \in Sources
  BY <1>1, SourcesAre
<1>4. \A f : Givers(f) \subseteq DOMAIN content /\ \A i \in Givers(f) : i \in Nat /\ i >= 1 /\ <<f.kind, f.name>> \in Asked(content[i])
  BY <1>3 DEF Givers
<1>5. CASE AssembleTo
  <2>1. dir' = EmptyDir /\ warned' = [n \in Names |-> 0] /\ at' = 1 /\ todo' = Asked(content[1]) /\ step' = "copy"
    BY <1>5 DEF AssembleTo, Clean
  <2>2. DirIsShaped'
    BY <2>1 DEF DirIsShaped, EmptyDir
  <2>3. \A f : Wrote(f)' = {}
    BY <1>1, <1>2, <1>4, <2>1 DEF Wrote
  <2>4. \A f \in Files : SoFar(f)' = Nobody /\ dir'.files[f] = Nobody
    BY <2>1, <2>3 DEF SoFar, LastOf, EmptyDir
  <2>5. \A n \in Names : SoFar(Agent(n))'.of = 0 /\ warned'[n] = 0
    BY <2>1, <2>3 DEF SoFar, LastOf, Nobody
  <2>6. (warned = [n \in Names |-> warned[n]])'
    BY <2>1
  <2>7. 1 \in DOMAIN content
    BY <1>3
  <2> QED BY <1>1, <2>1, <2>2, <2>4, <2>5, <2>6, <2>7 DEF DirInv
<1>6. CASE CopyArtifact
  <2>1. /\ step = "copy" /\ step' = "copy" /\ at' = at
        /\ at \in DOMAIN content /\ todo \subseteq Asked(content[at])
        /\ \A f \in Files : dir.files[f] = SoFar(f)
        /\ \A n \in Names : Agent(n) \in Files => warned[n] = SoFar(Agent(n)).of
    BY <1>6 DEF DirInv, CopyArtifact
  <2>2. PICK a \in todo : LET found == Of(a[1], a[2]) \intersect content[at].files IN
          /\ found # {}
          /\ dir' = [dir EXCEPT !.files = [f \in Files |-> IF f \in found /\ f.part # Evals THEN From(at) ELSE @[f]]]
          /\ warned' = IF a[1] = "agents" THEN [warned EXCEPT ![a[2]] = at] ELSE warned
          /\ todo' = todo \ {a}
    BY <1>6 DEF CopyArtifact
  <2> DEFINE found == Of(a[1], a[2]) \intersect content[at].files
  <2>3. a \in Artifacts /\ a = <<a[1], a[2]>>
    <3>1. a \in Asked(content[at])
      BY <2>1
    <3>2. content[at].picks \subseteq Artifacts /\ content[at].files \subseteq Files
      BY <1>3, <2>1 DEF Sources
    <3>3. a \in Artifacts
      <4>1. CASE content[at].picks # {}
        BY <3>1, <3>2, <4>1 DEF Asked
      <4>2. CASE content[at].picks = {}
        BY <3>1, <3>2, <4>2 DEF Asked, Artifacts
      <4> QED BY <4>1, <4>2
    <3> QED BY <3>3 DEF Artifacts
  <2>4. at \in Nat /\ at >= 1
    BY <1>3, <2>1
  <2>5. \A f : f \in found <=> f \in Files /\ f.kind = a[1] /\ f.name = a[2] /\ f \in content[at].files
    BY DEF Of
  <2>6. \A f \in Files : dir'.files[f] = IF f \in found /\ f.part # Evals THEN From(at) ELSE dir.files[f]
    BY <1>1, <2>2 DEF DirIsShaped
  <2>7. \A f \in Files : <<f.kind, f.name>> = a <=> f.kind = a[1] /\ f.name = a[2]
    BY <2>3
  <2> HIDE DEF found
  <2>8. ASSUME NEW f \in Files, f \in found, f.part # Evals
        PROVE  at \in Wrote(f)' /\ \A i \in Wrote(f)' : i <= at
    <3>1. at \in Givers(f)
      BY <2>1, <2>2, <2>5, <2>7, <2>8 DEF Givers
    <3>2. <<f.kind, f.name>> \notin todo'
      BY <2>2, <2>5, <2>7, <2>8
    <3>3. Wrote(f)' = { i \in Givers(f) : i < at \/ (i = at /\ <<f.kind, f.name>> \notin todo') }
      BY <1>2, <2>1 DEF Wrote
    <3>4. \A i \in Wrote(f)' : i <= at
      BY <1>4, <2>4, <3>3
    <3> QED BY <3>1, <3>2, <3>3, <3>4
  <2>9. ASSUME NEW f \in Files, ~(f \in found /\ f.part # Evals)
        PROVE  Wrote(f)' = Wrote(f)
    <3>1. at \in Givers(f) => (<<f.kind, f.name>> \in todo' <=> <<f.kind, f.name>> \in todo)
      BY <2>2, <2>5, <2>7, <2>9 DEF Givers
    <3> QED BY <1>2, <2>1, <3>1 DEF Wrote
  <2>10. ASSUME NEW f \in Files, f \in found, f.part # Evals PROVE SoFar(f)' = From(at)
    <3>1. at \in Wrote(f)' /\ \A i \in Wrote(f)' : i <= at /\ i \in Nat
      BY <1>2, <1>4, <2>8, <2>10 DEF Wrote
    <3> DEFINE W == Wrote(f)'
    <3>2. at \in W /\ \A i \in W : i <= at /\ i \in Nat
      BY <3>1
    <3> HIDE DEF W
    <3>3. Max(W) = at
      <4>1. \A y \in W : at >= y
        BY <2>4, <3>2
      <4>2. \A x \in W : (\A y \in W : x >= y) => x = at
        BY <2>4, <3>2
      <4> QED BY <3>2, <4>1, <4>2 DEF Max
    <3>4. SoFar(f)' = LastOf(W)
      BY DEF SoFar, LastOf, From, Nobody, Max, W
    <3> QED BY <3>2, <3>3, <3>4 DEF LastOf
  <2>11. ASSUME NEW f \in Files, ~(f \in found /\ f.part # Evals) PROVE SoFar(f)' = SoFar(f)
    BY <2>9, <2>11 DEF SoFar, LastOf, From, Nobody
  <2>12. \A f \in Files : dir'.files[f] = SoFar(f)'
    BY <2>1, <2>6, <2>10, <2>11
  <2>13. DirIsShaped'
    BY <1>1, <2>2 DEF DirIsShaped
  <2>14. ASSUME NEW n \in Names, Agent(n) \in Files PROVE warned'[n] = SoFar(Agent(n))'.of
    <3>1. Agent(n).part # Evals
      BY AgentIs, AssemblyAssumption
    <3>2. CASE a[1] = "agents" /\ a[2] = n
      <4>1. Agent(n) \in found
        <5>1. PICK g \in found : TRUE
          BY <2>2 DEF found
        <5>2. g \in Files /\ g.kind = "agents" /\ g.name = n
          BY <2>5, <3>2, <5>1
        <5>3. g = Agent(n)
          BY <5>2, AgentIs
        <5> QED BY <5>1, <5>3
      <4>2. SoFar(Agent(n))' = From(at)
        BY <2>10, <2>14, <3>1, <4>1
      <4>3. warned'[n] = at
        BY <1>1, <2>2, <3>2
      <4> QED BY <4>2, <4>3 DEF From
    <3>3. CASE ~(a[1] = "agents" /\ a[2] = n)
      <4>1. Agent(n) \notin found
        BY <2>5, <3>3, AgentIs
      <4>2. SoFar(Agent(n))' = SoFar(Agent(n))
        BY <2>11, <2>14, <4>1
      <4>3. warned'[n] = warned[n]
        BY <1>1, <2>2, <3>3
      <4> QED BY <2>1, <2>14, <4>2, <4>3
    <3> QED BY <3>2, <3>3
  <2>15. (warned = [n \in Names |-> warned[n]])'
    BY <1>1, <2>2
  <2>16. at' \in DOMAIN content' /\ todo' \subseteq Asked(content'[at'])
    BY <1>1, <2>1, <2>2
  <2> QED BY <1>1, <2>1, <2>12, <2>13, <2>14, <2>15, <2>16 DEF DirInv
<1>7. CASE NextSource
  <2>1. /\ step = "copy" /\ todo = {} /\ UNCHANGED <<dir, warned>>
        /\ at \in DOMAIN content
        /\ \A f \in Files : dir.files[f] = SoFar(f)
        /\ \A n \in Names : Agent(n) \in Files => warned[n] = SoFar(Agent(n)).of
    BY <1>7 DEF DirInv, NextSource
  <2>2. at \in Nat /\ at >= 1 /\ at <= Len(content)
    BY <1>3, <2>1
  <2>3. \A f : Wrote(f) = { i \in Givers(f) : i <= at }
    <3> TAKE f
    <3>1. \A i \in Givers(f) : (i < at \/ (i = at /\ <<f.kind, f.name>> \notin todo)) <=> i <= at
      <4> TAKE i \in Givers(f)
      <4>1. i \in Nat /\ <<f.kind, f.name>> \notin todo
        BY <1>4, <2>1
      <4>2. i < at \/ i = at <=> i <= at
        BY <2>2, <4>1
      <4> QED BY <4>1, <4>2
    <3> QED BY <3>1 DEF Wrote
  <2>4. DirIsShaped' /\ (warned = [n \in Names |-> warned[n]])'
    BY <1>1, <2>1 DEF DirIsShaped
  <2>5. CASE at < Len(content)
    <3>1. at' = at + 1 /\ todo' = Asked(content[at + 1]) /\ step' = "copy"
      BY <1>7, <2>1, <2>5 DEF NextSource
    <3>2. at + 1 \in DOMAIN content
      BY <1>3, <2>2, <2>5
    <3>3. \A f : Wrote(f)' = Wrote(f)
      <4> TAKE f
      <4>1. Wrote(f)' = { i \in Givers(f) : i < at + 1 \/ (i = at + 1 /\ <<f.kind, f.name>> \notin Asked(content[at + 1])) }
        BY <1>2, <3>1 DEF Wrote
      <4>2. \A i \in Givers(f) : (i < at + 1 \/ (i = at + 1 /\ <<f.kind, f.name>> \notin Asked(content[at + 1]))) <=> i <= at
        BY <1>4, <2>2
      <4> QED BY <2>3, <4>1, <4>2
    <3>4. \A f : SoFar(f)' = SoFar(f)
      BY <3>3 DEF SoFar, LastOf, From, Nobody
    <3> QED BY <1>1, <2>1, <2>4, <3>1, <3>2, <3>4 DEF DirInv
  <2>6. CASE ~(at < Len(content))
    <3>1. step' = "commands"
      BY <1>7, <2>6 DEF NextSource
    <3>2. \A f : Wrote(f) = Givers(f)
      <4> TAKE f
      <4>1. \A i \in Givers(f) : i <= at
        <5> TAKE i \in Givers(f)
        <5>1. i \in 1..Len(content)
          BY <1>3, <1>4
        <5> QED BY <1>3, <2>2, <2>6, <5>1
      <4> QED BY <2>3, <4>1
    <3>3. \A f : SoFar(f) = Given(f)
      BY <3>2 DEF SoFar, LastOf, Given
    <3>4. \A f : Given(f)' = SoFar(f)
      BY <1>2, <3>3
    <3> QED BY <1>1, <2>1, <2>4, <3>1, <3>4 DEF DirInv
  <2> QED BY <2>5, <2>6
<1> QED BY <1>5, <1>6, <1>7
\* A launch makes skills of the commands once everything is copied.
LEMMA CommandsKeep ==
  ASSUME DirInv, request = None, UNCHANGED exportVars, CommandsAsSkills
  PROVE  DirInv'
<1>1. /\ content \in Contents /\ DirIsShaped /\ warned = [n \in Names |-> warned[n]]
      /\ status = "done" /\ UNCHANGED <<content, vendor, request, status, warned>>
      /\ step = "commands" /\ step' = "instructions"
      /\ \A f \in Files : dir.files[f] = Given(f)
      /\ \A n \in Names : Agent(n) \in Files => warned[n] = Given(Agent(n)).of
  BY DEF DirInv, exportVars, CommandsAsSkills
<1>2. \A f : Givers(f)' = Givers(f) /\ Given(f)' = Given(f) /\ WithCommands(f)' = WithCommands(f)
  BY <1>1, GivenStays
<1>3. \A f : Given(f) = Nobody <=> Givers(f) = {}
  BY DEF Given, From, Nobody
<1>4. \A f : Givers(f) # {} => Given(f).of = Max(Givers(f))
  BY DEF Given, From
<1>5. DirIsShaped' /\ \A f \in Files : dir'.files[f] = WithCommands(f)
  <2>1. CASE ~vendor.skiller
    <3>1. dir' = dir
      BY <2>1 DEF CommandsAsSkills
    <3>2. \A f : ~AsSkill(f)
      BY <2>1 DEF AsSkill
    <3>3. \A f : WithCommands(f) = Given(f)
      BY <2>1, <3>2 DEF WithCommands
    <3>4. DirIsShaped'
      BY <1>1, <3>1 DEF DirIsShaped
    <3> QED BY <1>1, <3>1, <3>3, <3>4
  <2>2. CASE vendor.skiller
    <3> DEFINE asCommand(f) == [f EXCEPT !.kind = "commands"]
               skillOf(f) == f = Skill(f.name) /\ asCommand(f) \in Staged(dir.files, "commands") /\ ~Taken(dir.files, f.name)
    <3>1. dir' = [dir EXCEPT !.files = [f \in Files |->
                    IF f.kind = "commands" THEN Nobody
                    ELSE IF skillOf(f) THEN [ by |-> "command", of |-> dir.files[asCommand(f)].of ]
                    ELSE dir.files[f]]]
      BY <2>2 DEF CommandsAsSkills
    <3>2. DirIsShaped'
      BY <1>1, <3>1 DEF DirIsShaped
    <3>3. \A f \in Files : dir'.files[f] =
            IF f.kind = "commands" THEN Nobody
            ELSE IF skillOf(f) THEN [ by |-> "command", of |-> dir.files[asCommand(f)].of ]
            ELSE dir.files[f]
      BY <1>1, <3>1 DEF DirIsShaped
    <3>4. ASSUME NEW f \in Files, f = Skill(f.name) PROVE asCommand(f).kind = "commands"
      <4>1. f = [ kind |-> f.kind, name |-> f.name, part |-> f.part ]
        BY FileIs
      <4> QED BY <4>1
    <3> HIDE DEF asCommand
    <3>5. ASSUME NEW f \in Files PROVE skillOf(f) <=> AsSkill(f)
      <4>1. Taken(dir.files, f.name) <=> ~\A g \in Of("skills", f.name) : Givers(g) = {}
        <5>1. \A g \in Of("skills", f.name) : dir.files[g] # Nobody <=> Givers(g) # {}
          BY <1>1, <1>3 DEF Of
        <5> QED BY <5>1 DEF Taken
      <4>2. f = Skill(f.name) => (asCommand(f) \in Staged(dir.files, "commands") <=> asCommand(f) \in Files /\ Givers(asCommand(f)) # {})
        BY <1>1, <1>3, <3>4 DEF Staged
      <4>3. AsSkill(f) <=> /\ f = Skill(f.name) /\ asCommand(f) \in Files
                           /\ Givers(asCommand(f)) # {} /\ \A g \in Of("skills", f.name) : Givers(g) = {}
        BY <2>2 DEF AsSkill, asCommand
      <4> QED BY <4>1, <4>2, <4>3
    <3> HIDE DEF skillOf
    <3>6. ASSUME NEW f \in Files, AsSkill(f) PROVE dir.files[asCommand(f)].of = Max(Givers(asCommand(f)))
      <4>1. asCommand(f) \in Files /\ Givers(asCommand(f)) # {}
        BY <3>6 DEF AsSkill, asCommand
      <4> QED BY <1>1, <1>4, <4>1
    <3>7. ASSUME NEW f \in Files PROVE dir'.files[f] = WithCommands(f)
      <4>1. CASE f.kind = "commands"
        BY <2>2, <3>3, <4>1 DEF WithCommands
      <4>2. CASE f.kind # "commands" /\ AsSkill(f)
        <5>1. dir'.files[f] = [ by |-> "command", of |-> Max(Givers(asCommand(f))) ]
          BY <3>3, <3>5, <3>6, <4>2
        <5> QED BY <4>2, <5>1 DEF WithCommands, asCommand
      <4>3. CASE f.kind # "commands" /\ ~AsSkill(f)
        BY <1>1, <3>3, <3>5, <4>3 DEF WithCommands
      <4> QED BY <4>1, <4>2, <4>3
    <3> QED BY <3>2, <3>7
  <2> QED BY <2>1, <2>2
<1>6. (warned = [n \in Names |-> warned[n]])'
  BY <1>1
<1> QED BY <1>1, <1>2, <1>5, <1>6 DEF DirInv

\* It composes the instructions, with the rules where the tool has no place for
\* them: a rule is never a command, a skill or a delegate.
LEMMA InstructionsKeep ==
  ASSUME DirInv, request = None, UNCHANGED exportVars, ComposeInstructions
  PROVE  DirInv'
<1>1. /\ content \in Contents /\ DirIsShaped /\ warned = [n \in Names |-> warned[n]]
      /\ status = "done" /\ UNCHANGED <<content, vendor, request, status, warned>>
      /\ step = "instructions" /\ step' = "delegates"
      /\ dir' = [dir EXCEPT !.sections = Sections(OwnFirst(content)), !.rules = FoldedRules(dir.files)]
      /\ \A f \in Files : dir.files[f] = WithCommands(f)
      /\ \A n \in Names : Agent(n) \in Files => warned[n] = Given(Agent(n)).of
  BY DEF DirInv, exportVars, ComposeInstructions
<1>2. \A f : Given(f)' = Given(f) /\ WithCommands(f)' = WithCommands(f)
  BY <1>1, GivenStays
<1>3. DirIsShaped' /\ dir'.files = dir.files /\ dir'.sections = Sections(OwnFirst(content)) /\ dir'.rules = FoldedRules(dir.files)
  <2> DEFINE files == [f \in Files |-> dir.files[f]]
             sections == Sections(OwnFirst(content))
             rules == FoldedRules(dir.files)
  <2>1. dir' = [dir EXCEPT !.sections = sections, !.rules = rules] /\ dir.files = files
    BY <1>1 DEF DirIsShaped
  <2>2. dir = [ files |-> files, sections |-> dir.sections, rules |-> dir.rules, scripts |-> dir.scripts ]
    BY <1>1 DEF DirIsShaped
  <2>3. files = [f \in Files |-> files[f]]
    OBVIOUS
  <2> HIDE DEF files, sections, rules
  <2>4. dir' = [ files |-> files, sections |-> sections, rules |-> rules, scripts |-> dir.scripts ]
    BY <2>1, <2>2
  <2>5. dir'.files = files /\ dir'.sections = sections /\ dir'.rules = rules /\ dir'.scripts = dir.scripts
    BY <2>4
  <2>6. DirIsShaped'
    BY <2>3, <2>4, <2>5 DEF DirIsShaped
  <2> QED BY <2>1, <2>5, <2>6 DEF sections, rules
<1>4. \A f \in Files : f.kind = "rules" => dir.files[f] = Given(f)
  <2>1. \A f : Skill(f.name).kind = "skills"
    BY DEF Skill
  <2>2. \A f : AsSkill(f) => f.kind = "skills"
    BY <2>1 DEF AsSkill
  <2> QED BY <1>1, <2>2 DEF WithCommands
<1>5. FoldedRules(dir.files) = RulesAre
  <2>1. CASE vendor.folds
    BY <1>4, <2>1 DEF FoldedRules, RulesAre, Staged
  <2>2. CASE ~vendor.folds
    BY <2>2 DEF FoldedRules, RulesAre
  <2> QED BY <2>1, <2>2
<1>6. RulesAre' = RulesAre /\ Sections(OwnFirst(content))' = Sections(OwnFirst(content))
  <2>1. RulesAre' = RulesAre
    BY <1>1, <1>2 DEF RulesAre
  <2> QED BY <1>1, <2>1
<1>7. (warned = [n \in Names |-> warned[n]])'
  BY <1>1
<1> QED BY <1>1, <1>2, <1>3, <1>5, <1>6, <1>7 DEF DirInv

\* It looks where the delegates lead, and begins to write the agents.
LEMMA FlattenKeeps ==
  ASSUME DirInv, WalkInv', request = None, UNCHANGED exportVars, FlattenDelegates
  PROVE  DirInv'
<1>1. /\ content \in Contents /\ DirIsShaped /\ warned = [n \in Names |-> warned[n]]
      /\ status = "done" /\ UNCHANGED <<content, vendor, request, status, warned, dir>>
      /\ step = "delegates"
      /\ \A f \in Files : dir.files[f] = WithCommands(f)
      /\ \A n \in Names : Agent(n) \in Files => warned[n] = Given(Agent(n)).of
      /\ dir.sections = Sections(OwnFirst(content)) /\ dir.rules = RulesAre
  BY DEF DirInv, exportVars, FlattenDelegates
<1>2. \A f : Given(f)' = Given(f) /\ WithCommands(f)' = WithCommands(f)
  BY <1>1, GivenStays
<1>3. RulesAre' = RulesAre /\ Sections(OwnFirst(content))' = Sections(OwnFirst(content))
  <2>1. RulesAre' = RulesAre
    BY <1>1, <1>2 DEF RulesAre
  <2> QED BY <1>1, <2>1
<1>4. DirIsShaped' /\ (warned = [n \in Names |-> warned[n]])'
  BY <1>1 DEF DirIsShaped
<1>5. CASE step' = "agents" /\ at' = 1
  <2>1. \A f \in Files : dir'.files[f] \in WithDelegates(f)'
    <3> TAKE f \in Files
    <3>1. \A i \in NamedAs(f)' : ~(i < 1)
      <4>1. DOMAIN out' = 1..Len(out') /\ Len(out') \in Nat
        <5>1. out' \in Seq(AgentRecords')
          BY DEF WalkInv, WalkTypes
        <5> QED BY <5>1
      <4>2. NamedAs(f)' \subseteq 1..Len(out')
        BY <4>1 DEF NamedAs
      <4> QED BY <4>1, <4>2
    <3>2. { i \in NamedAs(f)' : i < at' } = {}
      BY <1>5, <3>1
    <3>3. WithDelegates(f)' = {WithCommands(f)'}
      BY <3>2 DEF WithDelegates
    <3> QED BY <1>1, <1>2, <3>3
  <2> QED BY <1>1, <1>2, <1>3, <1>4, <1>5, <2>1 DEF DirInv
<1>6. CASE step' = "failed"
  BY <1>1, <1>4, <1>6, NothingDone
<1>7. CASE UNCHANGED step
  BY <1>1, <1>2, <1>3, <1>4, <1>7 DEF DirInv
<1>8. \/ step' = "agents" /\ at' = 1
      \/ step' = "failed"
      \/ UNCHANGED step
  BY DEF FlattenDelegates
<1> QED BY <1>5, <1>6, <1>7, <1>8

\* What a file may hold at last: an agent that delegates are named after is one of
\* theirs, and anything else is what it was with the commands.
LEMMA HoldsAre ==
  ASSUME NEW f \in Files
  PROVE  Holds(f) = IF NamedAs(f) = {} THEN {WithCommands(f)} ELSE { [ by |-> "delegate", of |-> out[i].dir ] : i \in NamedAs(f) }
<1> DEFINE command == [f EXCEPT !.kind = "commands"]
           asSkill == /\ vendor.skiller /\ f = Skill(f.name) /\ command \in Files /\ Givers(command) # {}
                      /\ \A g \in Of("skills", f.name) : Givers(g) = {}
           delegates == NamedAs(f)
           made == { [ by |-> "delegate", of |-> out[i].dir ] : i \in delegates }
           turned == [ by |-> "command", of |-> Max(Givers(command)) ]
<1>1. delegates # {} => f.kind = "agents"
  BY AgentIs DEF NamedAs
<1>2. asSkill => f.kind = "skills"
  BY DEF Skill
<1>3. AsSkill(f) <=> asSkill
  BY DEF AsSkill
<1>4. Holds(f) = CASE delegates # {} -> made
                   [] vendor.skiller /\ f.kind = "commands" -> {Nobody}
                   [] asSkill -> {turned}
                   [] OTHER -> {Given(f)}
  BY DEF Holds, NamedAs
<1>5. WithCommands(f) = IF vendor.skiller /\ f.kind = "commands" THEN Nobody ELSE IF asSkill THEN turned ELSE Given(f)
  BY <1>3 DEF WithCommands
<1> HIDE DEF asSkill, delegates, made, turned, command
<1>6. CASE delegates # {}
  BY <1>1, <1>2, <1>4, <1>6 DEF made, delegates
<1>7. CASE delegates = {} /\ vendor.skiller /\ f.kind = "commands"
  BY <1>2, <1>4, <1>5, <1>7 DEF delegates
<1>8. CASE delegates = {} /\ asSkill
  BY <1>2, <1>4, <1>5, <1>8 DEF delegates
<1>9. CASE delegates = {} /\ ~(vendor.skiller /\ f.kind = "commands") /\ ~asSkill
  BY <1>4, <1>5, <1>9 DEF delegates
<1> QED BY <1>6, <1>7, <1>8, <1>9

\* It writes one agent after the other.
LEMMA AgentsKeep ==
  ASSUME DirInv, WalkInv, request = None, UNCHANGED exportVars, WriteDelegate
  PROVE  DirInv'
<1>1. /\ content \in Contents /\ DirIsShaped /\ warned = [n \in Names |-> warned[n]]
      /\ status = "done" /\ UNCHANGED <<content, vendor, request, status, warned, out>>
      /\ step = "agents" /\ at \in Nat \ {0}
      /\ \A f \in Files : dir.files[f] \in WithDelegates(f)
      /\ \A n \in Names : Agent(n) \in Files => warned[n] = Given(Agent(n)).of
      /\ dir.sections = Sections(OwnFirst(content)) /\ dir.rules = RulesAre
  BY DEF DirInv, exportVars, WriteDelegate, walkVars
<1>2. \A f : /\ Given(f)' = Given(f) /\ WithCommands(f)' = WithCommands(f)
             /\ Holds(f)' = Holds(f) /\ NamedAs(f)' = NamedAs(f) /\ RulesAre' = RulesAre
  BY <1>1, GivenStays, HeldStays
<1>3. Sections(OwnFirst(content))' = Sections(OwnFirst(content)) /\ (warned = [n \in Names |-> warned[n]])'
  BY <1>1
<1>4. out \in Seq(AgentRecords) /\ DOMAIN out = 1..Len(out) /\ Len(out) \in Nat
  BY DEF WalkInv, WalkTypes
<1>5. \A f : NamedAs(f) \subseteq 1..Len(out)
  BY <1>4 DEF NamedAs
<1>6. CASE at <= Len(out)
  <2> DEFINE agent == Agent(NameOf[out[at].dir])
             whose == [ by |-> "delegate", of |-> out[at].dir ]
  <2>1. dir' = [dir EXCEPT !.files[agent] = whose] /\ at' = at + 1 /\ step' = "agents"
    BY <1>1, <1>6 DEF WriteDelegate
  <2> HIDE DEF agent, whose
  <2>2. DirIsShaped' /\ \A f \in Files : dir'.files[f] = IF f = agent THEN whose ELSE dir.files[f]
    BY <1>1, <2>1 DEF DirIsShaped
  <2>3. ASSUME NEW f \in Files PROVE dir'.files[f] \in WithDelegates(f)'
    <3>1. WithDelegates(f)' = IF { i \in NamedAs(f) : i < at + 1 } = {} THEN {WithCommands(f)}
                              ELSE { [ by |-> "delegate", of |-> out[i].dir ] : i \in NamedAs(f) }
      BY <1>1, <1>2, <2>1 DEF WithDelegates
    <3>2. CASE f = agent /\ at \in DOMAIN out
      <4>1. at \in NamedAs(f)
        BY <3>2 DEF NamedAs, agent
      <4>2. at < at + 1
        BY <1>1
      <4>3. dir'.files[f] = [ by |-> "delegate", of |-> out[at].dir ]
        BY <2>2, <3>2 DEF whose
      <4> QED BY <3>1, <4>1, <4>2, <4>3
    <3>3. CASE f # agent
      <4>1. at \notin NamedAs(f)
        BY <3>3 DEF NamedAs, agent
      <4>2. \A i \in NamedAs(f) : i < at + 1 <=> i < at
        <5> TAKE i \in NamedAs(f)
        <5>1. i \in Nat /\ i # at
          BY <1>4, <1>5, <4>1
        <5> QED BY <1>1, <5>1
      <4>3. WithDelegates(f)' = WithDelegates(f)
        BY <3>1, <4>2 DEF WithDelegates
      <4> QED BY <1>1, <2>2, <3>3, <4>3
    <3>4. at \in DOMAIN out
      BY <1>1, <1>4, <1>6
    <3> QED BY <3>2, <3>3, <3>4
  <2>4. at + 1 \in Nat \ {0}
    BY <1>1
  <2> QED BY <1>1, <1>2, <1>3, <2>1, <2>2, <2>3, <2>4 DEF DirInv
<1>7. CASE ~(at <= Len(out))
  <2>1. step' = "hooks" /\ dir' = dir
    BY <1>7 DEF WriteDelegate
  <2>2. DirIsShaped'
    BY <1>1, <2>1 DEF DirIsShaped
  <2>3. ASSUME NEW f \in Files PROVE dir.files[f] \in Holds(f)
    <3>1. \A i \in NamedAs(f) : i < at
      <4> TAKE i \in NamedAs(f)
      <4>1. i \in 1..Len(out)
        BY <1>5
      <4> QED BY <1>1, <1>4, <1>7, <4>1
    <3>2. dir.files[f] \in IF NamedAs(f) = {} THEN {WithCommands(f)} ELSE { [ by |-> "delegate", of |-> out[i].dir ] : i \in NamedAs(f) }
      BY <1>1, <3>1 DEF WithDelegates
    <3> QED BY <3>2, HoldsAre
  <2> QED BY <1>1, <1>2, <1>3, <2>1, <2>2, <2>3 DEF DirInv
<1> QED BY <1>6, <1>7

\* A launch that writes the scripts is done; one that cannot go on has failed.
LEMMA HooksKeep ==
  ASSUME DirInv, request = None, UNCHANGED exportVars, WriteSessionHooks
  PROVE  DirInv'
<1>1. /\ content \in Contents /\ DirIsShaped /\ warned = [n \in Names |-> warned[n]]
      /\ status = "done" /\ UNCHANGED <<content, vendor, request, status, warned, out>>
      /\ step = "hooks" /\ step' = "done" /\ dir' = [dir EXCEPT !.scripts = HookScripts(content)]
      /\ \A f \in Files : dir.files[f] \in Holds(f)
      /\ \A n \in Names : Agent(n) \in Files => warned[n] = Given(Agent(n)).of
      /\ dir.sections = Sections(OwnFirst(content)) /\ dir.rules = RulesAre
  BY DEF DirInv, exportVars, WriteSessionHooks, walkVars
<1>2. \A f : Given(f)' = Given(f) /\ Holds(f)' = Holds(f) /\ RulesAre' = RulesAre
  BY <1>1, GivenStays, HeldStays
<1>3. /\ Sections(OwnFirst(content))' = Sections(OwnFirst(content)) /\ HookScripts(content)' = HookScripts(content)
      /\ (warned = [n \in Names |-> warned[n]])'
  BY <1>1
<1>4. /\ DirIsShaped' /\ dir'.files = dir.files /\ dir'.sections = dir.sections /\ dir'.rules = dir.rules
      /\ dir'.scripts = HookScripts(content)
  BY <1>1 DEF DirIsShaped
<1> QED BY <1>1, <1>2, <1>3, <1>4 DEF DirInv

LEMMA LaunchStops ==
  ASSUME DirInv, request = None, UNCHANGED exportVars, PickNotFound \/ CannotWrite \/ LaunchAgain
  PROVE  DirInv'
<1>1. /\ DirIsShaped /\ warned = [n \in Names |-> warned[n]] /\ UNCHANGED <<request, status, dir, warned>> /\ status = "done"
      /\ content' \in Contents /\ step' \in {"failed", "ready"}
  BY DEF DirInv, exportVars, PickNotFound, CannotWrite, LaunchAgain
<1>2. DirIsShaped' /\ (warned = [n \in Names |-> warned[n]])'
  BY <1>1 DEF DirIsShaped
<1> QED BY <1>1, <1>2, NothingDone

LEMMA DirKeeps ==
  ASSUME DirInv, WalkInv, ExportNext
  PROVE  DirInv'
<1>1. CASE request = None /\ AssemblyNext /\ UNCHANGED exportVars
  BY <1>1, DelegatesKeep, CopiesKeep, CommandsKeep, InstructionsKeep, FlattenKeeps, AgentsKeep, HooksKeep, LaunchStops DEF AssemblyNext
<1>2. CASE StartExport
  <2>1. request' \in Exports /\ content' = request'.content /\ request # None /\ UNCHANGED <<vendor, dir, warned, at, todo, step>>
    BY <1>2 DEF StartExport
  <2>2. content' \in Contents /\ request' # None
    BY <2>1, ExportAssumption DEF Requests
  <2>3. step = "idle" /\ DirIsShaped /\ warned = [n \in Names |-> warned[n]]
    BY <2>1 DEF DirInv
  <2>4. DirIsShaped' /\ (warned = [n \in Names |-> warned[n]])'
    BY <2>1, <2>3 DEF DirIsShaped
  <2> QED BY <2>1, <2>2, <2>3, <2>4, NothingDone
<1>3. CASE UNCHANGED <<launchVars, request>> /\ status = "exporting"
  <2>1. request # None /\ step = "idle" /\ content \in Contents /\ DirIsShaped /\ warned = [n \in Names |-> warned[n]]
    BY <1>3 DEF DirInv
  <2>2. UNCHANGED <<content, vendor, dir, warned, step, request>>
    BY <1>3 DEF launchVars
  <2>3. DirIsShaped' /\ (warned = [n \in Names |-> warned[n]])'
    BY <2>1, <2>2 DEF DirIsShaped
  <2> QED BY <2>1, <2>2, <2>3, NothingDone
<1>4. CASE ResolveDelegates \/ ResolveWithout \/ RefuseSource \/ CleanOutput \/ RefuseToClean \/ Empty \/ CopyRefuses \/ ExportFails
  BY <1>3, <1>4 DEF ResolveDelegates, ResolveWithout, RefuseSource, CleanOutput, RefuseToClean, Empty, CopyRefuses, ExportFails, Doing
<1>5. ASSUME NEW do, Doing(do), \E files : Put(files) PROVE DirInv'
  BY <1>3, <1>5 DEF Doing, Put
<1>6. CASE CopyContent \/ CopyArtifacts \/ WriteInstructions \/ WriteDelegates
  BY <1>5, <1>6 DEF CopyContent, CopyArtifacts, WriteInstructions, WriteDelegates
<1>7. CASE WriteHooks
  BY <1>5, <1>7, HooksPut
<1>8. CASE WriteScripts \/ WriteServers
  BY <1>5, <1>8 DEF WriteScripts, WriteServers
<1>9. CASE WriteManifest \/ WritePortable \/ WritePackage
  BY <1>5, <1>9 DEF WriteManifest, WritePortable, WritePackage
<1> QED BY <1>1, <1>2, <1>4, <1>6, <1>7, <1>8, <1>9 DEF ExportNext

LEMMA DirBegins == ExportInit => DirInv
<1>1. ASSUME dir = EmptyDir PROVE DirIsShaped
  <2> DEFINE files == [f \in Files |-> Nobody]
  <2>1. dir = [ files |-> files, sections |-> <<>>, rules |-> {}, scripts |-> {} ]
    BY <1>1 DEF EmptyDir
  <2>2. files = [f \in Files |-> files[f]]
    OBVIOUS
  <2> HIDE DEF files
  <2>3. dir.files = files /\ dir.sections = <<>> /\ dir.rules = {} /\ dir.scripts = {}
    BY <2>1
  <2> QED BY <2>1, <2>2, <2>3 DEF DirIsShaped
<1>2. warned = [n \in Names |-> 0] => warned = [n \in Names |-> warned[n]]
  OBVIOUS
<1>3. CASE AssemblyInit /\ request = None /\ status = "done"
  BY <1>1, <1>2, <1>3 DEF AssemblyInit, DirInv
<1>4. CASE /\ request \in Exports /\ content = request.content /\ status = "exporting"
           /\ dir = EmptyDir /\ warned = [n \in Names |-> 0] /\ step = "idle"
  <2>1. content \in Contents /\ request # None
    BY <1>4, ExportAssumption DEF Requests
  <2> QED BY <1>1, <1>2, <1>4, <2>1 DEF DirInv
<1> QED BY <1>3, <1>4 DEF ExportInit

\* A directory that is done is the harness.
LEMMA DirIsRight == DirInv => DirIsTheHarness
<1> SUFFICES ASSUME DirInv, step = "done" PROVE DirIsTheHarness
  BY DEF DirIsTheHarness
<1>1. /\ content \in Contents
      /\ \A f \in Files : dir.files[f] \in Holds(f)
      /\ dir.sections = Sections(OwnFirst(content)) /\ dir.rules = RulesAre
      /\ \A n \in Names : Agent(n) \in Files => warned[n] = Given(Agent(n)).of
      /\ dir.scripts = HookScripts(content)
  BY DEF DirInv
<1>2. LET spoken == { i \in DOMAIN content : ~content[i].silent /\ content[i].text # None }
          list == dir.sections
      IN /\ { list[k].text : k \in DOMAIN list } = { content[i].text : i \in spoken }
         /\ Len(list) = Cardinality({ content[i].text : i \in spoken })
         /\ Len(content) \in spoken => list[1] = [ label |-> Top, text |-> content[Len(content)].text ]
  BY <1>1, InstructionsAre
<1>3. ASSUME NEW i \in Hooking(content), NEW s \in content[i].hooks
      PROVE  { w \in dir.scripts : w[1] = Folder(content, i) /\ w[2] = s } = { <<Folder(content, i), s, i>> }
  <2>1. /\ dir.scripts = Wanted /\ <<Folder(content, i), s, i>> \in Wanted
        /\ \A w \in Wanted : w[1] = Folder(content, i) /\ w[2] = s => w = <<Folder(content, i), s, i>>
    BY <1>1, <1>3, HookScriptsAre
  <2> QED BY <2>1
<1>4. dir.rules = { f.name : f \in { g \in Files : g.kind = "rules" /\ vendor.folds /\ Given(g) # Nobody } }
  BY <1>1 DEF RulesAre
<1> QED BY <1>1, <1>2, <1>3, <1>4 DEF DirIsTheHarness

\* At every step of a launch the directory has what has been copied, turned and
\* written so far, whatever it had before.
THEOREM DirInvariant == ExportSpec => [](WalkInv /\ DirInv)
<1>1. ASSUME WalkInv /\ DirInv, [ExportNext]_<<assemblyVars, exportVars>> PROVE DirInv'
  <2>1. CASE ExportNext
    BY <1>1, <2>1, DirKeeps
  <2>2. CASE UNCHANGED <<assemblyVars, exportVars>>
    BY <1>1, <2>2, DirRests DEF assemblyVars, exportVars, walkVars
  <2> QED BY <1>1, <2>1, <2>2
<1>2. ExportSpec => []WalkInv
  BY ExportInvariant, PTL
<1> QED BY <1>1, <1>2, DirBegins, PTL DEF ExportSpec

\* A directory that a launch has assembled is the harness as it is now, for any
\* sources, picks, delegates and tools, and whatever earlier launches left there.
THEOREM DirsAreTheHarness == ExportSpec => []DirIsTheHarness
BY DirInvariant, DirIsRight, PTL
=============================================================================

----------------------------- MODULE WorkerProofs -----------------------------
(* Theorems about Worker, for any timeouts with Term < Delay, any number of     *)
(* turns, and whatever the worker, its children and their pipes do: what Close  *)
(* leaves of a worker's group, how long it takes, and what is killed. And about *)
(* Telemetry, for any number of calls: what a run leaves of itself.             *)
EXTENDS Worker, Telemetry, TLAPS

\* Who has called cmd.Wait, and how far it is.
Reaping ==
  /\ leader = "reaped" <=> waiter \in {"pipes", "done"}
  /\ waiter = "exit" => leader \in {"up", "zombie"}
  /\ waiter \in {"exit", "pipes"} => pc = "wait" \/ pc \in Closing
  /\ pc = "wait" => waiter # "none" /\ leader # "up"
  /\ pc \in Closing => kind = "session" /\ waiter # "none"
  /\ pc = "next" => waiter = "none" /\ leader \in {"up", "zombie"}
  /\ pc \in {"idle", "ended"} /\ kind = "session" /\ waiter = "none" => leader \in {"up", "zombie"}
  /\ pc = "idle" /\ kind = "session" => waiter = "none"
  /\ pc = "idle" /\ kind = "perTurn" => leader \in {"none", "reaped"}
  /\ pc = "kill" => leader # "up" /\ child # "up"

\* How the timers go with each other, with what has passed, and with who set them.
Timing ==
  /\ pc \in {"grace", "term"} <=> timer["stage"] # None
  /\ pc = "grace" => elapsed + timer["stage"] = Grace
  /\ pc = "term" => /\ elapsed + timer["stage"] <= Grace + Term
                    /\ termed # None /\ termed + timer["stage"] >= Term
  /\ pc = "kill" => elapsed <= Grace + Term
  /\ timer["kill"] # None => cancelled /\ termed # None /\ termed + timer["kill"] >= Term
  /\ timer["delay"] # None <=> waiter = "pipes"
  /\ waiter = "pipes" => timer["delay"] <= Delay

\* What is left of an interrupted turn: until the group is killed, or until the pipes of
\* a process that had left already are given up.
Interrupted ==
  /\ cancelled /\ pc \in {"idle", "next"} /\ leader \in {"up", "zombie"} =>
       \/ timer["kill"] # None /\ elapsed + timer["kill"] = Term
       \/ leader = "zombie" /\ child # "up" /\ timer["kill"] = None /\ elapsed <= Term
  /\ cancelled /\ pc = "wait" =>
       \/ timer["kill"] # None /\ elapsed + timer["kill"] = Term
       \/ child # "up" /\ elapsed <= Term
       \/ timer["delay"] # None /\ elapsed + timer["delay"] <= Delay
       \/ waiter = "done" /\ elapsed <= Delay

\* Why the group was signalled.
Asked ==
  /\ signal = "kill" => termed # None /\ termed >= Term
  /\ signal # "none" => cancelled \/ (pc \notin {"idle", "next", "wait", "ended"} /\ (open \/ elapsed >= Grace))
  /\ pc = "term" => cancelled \/ open \/ elapsed >= Grace

WorkerInv == TypeOK /\ Reaping /\ Timing /\ Interrupted /\ Asked /\ CloseLeavesNobody

LEMMA Times ==
  /\ Grace \in Nat /\ Term \in Nat /\ Delay \in Nat /\ MaxTurns \in Nat
  /\ 0 < Grace /\ 0 < Term /\ Term < Delay /\ None \notin Int
BY WorkerAssumption

\* A worker that was not started has nothing to reap.
THEOREM WorkerBegins == Init => WorkerInv
<1> SUFFICES ASSUME Init PROVE WorkerInv
  OBVIOUS
<1>1. TypeOK
  <2>1. kind \in Kinds /\ elapsed \in 0..Bound /\ turns \in 0..MaxTurns
    BY Times DEF Init, Bound
  <2>2. timer \in [Timers -> Nat \union {None}] /\ timer["stage"] = None
    BY DEF Init, Timers
  <2> QED BY <2>1, <2>2 DEF Init, TypeOK
<1>2. Reaping /\ Interrupted /\ Asked /\ CloseLeavesNobody
  BY WorkerAssumption DEF Init, Reaping, Interrupted, Asked, CloseLeavesNobody, Closing
<1>3. Timing
  BY DEF Init, Timing, Timers
<1> QED BY <1>1, <1>2, <1>3 DEF WorkerInv

\* No step of the worker, its group, its reaper or ynr breaks the invariant (worker.go).
THEOREM WorkerSteps == WorkerInv /\ [Next]_vars => WorkerInv'
<1> SUFFICES ASSUME WorkerInv, [Next]_vars PROVE WorkerInv'
  OBVIOUS
<1> USE Times
<1>0. TypeOK /\ Reaping /\ Timing /\ Interrupted /\ Asked /\ CloseLeavesNobody
  BY DEF WorkerInv
<1>1. ASSUME SpawnChild PROVE WorkerInv'
  <2>1. TypeOK'
    BY <1>0, <1>1 DEF SpawnChild, TypeOK, Bound, Timers, Closing
  <2>2. Reaping'
    BY <1>0, <1>1 DEF SpawnChild, TypeOK, Reaping, Closing
  <2>3. Timing'
    BY <1>0, <1>1 DEF SpawnChild, TypeOK, Timing, Timers, Closing, Reaping, Asked, Bound
  <2>4. Interrupted'
    BY <1>0, <1>1 DEF SpawnChild, TypeOK, Interrupted, Timers, Closing, Reaping, Timing, Bound
  <2>5. Asked'
    BY <1>0, <1>1 DEF SpawnChild, TypeOK, Asked, Timers, Closing, Reaping, Timing, Bound
  <2>6. CloseLeavesNobody'
    BY <1>0, <1>1 DEF SpawnChild, TypeOK, CloseLeavesNobody, Closing, Reaping
  <2> QED BY <2>1, <2>2, <2>3, <2>4, <2>5, <2>6 DEF WorkerInv
<1>2. ASSUME LeaderExits PROVE WorkerInv'
  <2>1. TypeOK'
    BY <1>0, <1>2 DEF LeaderExits, TypeOK, Bound, Timers, Closing
  <2>2. Reaping'
    BY <1>0, <1>2 DEF LeaderExits, TypeOK, Reaping, Closing
  <2>3. Timing'
    BY <1>0, <1>2 DEF LeaderExits, TypeOK, Timing, Timers, Closing, Reaping, Asked, Bound
  <2>4. Interrupted'
    BY <1>0, <1>2 DEF LeaderExits, TypeOK, Interrupted, Timers, Closing, Reaping, Timing, Bound
  <2>5. Asked'
    BY <1>0, <1>2 DEF LeaderExits, TypeOK, Asked, Timers, Closing, Reaping, Timing, Bound
  <2>6. CloseLeavesNobody'
    BY <1>0, <1>2 DEF LeaderExits, TypeOK, CloseLeavesNobody, Closing, Reaping
  <2> QED BY <2>1, <2>2, <2>3, <2>4, <2>5, <2>6 DEF WorkerInv
<1>3. ASSUME ChildExits PROVE WorkerInv'
  <2>1. TypeOK'
    BY <1>0, <1>3 DEF ChildExits, TypeOK, Bound, Timers, Closing
  <2>2. Reaping'
    BY <1>0, <1>3 DEF ChildExits, TypeOK, Reaping, Closing
  <2>3. Timing'
    BY <1>0, <1>3 DEF ChildExits, TypeOK, Timing, Timers, Closing, Reaping, Asked, Bound
  <2>4. Interrupted'
    BY <1>0, <1>3 DEF ChildExits, TypeOK, Interrupted, Timers, Closing, Reaping, Timing, Bound
  <2>5. Asked'
    BY <1>0, <1>3 DEF ChildExits, TypeOK, Asked, Timers, Closing, Reaping, Timing, Bound
  <2>6. CloseLeavesNobody'
    BY <1>0, <1>3 DEF ChildExits, TypeOK, CloseLeavesNobody, Closing, Reaping
  <2> QED BY <2>1, <2>2, <2>3, <2>4, <2>5, <2>6 DEF WorkerInv
<1>4. ASSUME Send PROVE WorkerInv'
  <2>1. TypeOK'
    BY <1>0, <1>4 DEF Send, group, TypeOK, Bound, Timers, Closing
  <2>2. Reaping'
    BY <1>0, <1>4 DEF Send, group, TypeOK, Reaping, Closing
  <2>3. Timing'
    BY <1>0, <1>4 DEF Send, group, TypeOK, Timing, Timers, Closing, Reaping, Asked, Bound
  <2>4. Interrupted'
    BY <1>0, <1>4 DEF Send, group, TypeOK, Interrupted, Timers, Closing, Reaping, Timing, Bound
  <2>5. Asked'
    BY <1>0, <1>4 DEF Send, group, TypeOK, Asked, Timers, Closing, Reaping, Timing, Bound
  <2>6. CloseLeavesNobody'
    BY <1>0, <1>4 DEF Send, group, TypeOK, CloseLeavesNobody, Closing, Reaping
  <2> QED BY <2>1, <2>2, <2>3, <2>4, <2>5, <2>6 DEF WorkerInv
<1>5. ASSUME SendFails PROVE WorkerInv'
  <2>1. TypeOK'
    BY <1>0, <1>5 DEF SendFails, group, TypeOK, Bound, Timers, Closing, Reaping
  <2>2. Reaping'
    BY <1>0, <1>5 DEF SendFails, group, TypeOK, Reaping, Closing
  <2>3. Timing'
    BY <1>0, <1>5 DEF SendFails, group, TypeOK, Timing, Timers, Closing, Reaping, Asked, Bound
  <2>4. Interrupted'
    BY <1>0, <1>5 DEF SendFails, group, TypeOK, Interrupted, Timers, Closing, Reaping, Timing, Bound
  <2>5. Asked'
    BY <1>0, <1>5 DEF SendFails, group, TypeOK, Asked, Timers, Closing, Reaping, Timing, Bound
  <2>6. CloseLeavesNobody'
    BY <1>0, <1>5 DEF SendFails, group, TypeOK, CloseLeavesNobody, Closing, Reaping
  <2> QED BY <2>1, <2>2, <2>3, <2>4, <2>5, <2>6 DEF WorkerInv
<1>6. ASSUME StartTurn PROVE WorkerInv'
  <2>1. TypeOK'
    BY <1>0, <1>6 DEF StartTurn, Set, TypeOK, Bound, Timers, Closing
  <2>2. Reaping'
    BY <1>0, <1>6 DEF StartTurn, Set, TypeOK, Reaping, Closing
  <2>3. Timing'
    BY <1>0, <1>6 DEF StartTurn, Set, TypeOK, Timing, Timers, Closing, Reaping, Asked, Bound
  <2>4. Interrupted'
    BY <1>0, <1>6 DEF StartTurn, Set, TypeOK, Interrupted, Timers, Closing, Reaping, Timing, Bound
  <2>5. Asked'
    BY <1>0, <1>6 DEF StartTurn, Set, TypeOK, Asked, Timers, Closing, Reaping, Timing, Bound
  <2>6. CloseLeavesNobody'
    BY <1>0, <1>6 DEF StartTurn, Set, TypeOK, CloseLeavesNobody, Closing, Reaping
  <2> QED BY <2>1, <2>2, <2>3, <2>4, <2>5, <2>6 DEF WorkerInv
<1>7. ASSUME StartFails PROVE WorkerInv'
  <2>1. TypeOK'
    BY <1>0, <1>7 DEF StartFails, group, TypeOK, Bound, Timers, Closing
  <2>2. Reaping'
    BY <1>0, <1>7 DEF StartFails, group, TypeOK, Reaping, Closing
  <2>3. Timing'
    BY <1>0, <1>7 DEF StartFails, group, TypeOK, Timing, Timers, Closing, Reaping, Asked, Bound
  <2>4. Interrupted'
    BY <1>0, <1>7 DEF StartFails, group, TypeOK, Interrupted, Timers, Closing, Reaping, Timing, Bound
  <2>5. Asked'
    BY <1>0, <1>7 DEF StartFails, group, TypeOK, Asked, Timers, Closing, Reaping, Timing, Bound
  <2>6. CloseLeavesNobody'
    BY <1>0, <1>7 DEF StartFails, group, TypeOK, CloseLeavesNobody, Closing, Reaping
  <2> QED BY <2>1, <2>2, <2>3, <2>4, <2>5, <2>6 DEF WorkerInv
<1>8. ASSUME ReadResult PROVE WorkerInv'
  <2>1. TypeOK'
    BY <1>0, <1>8 DEF ReadResult, group, TypeOK, Bound, Timers, Closing
  <2>2. Reaping'
    BY <1>0, <1>8 DEF ReadResult, group, TypeOK, Reaping, Closing
  <2>3. Timing'
    BY <1>0, <1>8 DEF ReadResult, group, TypeOK, Timing, Timers, Closing, Reaping, Asked, Bound
  <2>4. Interrupted'
    BY <1>0, <1>8 DEF ReadResult, group, TypeOK, Interrupted, Timers, Closing, Reaping, Timing, Bound
  <2>5. Asked'
    BY <1>0, <1>8 DEF ReadResult, group, TypeOK, Asked, Timers, Closing, Reaping, Timing, Bound
  <2>6. CloseLeavesNobody'
    BY <1>0, <1>8 DEF ReadResult, group, TypeOK, CloseLeavesNobody, Closing, Reaping
  <2> QED BY <2>1, <2>2, <2>3, <2>4, <2>5, <2>6 DEF WorkerInv
<1>9. ASSUME ReadFails PROVE WorkerInv'
  <2>1. TypeOK'
    BY <1>0, <1>9 DEF ReadFails, TypeOK, Bound, Timers, Closing
  <2>2. Reaping'
    BY <1>0, <1>9 DEF ReadFails, TypeOK, Reaping, Closing
  <2>3. Timing'
    BY <1>0, <1>9 DEF ReadFails, TypeOK, Timing, Timers, Closing, Reaping, Asked, Bound
  <2>4. Interrupted'
    BY <1>0, <1>9 DEF ReadFails, TypeOK, Interrupted, Timers, Closing, Reaping, Timing, Bound
  <2>5. Asked'
    BY <1>0, <1>9 DEF ReadFails, TypeOK, Asked, Timers, Closing, Reaping, Timing, Bound
  <2>6. CloseLeavesNobody'
    BY <1>0, <1>9 DEF ReadFails, TypeOK, CloseLeavesNobody, Closing, Reaping
  <2> QED BY <2>1, <2>2, <2>3, <2>4, <2>5, <2>6 DEF WorkerInv
<1>10. ASSUME ReadEOF PROVE WorkerInv'
  <2>1. TypeOK'
    BY <1>0, <1>10 DEF ReadEOF, group, Holding, TypeOK, Bound, Timers, Closing, Reaping
  <2>2. Reaping'
    BY <1>0, <1>10 DEF ReadEOF, group, Holding, TypeOK, Reaping, Closing
  <2>3. Timing'
    BY <1>0, <1>10 DEF ReadEOF, group, Holding, TypeOK, Timing, Timers, Closing, Reaping, Asked, Bound
  <2>4. Interrupted'
    BY <1>0, <1>10 DEF ReadEOF, group, Holding, TypeOK, Interrupted, Timers, Closing, Reaping, Timing, Bound
  <2>5. Asked'
    BY <1>0, <1>10 DEF ReadEOF, group, Holding, TypeOK, Asked, Timers, Closing, Reaping, Timing, Bound
  <2>6. CloseLeavesNobody'
    BY <1>0, <1>10 DEF ReadEOF, group, Holding, TypeOK, CloseLeavesNobody, Closing, Reaping
  <2> QED BY <2>1, <2>2, <2>3, <2>4, <2>5, <2>6 DEF WorkerInv
<1>11. ASSUME Answered PROVE WorkerInv'
  <2>1. TypeOK'
    BY <1>0, <1>11 DEF Answered, group, TypeOK, Bound, Timers, Closing
  <2>2. Reaping'
    BY <1>0, <1>11 DEF Answered, group, TypeOK, Reaping, Closing
  <2>3. Timing'
    BY <1>0, <1>11 DEF Answered, group, TypeOK, Timing, Timers, Closing, Reaping, Asked, Bound
  <2>4. Interrupted'
    BY <1>0, <1>11 DEF Answered, group, TypeOK, Interrupted, Timers, Closing, Reaping, Timing, Bound
  <2>5. Asked'
    BY <1>0, <1>11 DEF Answered, group, TypeOK, Asked, Timers, Closing, Reaping, Timing, Bound
  <2>6. CloseLeavesNobody'
    BY <1>0, <1>11 DEF Answered, group, TypeOK, CloseLeavesNobody, Closing, Reaping
  <2> QED BY <2>1, <2>2, <2>3, <2>4, <2>5, <2>6 DEF WorkerInv
<1>12. ASSUME WaitSees PROVE WorkerInv'
  <2>1. TypeOK'
    BY <1>0, <1>12 DEF WaitSees, Set, TypeOK, Bound, Timers, Closing
  <2>2. Reaping'
    BY <1>0, <1>12 DEF WaitSees, Set, TypeOK, Reaping, Closing
  <2>3. Timing'
    BY <1>0, <1>12 DEF WaitSees, Set, TypeOK, Timing, Timers, Closing, Reaping, Asked, Bound
  <2>4. Interrupted'
    BY <1>0, <1>12 DEF WaitSees, Set, TypeOK, Interrupted, Timers, Closing, Reaping, Timing, Bound
  <2>5. Asked'
    BY <1>0, <1>12 DEF WaitSees, Set, TypeOK, Asked, Timers, Closing, Reaping, Timing, Bound
  <2>6. CloseLeavesNobody'
    BY <1>0, <1>12 DEF WaitSees, Set, TypeOK, CloseLeavesNobody, Closing, Reaping
  <2> QED BY <2>1, <2>2, <2>3, <2>4, <2>5, <2>6 DEF WorkerInv
<1>13. ASSUME WaitReturns PROVE WorkerInv'
  <2>1. TypeOK'
    BY <1>0, <1>13 DEF WaitReturns, Set, group, Drained, Holding, TypeOK, Bound, Timers, Closing
  <2>2. Reaping'
    BY <1>0, <1>13 DEF WaitReturns, Set, group, Drained, Holding, TypeOK, Reaping, Closing
  <2>3. Timing'
    BY <1>0, <1>13 DEF WaitReturns, Set, group, Drained, Holding, TypeOK, Timing, Timers, Closing, Reaping, Asked, Bound
  <2>4. Interrupted'
    BY <1>0, <1>13 DEF WaitReturns, Set, group, Drained, Holding, TypeOK, Interrupted, Timers, Closing, Reaping, Timing, Bound
  <2>5. Asked'
    BY <1>0, <1>13 DEF WaitReturns, Set, group, Drained, Holding, TypeOK, Asked, Timers, Closing, Reaping, Timing, Bound
  <2>6. CloseLeavesNobody'
    BY <1>0, <1>13 DEF WaitReturns, Set, group, Drained, Holding, TypeOK, CloseLeavesNobody, Closing, Reaping
  <2> QED BY <2>1, <2>2, <2>3, <2>4, <2>5, <2>6 DEF WorkerInv
<1>14. ASSUME Interrupt PROVE WorkerInv'
  <2>1. TypeOK'
    BY <1>0, <1>14 DEF Interrupt, Set, Running, SignalTerm, TypeOK, Bound, Timers, Closing
  <2>2. Reaping'
    BY <1>0, <1>14 DEF Interrupt, Set, Running, SignalTerm, TypeOK, Reaping, Closing
  <2>3. Timing'
    BY <1>0, <1>14 DEF Interrupt, Set, Running, SignalTerm, TypeOK, Timing, Timers, Closing, Reaping, Asked, Bound
  <2>4. Interrupted'
    <3>1. cancelled' /\ waiter' = waiter /\ leader' = leader /\ pc' = pc /\ timer'["delay"] = timer["delay"]
      BY <1>0, <1>14 DEF Interrupt, Set, SignalTerm, TypeOK, Timers
    <3>2. pc \in {"idle", "next", "wait"} => elapsed' = 0
      BY <1>14 DEF Interrupt, Closing
    <3>3. leader \in {"up", "zombie"} => timer'["kill"] = Term
      BY <1>0, <1>14 DEF Interrupt, Set, TypeOK, Timers
    <3>4. pc = "wait" /\ leader = "reaped" => waiter \in {"pipes", "done"}
      BY <1>0 DEF Reaping
    <3>5. pc = "wait" => leader \in {"zombie", "reaped"}
      BY <1>0 DEF Reaping, TypeOK
    <3> QED BY <1>0, <3>1, <3>2, <3>3, <3>4, <3>5 DEF Interrupted, Timing, Reaping, TypeOK, Timers
  <2>5. Asked'
    BY <1>0, <1>14 DEF Interrupt, Set, Running, SignalTerm, TypeOK, Asked, Timers, Closing, Reaping, Timing, Bound
  <2>6. CloseLeavesNobody'
    BY <1>0, <1>14 DEF Interrupt, Set, Running, SignalTerm, TypeOK, CloseLeavesNobody, Closing, Reaping
  <2> QED BY <2>1, <2>2, <2>3, <2>4, <2>5, <2>6 DEF WorkerInv
<1>15. ASSUME KillAfterTerm PROVE WorkerInv'
  <2>1. TypeOK'
    BY <1>0, <1>15 DEF KillAfterTerm, Set, SignalKill, TypeOK, Bound, Timers, Closing
  <2>2. Reaping'
    BY <1>0, <1>15 DEF KillAfterTerm, Set, SignalKill, TypeOK, Reaping, Closing
  <2>3. Timing'
    BY <1>0, <1>15 DEF KillAfterTerm, Set, SignalKill, TypeOK, Timing, Timers, Closing, Reaping, Asked, Bound
  <2>4. Interrupted'
    BY <1>0, <1>15 DEF KillAfterTerm, Set, SignalKill, TypeOK, Interrupted, Timers, Closing, Reaping, Timing, Bound
  <2>5. Asked'
    BY <1>0, <1>15 DEF KillAfterTerm, Set, SignalKill, TypeOK, Asked, Timers, Closing, Reaping, Timing, Bound
  <2>6. CloseLeavesNobody'
    BY <1>0, <1>15 DEF KillAfterTerm, Set, SignalKill, TypeOK, CloseLeavesNobody, Closing, Reaping
  <2> QED BY <2>1, <2>2, <2>3, <2>4, <2>5, <2>6 DEF WorkerInv
<1>16. ASSUME CloseReaped PROVE WorkerInv'
  <2>1. TypeOK'
    BY <1>0, <1>16 DEF CloseReaped, group, TypeOK, Bound, Timers, Closing
  <2>2. Reaping'
    BY <1>0, <1>16 DEF CloseReaped, group, TypeOK, Reaping, Closing
  <2>3. Timing'
    BY <1>0, <1>16 DEF CloseReaped, group, TypeOK, Timing, Timers, Closing, Reaping, Asked, Bound
  <2>4. Interrupted'
    BY <1>0, <1>16 DEF CloseReaped, group, TypeOK, Interrupted, Timers, Closing, Reaping, Timing, Bound
  <2>5. Asked'
    BY <1>0, <1>16 DEF CloseReaped, group, TypeOK, Asked, Timers, Closing, Reaping, Timing, Bound
  <2>6. CloseLeavesNobody'
    BY <1>0, <1>16 DEF CloseReaped, group, TypeOK, CloseLeavesNobody, Closing, Reaping
  <2> QED BY <2>1, <2>2, <2>3, <2>4, <2>5, <2>6 DEF WorkerInv
<1>17. ASSUME CloseGracefully PROVE WorkerInv'
  <2>1. TypeOK'
    BY <1>0, <1>17 DEF CloseGracefully, group, Set, TypeOK, Bound, Timers, Closing
  <2>2. Reaping'
    BY <1>0, <1>17 DEF CloseGracefully, group, Set, TypeOK, Reaping, Closing
  <2>3. Timing'
    BY <1>0, <1>17 DEF CloseGracefully, group, Set, TypeOK, Timing, Timers, Closing, Reaping, Asked, Bound
  <2>4. Interrupted'
    BY <1>0, <1>17 DEF CloseGracefully, group, Set, TypeOK, Interrupted, Timers, Closing, Reaping, Timing, Bound
  <2>5. Asked'
    BY <1>0, <1>17 DEF CloseGracefully, group, Set, TypeOK, Asked, Timers, Closing, Reaping, Timing, Bound
  <2>6. CloseLeavesNobody'
    BY <1>0, <1>17 DEF CloseGracefully, group, Set, TypeOK, CloseLeavesNobody, Closing, Reaping
  <2> QED BY <2>1, <2>2, <2>3, <2>4, <2>5, <2>6 DEF WorkerInv
<1>18. ASSUME CloseAtOnce PROVE WorkerInv'
  <2>1. TypeOK'
    BY <1>0, <1>18 DEF CloseAtOnce, Set, SignalTerm, TypeOK, Bound, Timers, Closing
  <2>2. Reaping'
    BY <1>0, <1>18 DEF CloseAtOnce, Set, SignalTerm, TypeOK, Reaping, Closing
  <2>3. Timing'
    BY <1>0, <1>18 DEF CloseAtOnce, Set, SignalTerm, TypeOK, Timing, Timers, Closing, Reaping, Asked, Bound
  <2>4. Interrupted'
    BY <1>0, <1>18 DEF CloseAtOnce, Set, SignalTerm, TypeOK, Interrupted, Timers, Closing, Reaping, Timing, Bound
  <2>5. Asked'
    BY <1>0, <1>18 DEF CloseAtOnce, Set, SignalTerm, TypeOK, Asked, Timers, Closing, Reaping, Timing, Bound
  <2>6. CloseLeavesNobody'
    BY <1>0, <1>18 DEF CloseAtOnce, Set, SignalTerm, TypeOK, CloseLeavesNobody, Closing, Reaping
  <2> QED BY <2>1, <2>2, <2>3, <2>4, <2>5, <2>6 DEF WorkerInv
<1>19. ASSUME GraceOver PROVE WorkerInv'
  <2>1. TypeOK'
    BY <1>0, <1>19 DEF GraceOver, Set, SignalTerm, TypeOK, Bound, Timers, Closing
  <2>2. Reaping'
    BY <1>0, <1>19 DEF GraceOver, Set, SignalTerm, TypeOK, Reaping, Closing
  <2>3. Timing'
    BY <1>0, <1>19 DEF GraceOver, Set, SignalTerm, TypeOK, Timing, Timers, Closing, Reaping, Asked, Bound
  <2>4. Interrupted'
    BY <1>0, <1>19 DEF GraceOver, Set, SignalTerm, TypeOK, Interrupted, Timers, Closing, Reaping, Timing, Bound
  <2>5. Asked'
    BY <1>0, <1>19 DEF GraceOver, Set, SignalTerm, TypeOK, Asked, Timers, Closing, Reaping, Timing, Bound
  <2>6. CloseLeavesNobody'
    BY <1>0, <1>19 DEF GraceOver, Set, SignalTerm, TypeOK, CloseLeavesNobody, Closing, Reaping
  <2> QED BY <2>1, <2>2, <2>3, <2>4, <2>5, <2>6 DEF WorkerInv
<1>20. ASSUME TermOver PROVE WorkerInv'
  <2>1. TypeOK'
    BY <1>0, <1>20 DEF TermOver, Set, SignalKill, TypeOK, Bound, Timers, Closing
  <2>2. Reaping'
    BY <1>0, <1>20 DEF TermOver, Set, SignalKill, TypeOK, Reaping, Closing
  <2>3. Timing'
    BY <1>0, <1>20 DEF TermOver, Set, SignalKill, TypeOK, Timing, Timers, Closing, Reaping, Asked, Bound
  <2>4. Interrupted'
    BY <1>0, <1>20 DEF TermOver, Set, SignalKill, TypeOK, Interrupted, Timers, Closing, Reaping, Timing, Bound
  <2>5. Asked'
    BY <1>0, <1>20 DEF TermOver, Set, SignalKill, TypeOK, Asked, Timers, Closing, Reaping, Timing, Bound
  <2>6. CloseLeavesNobody'
    BY <1>0, <1>20 DEF TermOver, Set, SignalKill, TypeOK, CloseLeavesNobody, Closing, Reaping
  <2> QED BY <2>1, <2>2, <2>3, <2>4, <2>5, <2>6 DEF WorkerInv
<1>21. ASSUME Reaped PROVE WorkerInv'
  <2>1. TypeOK'
    BY <1>0, <1>21 DEF Reaped, Set, SignalKill, TypeOK, Bound, Timers, Closing
  <2>2. Reaping'
    BY <1>0, <1>21 DEF Reaped, Set, SignalKill, TypeOK, Reaping, Closing
  <2>3. Timing'
    BY <1>0, <1>21 DEF Reaped, Set, SignalKill, TypeOK, Timing, Timers, Closing, Reaping, Asked, Bound
  <2>4. Interrupted'
    BY <1>0, <1>21 DEF Reaped, Set, SignalKill, TypeOK, Interrupted, Timers, Closing, Reaping, Timing, Bound
  <2>5. Asked'
    BY <1>0, <1>21 DEF Reaped, Set, SignalKill, TypeOK, Asked, Timers, Closing, Reaping, Timing, Bound
  <2>6. CloseLeavesNobody'
    BY <1>0, <1>21 DEF Reaped, Set, SignalKill, TypeOK, CloseLeavesNobody, Closing, Reaping
  <2> QED BY <2>1, <2>2, <2>3, <2>4, <2>5, <2>6 DEF WorkerInv
<1>22. ASSUME Exit PROVE WorkerInv'
  <2>1. TypeOK'
    BY <1>0, <1>22 DEF Exit, group, TypeOK, Bound, Timers, Closing
  <2>2. Reaping'
    BY <1>0, <1>22 DEF Exit, group, TypeOK, Reaping, Closing
  <2>3. Timing'
    BY <1>0, <1>22 DEF Exit, group, TypeOK, Timing, Timers, Closing, Reaping, Asked, Bound
  <2>4. Interrupted'
    BY <1>0, <1>22 DEF Exit, group, TypeOK, Interrupted, Timers, Closing, Reaping, Timing, Bound
  <2>5. Asked'
    BY <1>0, <1>22 DEF Exit, group, TypeOK, Asked, Timers, Closing, Reaping, Timing, Bound
  <2>6. CloseLeavesNobody'
    BY <1>0, <1>22 DEF Exit, group, TypeOK, CloseLeavesNobody, Closing, Reaping
  <2> QED BY <2>1, <2>2, <2>3, <2>4, <2>5, <2>6 DEF WorkerInv
<1>23. ASSUME Tick PROVE WorkerInv'
  <2>1. TypeOK'
    BY <1>0, <1>23 DEF Tick, Prompt, Later, group, Drained, Holding, TypeOK, Bound, Timers, Closing
  <2>2. Reaping'
    BY <1>0, <1>23 DEF Tick, Prompt, Later, group, Drained, Holding, TypeOK, Reaping, Closing
  <2>3. Timing'
    BY <1>0, <1>23 DEF Tick, Prompt, Later, group, Drained, Holding, TypeOK, Timing, Timers, Closing, Reaping, Asked, Bound
  <2>4. Interrupted'
    BY <1>0, <1>23 DEF Tick, Prompt, Later, group, Drained, Holding, TypeOK, Interrupted, Timers, Closing, Reaping, Timing, Bound
  <2>5. Asked'
    BY <1>0, <1>23 DEF Tick, Prompt, Later, group, Drained, Holding, TypeOK, Asked, Timers, Closing, Reaping, Timing, Bound
  <2>6. CloseLeavesNobody'
    BY <1>0, <1>23 DEF Tick, Prompt, Later, group, Drained, Holding, TypeOK, CloseLeavesNobody, Closing, Reaping
  <2> QED BY <2>1, <2>2, <2>3, <2>4, <2>5, <2>6 DEF WorkerInv
<1>24. ASSUME Over PROVE WorkerInv'
  <2>1. TypeOK'
    BY <1>0, <1>24 DEF Over, vars, TypeOK, Bound, Timers, Closing
  <2>2. Reaping'
    BY <1>0, <1>24 DEF Over, vars, TypeOK, Reaping, Closing
  <2>3. Timing'
    BY <1>0, <1>24 DEF Over, vars, TypeOK, Timing, Timers, Closing, Reaping, Asked, Bound
  <2>4. Interrupted'
    BY <1>0, <1>24 DEF Over, vars, TypeOK, Interrupted, Timers, Closing, Reaping, Timing, Bound
  <2>5. Asked'
    BY <1>0, <1>24 DEF Over, vars, TypeOK, Asked, Timers, Closing, Reaping, Timing, Bound
  <2>6. CloseLeavesNobody'
    BY <1>0, <1>24 DEF Over, vars, TypeOK, CloseLeavesNobody, Closing, Reaping
  <2> QED BY <2>1, <2>2, <2>3, <2>4, <2>5, <2>6 DEF WorkerInv
<1>25. ASSUME UNCHANGED vars PROVE WorkerInv'
  BY <1>0, <1>25 DEF vars, WorkerInv, TypeOK, Reaping, Timing, Interrupted, Asked, CloseLeavesNobody, Closing
<1> QED
  BY <1>1, <1>2, <1>3, <1>4, <1>5, <1>6, <1>7, <1>8, <1>9, <1>10, <1>11, <1>12, <1>13, <1>14, <1>15, <1>16, <1>17, <1>18, <1>19, <1>20, <1>21, <1>22, <1>23, <1>24, <1>25 DEF Next, Workers, Turns, Waits, Close

\* The invariant is one.
THEOREM WorkerInvariant == Spec => []WorkerInv
BY WorkerBegins, WorkerSteps, PTL DEF Spec

\* Every variable keeps to its type, and what is reaped was waited for.
THEOREM WorkerTyping == Spec => []TypeOK
<1>1. WorkerInv => TypeOK
  BY DEF WorkerInv
<1> QED BY <1>1, WorkerInvariant, PTL

\* A worker that Close itself reaped leaves nothing in its group (worker.go:371-402).
THEOREM NothingOutlivesClose == Spec => []CloseLeavesNobody
<1>1. WorkerInv => CloseLeavesNobody
  BY DEF WorkerInv
<1> QED BY <1>1, WorkerInvariant, PTL

\* Close and an interrupt are done in time, and nothing is killed that was not asked and
\* given its time, for any timeouts (worker.go:318-321, 371-402).
THEOREM StoppingTakesItsTime == Spec => []StopsOnTime
<1>1. WorkerInv => StopsOnTime
  <2> SUFFICES ASSUME WorkerInv PROVE StopsInTime /\ GraceIsGiven
    BY DEF StopsOnTime
  <2>0. TypeOK /\ Reaping /\ Timing /\ Interrupted /\ Asked
    BY DEF WorkerInv
  <2>1. pc \in Closing => elapsed <= Grace + Term
    BY <2>0, Times DEF TypeOK, Timing, Closing, Timers
  <2>2. cancelled /\ pc = "next" => elapsed <= Term
    BY <2>0, Times DEF TypeOK, Reaping, Interrupted, Timers
  <2>3. cancelled /\ pc = "wait" => elapsed <= Delay
    BY <2>0, Times DEF TypeOK, Interrupted, Timers
  <2>4. GraceIsGiven
    BY <2>0 DEF Asked, GraceIsGiven
  <2> QED BY <2>1, <2>2, <2>3, <2>4 DEF StopsInTime
<1> QED BY <1>1, WorkerInvariant, PTL

------------------------------------------------------------------------------
(* What the run records, and its relay *)

Flushes == {"flushing", "waiting"}
InLoop == {"loop", "ready", "unusable", "stop", "stopping", "stopped", "end"}
MainAt == {"setup", "begin", "reading", "opening", "calling", "finishing", "ended", "over", "killed"}
            \union Flushes \union InLoop
SearchAt == {"looking", "reading", "opening", "done"} \union Flushes

TelemetryTypes ==
  /\ at \in [Procs -> MainAt \union SearchAt] /\ at["main"] \in MainAt /\ at["search"] \in SearchAt
  /\ snap \in [Procs -> BOOLEAN]
  /\ folder \in BOOLEAN /\ active \in BOOLEAN /\ stopped \in BOOLEAN /\ known \in BOOLEAN
  /\ finished \in BOOLEAN /\ abandoned \in BOOLEAN /\ crossed \in BOOLEAN
  /\ dest \in {"none", "otlp", "spool"} /\ span \in Nat /\ spans \in Nat /\ waited \in Nat
  /\ calls \in 0..MaxCalls
  /\ once \in BOOLEAN /\ clean \in BOOLEAN /\ endpoint \in BOOLEAN /\ noted \in BOOLEAN
  /\ relay \in {"none", "up", "exited", "reaped"} /\ line \in {"none", "good", "bad"}

\* How far the run is, and what that says of the rest.
Stage ==
  /\ at["main"] = "setup" => ~active /\ at["search"] = "looking"
  /\ at["main"] \in {"setup", "begin"} => ~known /\ at["search"] \in {"looking", "done"}
  /\ at["main"] \notin {"setup", "begin", "killed"} => known
  /\ finished => at["main"] \in {"ended", "over", "killed"} \union Flushes
  /\ at["main"] \in Flushes => (finished <=> stopped)
  /\ at["main"] = "ended" => finished /\ ~stopped
  /\ at["main"] = "over" => finished /\ stopped
  /\ stopped => finished

\* Providers that are real stay so: who has seen them, or has a span of theirs, knows that.
OnceActive ==
  /\ \A p \in Procs : snap[p] => active
  /\ span # 0 => active
  /\ at["search"] # "looking" => active
  /\ dest = "none" => ~active
  /\ at["search"] = "opening" => snap["search"]

\* The start of the span in force is recorded, and is kept once nobody is at a flush, unless
\* one was given up.
StartIsSafe ==
  span # 0 /\ ~abandoned =>
    /\ <<"started", span>> \in pending \union kept
    /\ (at["main"] \notin Flushes \union {"killed"} /\ at["search"] \notin Flushes) => <<"started", span>> \in kept

RunRecords == IF finished THEN {<<"started", 1>>, <<"finished", 1>>, <<"span", 1>>} ELSE {<<"started", 1>>}

\* A run that telemetry did not begin in the middle of: it has one span, or none, and has
\* recorded what goes with it.
Straight ==
  /\ at["main"] \in {"reading", "opening", "calling", "finishing"} => at["search"] \notin {"reading", "opening"}
  /\ at["main"] \in {"opening", "calling", "finishing"} => snap["main"] = active
  /\ at["main"] \in {"setup", "begin", "reading", "opening"} => spans = 0
  /\ span = spans /\ spans <= 1 /\ handed \subseteq {1}
  /\ pending \union kept = (IF spans = 0 THEN {} ELSE RunRecords)
  /\ at["search"] \in {"reading", "opening"} => spans = 0
  /\ (at["main"] \in InLoop \union {"calling", "finishing"} \/ (at["main"] \in Flushes /\ ~stopped))
       /\ active /\ at["search"] \notin {"reading", "opening"} => spans = 1
  /\ at["main"] = "over" /\ ~abandoned => pending = {}

RecordInv == Stage /\ OnceActive /\ StartIsSafe /\ (~crossed => Straight)

\* A flush is waited for in vain once, and it is the last.
OneWait == waited <= 1 /\ (waited > 0 => abandoned /\ at["main"] # "waiting")

\* Who knows of the relay, and who has to be told of it.
RelayInv ==
  /\ endpoint => once /\ line = "good" /\ at["main"] \notin {"ready", "unusable"}
  /\ ~once => relay = "none"
  /\ at["main"] \in {"setup", "begin", "reading", "opening"} \/ (at["main"] \in Flushes /\ ~stopped) => ~once
  /\ at["main"] \in {"loop", "calling", "stop"} /\ ~endpoint => relay \in {"none", "reaped"}
  /\ at["main"] \in {"ready", "unusable"} => once
  /\ at["main"] \in {"stopping", "stopped"} => endpoint
  /\ at["main"] = "stopped" => noted
  /\ at["main"] \in {"end", "finishing", "ended", "over"} \/ (at["main"] \in Flushes /\ stopped) =>
       relay \in {"none", "reaped"} /\ (endpoint /\ ~noted => clean)

TelemetryInv == TelemetryTypes /\ RecordInv /\ OneWait /\ RelayInv


\* Where a process is once it has gone on.
LEMMA Goes ==
  ASSUME TelemetryTypes, NEW p \in Procs, NEW s \in MainAt \union SearchAt, Goto(p, s)
  PROVE  /\ at' \in [Procs -> MainAt \union SearchAt]
         /\ p = "main" => at'["main"] = s /\ at'["search"] = at["search"]
         /\ p = "search" => at'["search"] = s /\ at'["main"] = at["main"]
BY DEF TelemetryTypes, Goto, Procs

LEMMA MainMoves ==
  ASSUME TelemetryTypes, NEW from, NEW to \in MainAt, MainGoes(from, to)
  PROVE  /\ at["main"] = from /\ at'["main"] = to /\ at'["search"] = at["search"]
         /\ at' \in [Procs -> MainAt \union SearchAt]
BY Goes DEF MainGoes, Procs

\* What a process saw of the providers.
LEMMA Saw ==
  ASSUME TelemetryTypes, NEW p \in Procs, Snapshot(p)
  PROVE  /\ snap' \in [Procs -> BOOLEAN] /\ snap'[p] = active
         /\ \A q \in Procs : q # p => snap'[q] = snap[q]
         /\ crossed' = (crossed \/ (p = "main" /\ at["search"] \in {"reading", "opening"}))
BY DEF TelemetryTypes, Snapshot

\* Steps of the relay leave what the run records alone.
LEMMA RecordsStay ==
  ASSUME TelemetryInv, UNCHANGED <<recordVars, snap>>,
         \/ UNCHANGED at
         \/ /\ at["main"] \in InLoop /\ at'["main"] \in InLoop /\ at'["search"] = at["search"]
            /\ at' \in [Procs -> MainAt \union SearchAt]
  PROVE  RecordInv' /\ at' \in [Procs -> MainAt \union SearchAt] /\ at'["main"] \in MainAt /\ at'["search"] \in SearchAt
<1>0. TelemetryTypes /\ Stage /\ OnceActive /\ StartIsSafe /\ (~crossed => Straight)
  BY DEF TelemetryInv, RecordInv
<1>1. at' \in [Procs -> MainAt \union SearchAt] /\ at'["main"] \in MainAt /\ at'["search"] \in SearchAt
  BY <1>0 DEF TelemetryTypes, MainAt
<1>2. Stage'
  BY <1>0 DEF Stage, recordVars, InLoop, Flushes
<1>3. OnceActive'
  BY <1>0 DEF OnceActive, recordVars
<1>4. StartIsSafe'
  BY <1>0 DEF StartIsSafe, recordVars, InLoop, Flushes
<1>5. (~crossed => Straight)'
  BY <1>0 DEF Straight, RunRecords, recordVars, InLoop, Flushes
<1> QED BY <1>1, <1>2, <1>3, <1>4, <1>5 DEF RecordInv

\* It holds at the start.
THEOREM TelemetryBegins == TelemetryInit => TelemetryInv
<1> SUFFICES ASSUME TelemetryInit PROVE TelemetryInv
  OBVIOUS
<1>0. at \in [Procs -> MainAt \union SearchAt] /\ at["main"] = "setup" /\ at["search"] = "looking" /\ \A p \in Procs : ~snap[p]
  BY DEF TelemetryInit, Procs, MainAt, SearchAt
<1>1. TelemetryTypes
  <2>1. snap \in [Procs -> BOOLEAN] /\ calls \in 0..MaxCalls
    BY CallsAssumption DEF TelemetryInit, CallsAssumption
  <2>2. /\ folder \in BOOLEAN /\ active \in BOOLEAN /\ stopped \in BOOLEAN /\ known \in BOOLEAN
        /\ finished \in BOOLEAN /\ abandoned \in BOOLEAN /\ crossed \in BOOLEAN
        /\ once \in BOOLEAN /\ clean \in BOOLEAN /\ endpoint \in BOOLEAN /\ noted \in BOOLEAN
    BY Zenon DEF TelemetryInit
  <2> QED BY <1>0, <2>1, <2>2 DEF TelemetryInit, TelemetryTypes, MainAt, SearchAt
<1>2. Stage /\ OnceActive /\ StartIsSafe
  BY <1>0 DEF TelemetryInit, Stage, OnceActive, StartIsSafe, Flushes
<1>3. Straight
  BY <1>0 DEF TelemetryInit, Straight, InLoop, Flushes, RunRecords
<1>4. OneWait /\ RelayInv
  BY <1>0 DEF TelemetryInit, OneWait, RelayInv, InLoop, Flushes
<1> QED BY <1>1, <1>2, <1>3, <1>4 DEF TelemetryInv, RecordInv

\* Every step keeps it.
THEOREM TelemetrySteps == TelemetryInv /\ [TelemetryNext]_telemetryVars => TelemetryInv'
<1> SUFFICES ASSUME TelemetryInv, [TelemetryNext]_telemetryVars PROVE TelemetryInv'
  OBVIOUS
<1> USE DEF Flushes, InLoop
<1>0. /\ TelemetryTypes /\ Stage /\ OnceActive /\ StartIsSafe /\ (~crossed => Straight) /\ OneWait /\ RelayInv
      /\ "main" \in Procs /\ "search" \in Procs
  BY DEF TelemetryInv, RecordInv, Procs
<1>1. ASSUME Setup PROVE TelemetryInv'
  <2>0. at["main"] = "setup" /\ at'["main"] = "begin" /\ at'["search"] = at["search"] /\ at' \in [Procs -> MainAt \union SearchAt]
    BY <1>0, <1>1, MainMoves DEF Setup, MainAt
  <2>1. TelemetryTypes'
    BY <1>0, <1>1, <2>0 DEF Setup, recordVars, relayVars, TelemetryTypes, MainAt, SearchAt
  <2>2. Stage'
    BY <1>0, <1>1, <2>0 DEF Setup, recordVars, relayVars, TelemetryTypes, Stage, MainAt, SearchAt, Alive
  <2>3. OnceActive'
    BY <1>0, <1>1, <2>0 DEF Setup, recordVars, relayVars, TelemetryTypes, OnceActive, Stage, Procs
  <2>4. StartIsSafe'
    BY <1>0, <1>1, <2>0 DEF Setup, recordVars, relayVars, TelemetryTypes, StartIsSafe, OnceActive, Stage, Keep, Alive
  <2>5. (~crossed => Straight)'
    BY <1>0, <1>1, <2>0 DEF Setup, recordVars, relayVars, TelemetryTypes, Straight, OnceActive, Stage, RunRecords, Keep, Alive
  <2>6. OneWait'
    BY <1>0, <1>1, <2>0 DEF Setup, recordVars, relayVars, TelemetryTypes, OneWait
  <2>7. RelayInv'
    BY <1>0, <1>1, <2>0 DEF Setup, recordVars, relayVars, TelemetryTypes, RelayInv, Stage, Alive
  <2> QED BY <2>1, <2>2, <2>3, <2>4, <2>5, <2>6, <2>7 DEF TelemetryInv, RecordInv
<1>2. ASSUME FolderAppears PROVE TelemetryInv'
  <2>0. UNCHANGED at
    BY <1>0, <1>2, SMT DEF FolderAppears
  <2>1. TelemetryTypes'
    BY <1>0, <1>2, <2>0 DEF FolderAppears, recordVars, relayVars, TelemetryTypes, MainAt, SearchAt
  <2>2. Stage'
    BY <1>0, <1>2, <2>0 DEF FolderAppears, recordVars, relayVars, TelemetryTypes, Stage, MainAt, SearchAt, Alive
  <2>3. OnceActive'
    BY <1>0, <1>2, <2>0 DEF FolderAppears, recordVars, relayVars, TelemetryTypes, OnceActive, Stage, Procs
  <2>4. StartIsSafe'
    BY <1>0, <1>2, <2>0 DEF FolderAppears, recordVars, relayVars, TelemetryTypes, StartIsSafe, OnceActive, Stage, Keep, Alive
  <2>5. (~crossed => Straight)'
    BY <1>0, <1>2, <2>0 DEF FolderAppears, recordVars, relayVars, TelemetryTypes, Straight, OnceActive, Stage, RunRecords, Keep, Alive
  <2>6. OneWait'
    BY <1>0, <1>2, <2>0 DEF FolderAppears, recordVars, relayVars, TelemetryTypes, OneWait
  <2>7. RelayInv'
    BY <1>0, <1>2, <2>0 DEF FolderAppears, recordVars, relayVars, TelemetryTypes, RelayInv, Stage, Alive
  <2> QED BY <2>1, <2>2, <2>3, <2>4, <2>5, <2>6, <2>7 DEF TelemetryInv, RecordInv
<1>3. ASSUME Swap PROVE TelemetryInv'
  <2>0. at'["main"] = at["main"] /\ at'["search"] = (IF known THEN "reading" ELSE "done") /\ at' \in [Procs -> MainAt \union SearchAt]
    BY <1>0, <1>3, Goes DEF Swap, SearchAt
  <2>1. TelemetryTypes'
    BY <1>0, <1>3, <2>0 DEF Swap, recordVars, relayVars, TelemetryTypes, MainAt, SearchAt
  <2>2. Stage'
    BY <1>0, <1>3, <2>0 DEF Swap, recordVars, relayVars, TelemetryTypes, Stage, MainAt, SearchAt, Alive
  <2>3. OnceActive'
    BY <1>0, <1>3, <2>0 DEF Swap, recordVars, relayVars, TelemetryTypes, OnceActive, Stage, Procs
  <2>4. StartIsSafe'
    BY <1>0, <1>3, <2>0 DEF Swap, recordVars, relayVars, TelemetryTypes, StartIsSafe, OnceActive, Stage, Keep, Alive
  <2>5. (~crossed => Straight)'
    BY <1>0, <1>3, <2>0 DEF Swap, recordVars, relayVars, TelemetryTypes, Straight, OnceActive, Stage, RunRecords, Keep, Alive
  <2>6. OneWait'
    BY <1>0, <1>3, <2>0 DEF Swap, recordVars, relayVars, TelemetryTypes, OneWait
  <2>7. RelayInv'
    BY <1>0, <1>3, <2>0 DEF Swap, recordVars, relayVars, TelemetryTypes, RelayInv, Stage, Alive
  <2> QED BY <2>1, <2>2, <2>3, <2>4, <2>5, <2>6, <2>7 DEF TelemetryInv, RecordInv
<1>4. ASSUME StartRun PROVE TelemetryInv'
  <2>0. at["main"] = "begin" /\ at'["main"] = "reading" /\ at'["search"] = at["search"] /\ at' \in [Procs -> MainAt \union SearchAt]
    BY <1>0, <1>4, MainMoves DEF StartRun, MainAt
  <2>1. TelemetryTypes'
    BY <1>0, <1>4, <2>0 DEF StartRun, recordVars, relayVars, TelemetryTypes, MainAt, SearchAt
  <2>2. Stage'
    BY <1>0, <1>4, <2>0 DEF StartRun, recordVars, relayVars, TelemetryTypes, Stage, MainAt, SearchAt, Alive
  <2>3. OnceActive'
    BY <1>0, <1>4, <2>0 DEF StartRun, recordVars, relayVars, TelemetryTypes, OnceActive, Stage, Procs
  <2>4. StartIsSafe'
    BY <1>0, <1>4, <2>0 DEF StartRun, recordVars, relayVars, TelemetryTypes, StartIsSafe, OnceActive, Stage, Keep, Alive
  <2>5. (~crossed => Straight)'
    BY <1>0, <1>4, <2>0 DEF StartRun, recordVars, relayVars, TelemetryTypes, Straight, OnceActive, Stage, RunRecords, Keep, Alive
  <2>6. OneWait'
    BY <1>0, <1>4, <2>0 DEF StartRun, recordVars, relayVars, TelemetryTypes, OneWait
  <2>7. RelayInv'
    BY <1>0, <1>4, <2>0 DEF StartRun, recordVars, relayVars, TelemetryTypes, RelayInv, Stage, Alive
  <2> QED BY <2>1, <2>2, <2>3, <2>4, <2>5, <2>6, <2>7 DEF TelemetryInv, RecordInv
<1>5. ASSUME Read("main") PROVE TelemetryInv'
  <2>0. at["main"] = "reading" /\ at'["main"] = "opening" /\ at'["search"] = at["search"] /\ at' \in [Procs -> MainAt \union SearchAt]
        /\ snap' \in [Procs -> BOOLEAN] /\ snap'["main"] = active /\ snap'["search"] = snap["search"] /\ crossed' = (crossed \/ at["search"] \in {"reading", "opening"})
    BY <1>0, <1>5, Goes, Saw DEF Read, MainAt, Procs
  <2>1. TelemetryTypes'
    BY <1>0, <1>5, <2>0 DEF Read, recordVars, relayVars, TelemetryTypes, MainAt, SearchAt
  <2>2. Stage'
    BY <1>0, <1>5, <2>0 DEF Read, recordVars, relayVars, TelemetryTypes, Stage, MainAt, SearchAt, Alive
  <2>3. OnceActive'
    BY <1>0, <1>5, <2>0 DEF Read, recordVars, relayVars, TelemetryTypes, OnceActive, Stage, Procs
  <2>4. StartIsSafe'
    BY <1>0, <1>5, <2>0 DEF Read, recordVars, relayVars, TelemetryTypes, StartIsSafe, OnceActive, Stage, Keep, Alive
  <2>5. (~crossed => Straight)'
    BY <1>0, <1>5, <2>0 DEF Read, recordVars, relayVars, TelemetryTypes, Straight, OnceActive, Stage, RunRecords, Keep, Alive
  <2>6. OneWait'
    BY <1>0, <1>5, <2>0 DEF Read, recordVars, relayVars, TelemetryTypes, OneWait
  <2>7. RelayInv'
    BY <1>0, <1>5, <2>0 DEF Read, recordVars, relayVars, TelemetryTypes, RelayInv, Stage, Alive
  <2> QED BY <2>1, <2>2, <2>3, <2>4, <2>5, <2>6, <2>7 DEF TelemetryInv, RecordInv
<1>6. ASSUME Read("search") PROVE TelemetryInv'
  <2>0. at["search"] = "reading" /\ at'["search"] = "opening" /\ at'["main"] = at["main"] /\ at' \in [Procs -> MainAt \union SearchAt]
        /\ snap' \in [Procs -> BOOLEAN] /\ snap'["search"] = active /\ snap'["main"] = snap["main"] /\ crossed' = (crossed \/ FALSE)
    BY <1>0, <1>6, Goes, Saw DEF Read, SearchAt, Procs
  <2>1. TelemetryTypes'
    BY <1>0, <1>6, <2>0 DEF Read, recordVars, relayVars, TelemetryTypes, MainAt, SearchAt
  <2>2. Stage'
    BY <1>0, <1>6, <2>0 DEF Read, recordVars, relayVars, TelemetryTypes, Stage, MainAt, SearchAt, Alive
  <2>3. OnceActive'
    BY <1>0, <1>6, <2>0 DEF Read, recordVars, relayVars, TelemetryTypes, OnceActive, Stage, Procs
  <2>4. StartIsSafe'
    BY <1>0, <1>6, <2>0 DEF Read, recordVars, relayVars, TelemetryTypes, StartIsSafe, OnceActive, Stage, Keep, Alive
  <2>5. (~crossed => Straight)'
    BY <1>0, <1>6, <2>0 DEF Read, recordVars, relayVars, TelemetryTypes, Straight, OnceActive, Stage, RunRecords, Keep, Alive
  <2>6. OneWait'
    BY <1>0, <1>6, <2>0 DEF Read, recordVars, relayVars, TelemetryTypes, OneWait
  <2>7. RelayInv'
    BY <1>0, <1>6, <2>0 DEF Read, recordVars, relayVars, TelemetryTypes, RelayInv, Stage, Alive
  <2> QED BY <2>1, <2>2, <2>3, <2>4, <2>5, <2>6, <2>7 DEF TelemetryInv, RecordInv
<1>7. ASSUME OpenSpan("main") PROVE TelemetryInv'
  <2>0. at["main"] = "opening" /\ at'["main"] = "flushing" /\ at'["search"] = at["search"] /\ at' \in [Procs -> MainAt \union SearchAt]
    BY <1>0, <1>7, Goes DEF OpenSpan, MainAt, SearchAt, Stage
  <2>1. TelemetryTypes'
    BY <1>0, <1>7, <2>0 DEF OpenSpan, Opened, recordVars, relayVars, TelemetryTypes, MainAt, SearchAt
  <2>2. Stage'
    BY <1>0, <1>7, <2>0 DEF OpenSpan, Opened, recordVars, relayVars, TelemetryTypes, Stage, MainAt, SearchAt, Alive
  <2>3. OnceActive'
    BY <1>0, <1>7, <2>0 DEF OpenSpan, Opened, recordVars, relayVars, TelemetryTypes, OnceActive, Stage, Procs
  <2>4. StartIsSafe'
    BY <1>0, <1>7, <2>0 DEF OpenSpan, Opened, recordVars, relayVars, TelemetryTypes, StartIsSafe, OnceActive, Stage, Keep, Alive
  <2>5. (~crossed => Straight)'
    BY <1>0, <1>7, <2>0 DEF OpenSpan, Opened, recordVars, relayVars, TelemetryTypes, Straight, OnceActive, Stage, RunRecords, Keep, Alive
  <2>6. OneWait'
    BY <1>0, <1>7, <2>0 DEF OpenSpan, Opened, recordVars, relayVars, TelemetryTypes, OneWait
  <2>7. RelayInv'
    BY <1>0, <1>7, <2>0 DEF OpenSpan, Opened, recordVars, relayVars, TelemetryTypes, RelayInv, Stage, Alive
  <2> QED BY <2>1, <2>2, <2>3, <2>4, <2>5, <2>6, <2>7 DEF TelemetryInv, RecordInv
<1>8. ASSUME OpenSpan("search") PROVE TelemetryInv'
  <2>0. at["search"] = "opening" /\ at'["search"] = (IF finished THEN "done" ELSE "flushing") /\ at'["main"] = at["main"] /\ at' \in [Procs -> MainAt \union SearchAt]
    BY <1>0, <1>8, Goes DEF OpenSpan, MainAt, SearchAt, Stage
  <2>1. TelemetryTypes'
    BY <1>0, <1>8, <2>0 DEF OpenSpan, Opened, recordVars, relayVars, TelemetryTypes, MainAt, SearchAt
  <2>2. Stage'
    BY <1>0, <1>8, <2>0 DEF OpenSpan, Opened, recordVars, relayVars, TelemetryTypes, Stage, MainAt, SearchAt, Alive
  <2>3. OnceActive'
    BY <1>0, <1>8, <2>0 DEF OpenSpan, Opened, recordVars, relayVars, TelemetryTypes, OnceActive, Stage, Procs
  <2>4. StartIsSafe'
    BY <1>0, <1>8, <2>0 DEF OpenSpan, Opened, recordVars, relayVars, TelemetryTypes, StartIsSafe, OnceActive, Stage, Keep, Alive
  <2>5. (~crossed => Straight)'
    <3> SUFFICES ASSUME ~crossed PROVE Straight'
      BY <1>8 DEF OpenSpan
    <3>1. Straight /\ spans = 0 /\ pending = {} /\ kept = {} /\ snap["search"] /\ active
      BY <1>0, <2>0 DEF Straight, OnceActive
    <3>2. CASE finished
      <4>1. UNCHANGED <<folder, active, stopped, finished, span, spans, pending, kept, abandoned, handed, snap>>
        BY <1>8, <3>2 DEF OpenSpan
      <4>2. at["main"] \in {"ended", "over", "killed"} \/ (at["main"] \in Flushes /\ stopped)
        BY <1>0, <3>2 DEF Stage
      <4> QED BY <2>0, <3>1, <3>2, <4>1, <4>2 DEF Straight
    <3>3. CASE ~finished
      <4>1. /\ spans' = 1 /\ span' = 1 /\ pending' = {<<"started", 1>>} /\ kept' = {}
            /\ UNCHANGED <<active, stopped, finished, abandoned, handed, snap>>
        BY <1>8, <3>1, <3>3 DEF OpenSpan, Opened
      <4>2. /\ at["main"] \notin {"setup", "begin", "reading", "opening", "calling", "finishing", "over"}
        BY <1>8, <1>0, <2>0, <3>1, <3>3 DEF Stage, Straight
      <4>3. pending' \union kept' = {<<"started", 1>>}
        BY <4>1
      <4>4. (pending \union kept = (IF spans = 0 THEN {} ELSE RunRecords))'
        BY <3>3, <4>1, <4>3 DEF RunRecords
      <4>5. at'["main"] = at["main"] /\ at'["search"] = "flushing"
        BY <2>0, <3>3
      <4>6. handed' \subseteq {1} /\ span' = spans' /\ spans' <= 1
        BY <3>1, <4>1 DEF Straight
      <4>7. at'["main"] \notin {"setup", "begin", "reading", "opening", "calling", "finishing", "over"} /\ spans' = 1
        BY <4>1, <4>2, <4>5
      <4> QED BY <4>4, <4>5, <4>6, <4>7 DEF Straight
    <3> QED BY <3>2, <3>3
  <2>6. OneWait'
    BY <1>0, <1>8, <2>0 DEF OpenSpan, Opened, recordVars, relayVars, TelemetryTypes, OneWait
  <2>7. RelayInv'
    BY <1>0, <1>8, <2>0 DEF OpenSpan, Opened, recordVars, relayVars, TelemetryTypes, RelayInv, Stage, Alive
  <2> QED BY <2>1, <2>2, <2>3, <2>4, <2>5, <2>6, <2>7 DEF TelemetryInv, RecordInv
<1>9. ASSUME FlushSkipped("main") PROVE TelemetryInv'
  <2>0. at["main"] = "flushing" /\ at'["main"] = (IF stopped THEN "over" ELSE "loop") /\ at'["search"] = at["search"] /\ at' \in [Procs -> MainAt \union SearchAt]
    BY <1>0, <1>9, Goes DEF FlushSkipped, After, MainAt, SearchAt
  <2>1. TelemetryTypes'
    BY <1>0, <1>9, <2>0 DEF FlushSkipped, recordVars, relayVars, TelemetryTypes, MainAt, SearchAt
  <2>2. Stage'
    BY <1>0, <1>9, <2>0 DEF FlushSkipped, recordVars, relayVars, TelemetryTypes, Stage, MainAt, SearchAt, Alive
  <2>3. OnceActive'
    BY <1>0, <1>9, <2>0 DEF FlushSkipped, recordVars, relayVars, TelemetryTypes, OnceActive, Stage, Procs
  <2>4. StartIsSafe'
    BY <1>0, <1>9, <2>0 DEF FlushSkipped, recordVars, relayVars, TelemetryTypes, StartIsSafe, OnceActive, Stage, Keep, Alive
  <2>5. (~crossed => Straight)'
    BY <1>0, <1>9, <2>0 DEF FlushSkipped, recordVars, relayVars, TelemetryTypes, Straight, OnceActive, Stage, RunRecords, Keep, Alive
  <2>6. OneWait'
    BY <1>0, <1>9, <2>0 DEF FlushSkipped, recordVars, relayVars, TelemetryTypes, OneWait
  <2>7. RelayInv'
    BY <1>0, <1>9, <2>0 DEF FlushSkipped, recordVars, relayVars, TelemetryTypes, RelayInv, Stage, Alive
  <2> QED BY <2>1, <2>2, <2>3, <2>4, <2>5, <2>6, <2>7 DEF TelemetryInv, RecordInv
<1>10. ASSUME Flushed("main") PROVE TelemetryInv'
  <2>0. at["main"] = "waiting" /\ at'["main"] = (IF stopped THEN "over" ELSE "loop") /\ at'["search"] = at["search"] /\ at' \in [Procs -> MainAt \union SearchAt]
    BY <1>0, <1>10, Goes DEF Flushed, After, MainAt, SearchAt
  <2>1. TelemetryTypes'
    BY <1>0, <1>10, <2>0 DEF Flushed, Keep, recordVars, relayVars, TelemetryTypes, MainAt, SearchAt
  <2>2. Stage'
    BY <1>0, <1>10, <2>0 DEF Flushed, Keep, recordVars, relayVars, TelemetryTypes, Stage, MainAt, SearchAt, Alive
  <2>3. OnceActive'
    BY <1>0, <1>10, <2>0 DEF Flushed, Keep, recordVars, relayVars, TelemetryTypes, OnceActive, Stage, Procs
  <2>4. StartIsSafe'
    BY <1>0, <1>10, <2>0 DEF Flushed, Keep, recordVars, relayVars, TelemetryTypes, StartIsSafe, OnceActive, Stage, Keep, Alive
  <2>5. (~crossed => Straight)'
    BY <1>0, <1>10, <2>0 DEF Flushed, Keep, recordVars, relayVars, TelemetryTypes, Straight, OnceActive, Stage, RunRecords, Keep, Alive
  <2>6. OneWait'
    BY <1>0, <1>10, <2>0 DEF Flushed, Keep, recordVars, relayVars, TelemetryTypes, OneWait
  <2>7. RelayInv'
    BY <1>0, <1>10, <2>0 DEF Flushed, Keep, recordVars, relayVars, TelemetryTypes, RelayInv, Stage, Alive
  <2> QED BY <2>1, <2>2, <2>3, <2>4, <2>5, <2>6, <2>7 DEF TelemetryInv, RecordInv
<1>11. ASSUME FlushTimesOut("main") PROVE TelemetryInv'
  <2>0. at["main"] = "waiting" /\ at'["main"] = (IF stopped THEN "over" ELSE "loop") /\ at'["search"] = at["search"] /\ at' \in [Procs -> MainAt \union SearchAt]
    BY <1>0, <1>11, Goes DEF FlushTimesOut, After, MainAt, SearchAt
  <2>1. TelemetryTypes'
    BY <1>0, <1>11, <2>0 DEF FlushTimesOut, Abandon, recordVars, relayVars, TelemetryTypes, MainAt, SearchAt
  <2>2. Stage'
    BY <1>0, <1>11, <2>0 DEF FlushTimesOut, Abandon, recordVars, relayVars, TelemetryTypes, Stage, MainAt, SearchAt, Alive
  <2>3. OnceActive'
    BY <1>0, <1>11, <2>0 DEF FlushTimesOut, Abandon, recordVars, relayVars, TelemetryTypes, OnceActive, Stage, Procs
  <2>4. StartIsSafe'
    BY <1>0, <1>11, <2>0 DEF FlushTimesOut, Abandon, recordVars, relayVars, TelemetryTypes, StartIsSafe, OnceActive, Stage, Keep, Alive
  <2>5. (~crossed => Straight)'
    BY <1>0, <1>11, <2>0 DEF FlushTimesOut, Abandon, recordVars, relayVars, TelemetryTypes, Straight, OnceActive, Stage, RunRecords, Keep, Alive
  <2>6. OneWait'
    BY <1>0, <1>11, <2>0 DEF FlushTimesOut, Abandon, recordVars, relayVars, TelemetryTypes, OneWait
  <2>7. RelayInv'
    BY <1>0, <1>11, <2>0 DEF FlushTimesOut, Abandon, recordVars, relayVars, TelemetryTypes, RelayInv, Stage, Alive
  <2> QED BY <2>1, <2>2, <2>3, <2>4, <2>5, <2>6, <2>7 DEF TelemetryInv, RecordInv
<1>12. ASSUME FlushBegins("main") PROVE TelemetryInv'
  <2>0. at["main"] = "flushing" /\ at'["main"] = "waiting" /\ at'["search"] = at["search"] /\ at' \in [Procs -> MainAt \union SearchAt]
    BY <1>0, <1>12, Goes DEF FlushBegins, MainAt, SearchAt
  <2>1. TelemetryTypes'
    BY <1>0, <1>12, <2>0 DEF FlushBegins, recordVars, relayVars, TelemetryTypes, MainAt, SearchAt
  <2>2. Stage'
    BY <1>0, <1>12, <2>0 DEF FlushBegins, recordVars, relayVars, TelemetryTypes, Stage, MainAt, SearchAt, Alive
  <2>3. OnceActive'
    BY <1>0, <1>12, <2>0 DEF FlushBegins, recordVars, relayVars, TelemetryTypes, OnceActive, Stage, Procs
  <2>4. StartIsSafe'
    BY <1>0, <1>12, <2>0 DEF FlushBegins, recordVars, relayVars, TelemetryTypes, StartIsSafe, OnceActive, Stage, Keep, Alive
  <2>5. (~crossed => Straight)'
    BY <1>0, <1>12, <2>0 DEF FlushBegins, recordVars, relayVars, TelemetryTypes, Straight, OnceActive, Stage, RunRecords, Keep, Alive
  <2>6. OneWait'
    BY <1>0, <1>12, <2>0 DEF FlushBegins, recordVars, relayVars, TelemetryTypes, OneWait
  <2>7. RelayInv'
    BY <1>0, <1>12, <2>0 DEF FlushBegins, recordVars, relayVars, TelemetryTypes, RelayInv, Stage, Alive
  <2> QED BY <2>1, <2>2, <2>3, <2>4, <2>5, <2>6, <2>7 DEF TelemetryInv, RecordInv
<1>13. ASSUME FlushSkipped("search") PROVE TelemetryInv'
  <2>0. at["search"] = "flushing" /\ at'["search"] = "done" /\ at'["main"] = at["main"] /\ at' \in [Procs -> MainAt \union SearchAt]
    BY <1>0, <1>13, Goes DEF FlushSkipped, After, MainAt, SearchAt
  <2>1. TelemetryTypes'
    BY <1>0, <1>13, <2>0 DEF FlushSkipped, recordVars, relayVars, TelemetryTypes, MainAt, SearchAt
  <2>2. Stage'
    BY <1>0, <1>13, <2>0 DEF FlushSkipped, recordVars, relayVars, TelemetryTypes, Stage, MainAt, SearchAt, Alive
  <2>3. OnceActive'
    BY <1>0, <1>13, <2>0 DEF FlushSkipped, recordVars, relayVars, TelemetryTypes, OnceActive, Stage, Procs
  <2>4. StartIsSafe'
    BY <1>0, <1>13, <2>0 DEF FlushSkipped, recordVars, relayVars, TelemetryTypes, StartIsSafe, OnceActive, Stage, Keep, Alive
  <2>5. (~crossed => Straight)'
    BY <1>0, <1>13, <2>0 DEF FlushSkipped, recordVars, relayVars, TelemetryTypes, Straight, OnceActive, Stage, RunRecords, Keep, Alive
  <2>6. OneWait'
    BY <1>0, <1>13, <2>0 DEF FlushSkipped, recordVars, relayVars, TelemetryTypes, OneWait
  <2>7. RelayInv'
    BY <1>0, <1>13, <2>0 DEF FlushSkipped, recordVars, relayVars, TelemetryTypes, RelayInv, Stage, Alive
  <2> QED BY <2>1, <2>2, <2>3, <2>4, <2>5, <2>6, <2>7 DEF TelemetryInv, RecordInv
<1>14. ASSUME Flushed("search") PROVE TelemetryInv'
  <2>0. at["search"] = "waiting" /\ at'["search"] = "done" /\ at'["main"] = at["main"] /\ at' \in [Procs -> MainAt \union SearchAt]
    BY <1>0, <1>14, Goes DEF Flushed, After, MainAt, SearchAt
  <2>1. TelemetryTypes'
    BY <1>0, <1>14, <2>0 DEF Flushed, Keep, recordVars, relayVars, TelemetryTypes, MainAt, SearchAt
  <2>2. Stage'
    BY <1>0, <1>14, <2>0 DEF Flushed, Keep, recordVars, relayVars, TelemetryTypes, Stage, MainAt, SearchAt, Alive
  <2>3. OnceActive'
    BY <1>0, <1>14, <2>0 DEF Flushed, Keep, recordVars, relayVars, TelemetryTypes, OnceActive, Stage, Procs
  <2>4. StartIsSafe'
    BY <1>0, <1>14, <2>0 DEF Flushed, Keep, recordVars, relayVars, TelemetryTypes, StartIsSafe, OnceActive, Stage, Keep, Alive
  <2>5. (~crossed => Straight)'
    BY <1>0, <1>14, <2>0 DEF Flushed, Keep, recordVars, relayVars, TelemetryTypes, Straight, OnceActive, Stage, RunRecords, Keep, Alive
  <2>6. OneWait'
    BY <1>0, <1>14, <2>0 DEF Flushed, Keep, recordVars, relayVars, TelemetryTypes, OneWait
  <2>7. RelayInv'
    BY <1>0, <1>14, <2>0 DEF Flushed, Keep, recordVars, relayVars, TelemetryTypes, RelayInv, Stage, Alive
  <2> QED BY <2>1, <2>2, <2>3, <2>4, <2>5, <2>6, <2>7 DEF TelemetryInv, RecordInv
<1>15. ASSUME FlushTimesOut("search") PROVE TelemetryInv'
  <2>0. at["search"] = "waiting" /\ at'["search"] = "done" /\ at'["main"] = at["main"] /\ at' \in [Procs -> MainAt \union SearchAt]
    BY <1>0, <1>15, Goes DEF FlushTimesOut, After, MainAt, SearchAt
  <2>1. TelemetryTypes'
    BY <1>0, <1>15, <2>0 DEF FlushTimesOut, Abandon, recordVars, relayVars, TelemetryTypes, MainAt, SearchAt
  <2>2. Stage'
    BY <1>0, <1>15, <2>0 DEF FlushTimesOut, Abandon, recordVars, relayVars, TelemetryTypes, Stage, MainAt, SearchAt, Alive
  <2>3. OnceActive'
    BY <1>0, <1>15, <2>0 DEF FlushTimesOut, Abandon, recordVars, relayVars, TelemetryTypes, OnceActive, Stage, Procs
  <2>4. StartIsSafe'
    BY <1>0, <1>15, <2>0 DEF FlushTimesOut, Abandon, recordVars, relayVars, TelemetryTypes, StartIsSafe, OnceActive, Stage, Keep, Alive
  <2>5. (~crossed => Straight)'
    BY <1>0, <1>15, <2>0 DEF FlushTimesOut, Abandon, recordVars, relayVars, TelemetryTypes, Straight, OnceActive, Stage, RunRecords, Keep, Alive
  <2>6. OneWait'
    BY <1>0, <1>15, <2>0 DEF FlushTimesOut, Abandon, recordVars, relayVars, TelemetryTypes, OneWait
  <2>7. RelayInv'
    BY <1>0, <1>15, <2>0 DEF FlushTimesOut, Abandon, recordVars, relayVars, TelemetryTypes, RelayInv, Stage, Alive
  <2> QED BY <2>1, <2>2, <2>3, <2>4, <2>5, <2>6, <2>7 DEF TelemetryInv, RecordInv
<1>16. ASSUME FlushBegins("search") PROVE TelemetryInv'
  <2>0. at["search"] = "flushing" /\ at'["search"] = "waiting" /\ at'["main"] = at["main"] /\ at' \in [Procs -> MainAt \union SearchAt]
    BY <1>0, <1>16, Goes DEF FlushBegins, MainAt, SearchAt
  <2>1. TelemetryTypes'
    BY <1>0, <1>16, <2>0 DEF FlushBegins, recordVars, relayVars, TelemetryTypes, MainAt, SearchAt
  <2>2. Stage'
    BY <1>0, <1>16, <2>0 DEF FlushBegins, recordVars, relayVars, TelemetryTypes, Stage, MainAt, SearchAt, Alive
  <2>3. OnceActive'
    BY <1>0, <1>16, <2>0 DEF FlushBegins, recordVars, relayVars, TelemetryTypes, OnceActive, Stage, Procs
  <2>4. StartIsSafe'
    BY <1>0, <1>16, <2>0 DEF FlushBegins, recordVars, relayVars, TelemetryTypes, StartIsSafe, OnceActive, Stage, Keep, Alive
  <2>5. (~crossed => Straight)'
    BY <1>0, <1>16, <2>0 DEF FlushBegins, recordVars, relayVars, TelemetryTypes, Straight, OnceActive, Stage, RunRecords, Keep, Alive
  <2>6. OneWait'
    BY <1>0, <1>16, <2>0 DEF FlushBegins, recordVars, relayVars, TelemetryTypes, OneWait
  <2>7. RelayInv'
    BY <1>0, <1>16, <2>0 DEF FlushBegins, recordVars, relayVars, TelemetryTypes, RelayInv, Stage, Alive
  <2> QED BY <2>1, <2>2, <2>3, <2>4, <2>5, <2>6, <2>7 DEF TelemetryInv, RecordInv
<1>17. ASSUME Batch PROVE TelemetryInv'
  <2>0. UNCHANGED at /\ pending' \union kept' = pending \union kept /\ kept \subseteq kept' /\ pending' \subseteq pending
    BY <1>0, <1>17, SMT DEF Batch
  <2>1. TelemetryTypes'
    BY <1>0, <1>17, <2>0 DEF Batch, recordVars, relayVars, TelemetryTypes, MainAt, SearchAt
  <2>2. Stage'
    BY <1>0, <1>17, <2>0 DEF Batch, recordVars, relayVars, TelemetryTypes, Stage, MainAt, SearchAt, Alive
  <2>3. OnceActive'
    BY <1>0, <1>17, <2>0 DEF Batch, recordVars, relayVars, TelemetryTypes, OnceActive, Stage, Procs
  <2>4. StartIsSafe'
    BY <1>0, <1>17, <2>0 DEF Batch, recordVars, relayVars, TelemetryTypes, StartIsSafe, OnceActive, Stage, Keep, Alive
  <2>5. (~crossed => Straight)'
    BY <1>0, <1>17, <2>0 DEF Batch, recordVars, relayVars, TelemetryTypes, Straight, OnceActive, Stage, RunRecords, Keep, Alive
  <2>6. OneWait'
    BY <1>0, <1>17, <2>0 DEF Batch, recordVars, relayVars, TelemetryTypes, OneWait
  <2>7. RelayInv'
    BY <1>0, <1>17, <2>0 DEF Batch, recordVars, relayVars, TelemetryTypes, RelayInv, Stage, Alive
  <2> QED BY <2>1, <2>2, <2>3, <2>4, <2>5, <2>6, <2>7 DEF TelemetryInv, RecordInv
<1>18. ASSUME Call PROVE TelemetryInv'
  <2>0. at["main"] = "loop" /\ at'["main"] = "calling" /\ at'["search"] = at["search"] /\ at' \in [Procs -> MainAt \union SearchAt]
        /\ snap' \in [Procs -> BOOLEAN] /\ snap'["main"] = active /\ snap'["search"] = snap["search"] /\ crossed' = (crossed \/ at["search"] \in {"reading", "opening"})
    BY <1>0, <1>18, MainMoves, Saw DEF Call, MainAt, Procs
  <2>1. TelemetryTypes'
    BY <1>0, <1>18, <2>0, CallsAssumption DEF Call, recordVars, relayVars, TelemetryTypes, MainAt, SearchAt
  <2>2. Stage'
    BY <1>0, <1>18, <2>0 DEF Call, recordVars, relayVars, TelemetryTypes, Stage, MainAt, SearchAt, Alive
  <2>3. OnceActive'
    BY <1>0, <1>18, <2>0 DEF Call, recordVars, relayVars, TelemetryTypes, OnceActive, Stage, Procs
  <2>4. StartIsSafe'
    BY <1>0, <1>18, <2>0 DEF Call, recordVars, relayVars, TelemetryTypes, StartIsSafe, OnceActive, Stage, Keep, Alive
  <2>5. (~crossed => Straight)'
    BY <1>0, <1>18, <2>0 DEF Call, recordVars, relayVars, TelemetryTypes, Straight, OnceActive, Stage, RunRecords, Keep, Alive
  <2>6. OneWait'
    BY <1>0, <1>18, <2>0 DEF Call, recordVars, relayVars, TelemetryTypes, OneWait
  <2>7. RelayInv'
    BY <1>0, <1>18, <2>0 DEF Call, recordVars, relayVars, TelemetryTypes, RelayInv, Stage, Alive
  <2> QED BY <2>1, <2>2, <2>3, <2>4, <2>5, <2>6, <2>7 DEF TelemetryInv, RecordInv
<1>19. ASSUME ChildEnv PROVE TelemetryInv'
  <2>0. at["main"] = "calling" /\ at'["main"] = "loop" /\ at'["search"] = at["search"] /\ at' \in [Procs -> MainAt \union SearchAt]
    BY <1>0, <1>19, MainMoves DEF ChildEnv, MainAt
  <2>1. TelemetryTypes'
    BY <1>0, <1>19, <2>0 DEF ChildEnv, recordVars, relayVars, TelemetryTypes, MainAt, SearchAt
  <2>2. Stage'
    BY <1>0, <1>19, <2>0 DEF ChildEnv, recordVars, relayVars, TelemetryTypes, Stage, MainAt, SearchAt, Alive
  <2>3. OnceActive'
    BY <1>0, <1>19, <2>0 DEF ChildEnv, recordVars, relayVars, TelemetryTypes, OnceActive, Stage, Procs
  <2>4. StartIsSafe'
    BY <1>0, <1>19, <2>0 DEF ChildEnv, recordVars, relayVars, TelemetryTypes, StartIsSafe, OnceActive, Stage, Keep, Alive
  <2>5. (~crossed => Straight)'
    BY <1>0, <1>19, <2>0 DEF ChildEnv, recordVars, relayVars, TelemetryTypes, Straight, OnceActive, Stage, RunRecords, Keep, Alive
  <2>6. OneWait'
    BY <1>0, <1>19, <2>0 DEF ChildEnv, recordVars, relayVars, TelemetryTypes, OneWait
  <2>7. RelayInv'
    BY <1>0, <1>19, <2>0 DEF ChildEnv, recordVars, relayVars, TelemetryTypes, RelayInv, Stage, Alive
  <2> QED BY <2>1, <2>2, <2>3, <2>4, <2>5, <2>6, <2>7 DEF TelemetryInv, RecordInv
<1>20. ASSUME LoopEnds PROVE TelemetryInv'
  <2>0. at["main"] = "loop" /\ at'["main"] = "stop" /\ at'["search"] = at["search"] /\ at' \in [Procs -> MainAt \union SearchAt]
    BY <1>0, <1>20, MainMoves DEF LoopEnds, MainAt
  <2>1. TelemetryTypes'
    BY <1>0, <1>20, <2>0 DEF LoopEnds, recordVars, relayVars, TelemetryTypes, MainAt, SearchAt
  <2>2. Stage'
    BY <1>0, <1>20, <2>0 DEF LoopEnds, recordVars, relayVars, TelemetryTypes, Stage, MainAt, SearchAt, Alive
  <2>3. OnceActive'
    BY <1>0, <1>20, <2>0 DEF LoopEnds, recordVars, relayVars, TelemetryTypes, OnceActive, Stage, Procs
  <2>4. StartIsSafe'
    BY <1>0, <1>20, <2>0 DEF LoopEnds, recordVars, relayVars, TelemetryTypes, StartIsSafe, OnceActive, Stage, Keep, Alive
  <2>5. (~crossed => Straight)'
    BY <1>0, <1>20, <2>0 DEF LoopEnds, recordVars, relayVars, TelemetryTypes, Straight, OnceActive, Stage, RunRecords, Keep, Alive
  <2>6. OneWait'
    BY <1>0, <1>20, <2>0 DEF LoopEnds, recordVars, relayVars, TelemetryTypes, OneWait
  <2>7. RelayInv'
    BY <1>0, <1>20, <2>0 DEF LoopEnds, recordVars, relayVars, TelemetryTypes, RelayInv, Stage, Alive
  <2> QED BY <2>1, <2>2, <2>3, <2>4, <2>5, <2>6, <2>7 DEF TelemetryInv, RecordInv
<1>21. ASSUME ReadAtEnd PROVE TelemetryInv'
  <2>0. at["main"] = "end" /\ at'["main"] = "finishing" /\ at'["search"] = at["search"] /\ at' \in [Procs -> MainAt \union SearchAt]
        /\ snap' \in [Procs -> BOOLEAN] /\ snap'["main"] = active /\ snap'["search"] = snap["search"] /\ crossed' = (crossed \/ at["search"] \in {"reading", "opening"})
    BY <1>0, <1>21, MainMoves, Saw DEF ReadAtEnd, MainAt, Procs
  <2>1. TelemetryTypes'
    BY <1>0, <1>21, <2>0 DEF ReadAtEnd, recordVars, relayVars, TelemetryTypes, MainAt, SearchAt
  <2>2. Stage'
    BY <1>0, <1>21, <2>0 DEF ReadAtEnd, recordVars, relayVars, TelemetryTypes, Stage, MainAt, SearchAt, Alive
  <2>3. OnceActive'
    BY <1>0, <1>21, <2>0 DEF ReadAtEnd, recordVars, relayVars, TelemetryTypes, OnceActive, Stage, Procs
  <2>4. StartIsSafe'
    BY <1>0, <1>21, <2>0 DEF ReadAtEnd, recordVars, relayVars, TelemetryTypes, StartIsSafe, OnceActive, Stage, Keep, Alive
  <2>5. (~crossed => Straight)'
    BY <1>0, <1>21, <2>0 DEF ReadAtEnd, recordVars, relayVars, TelemetryTypes, Straight, OnceActive, Stage, RunRecords, Keep, Alive
  <2>6. OneWait'
    BY <1>0, <1>21, <2>0 DEF ReadAtEnd, recordVars, relayVars, TelemetryTypes, OneWait
  <2>7. RelayInv'
    BY <1>0, <1>21, <2>0 DEF ReadAtEnd, recordVars, relayVars, TelemetryTypes, RelayInv, Stage, Alive
  <2> QED BY <2>1, <2>2, <2>3, <2>4, <2>5, <2>6, <2>7 DEF TelemetryInv, RecordInv
<1>22. ASSUME Finish PROVE TelemetryInv'
  <2>0. at["main"] = "finishing" /\ at'["main"] = "ended" /\ at'["search"] = at["search"] /\ at' \in [Procs -> MainAt \union SearchAt]
    BY <1>0, <1>22, MainMoves DEF Finish, MainAt
  <2>1. TelemetryTypes'
    BY <1>0, <1>22, <2>0 DEF Finish, recordVars, relayVars, TelemetryTypes, MainAt, SearchAt
  <2>2. Stage'
    BY <1>0, <1>22, <2>0 DEF Finish, recordVars, relayVars, TelemetryTypes, Stage, MainAt, SearchAt, Alive
  <2>3. OnceActive'
    BY <1>0, <1>22, <2>0 DEF Finish, recordVars, relayVars, TelemetryTypes, OnceActive, Stage, Procs
  <2>4. StartIsSafe'
    BY <1>0, <1>22, <2>0 DEF Finish, recordVars, relayVars, TelemetryTypes, StartIsSafe, OnceActive, Stage, Keep, Alive, Ends
  <2>5. (~crossed => Straight)'
    BY <1>0, <1>22, <2>0 DEF Finish, recordVars, relayVars, TelemetryTypes, Straight, OnceActive, Stage, RunRecords, Keep, Alive, Ends
  <2>6. OneWait'
    BY <1>0, <1>22, <2>0 DEF Finish, recordVars, relayVars, TelemetryTypes, OneWait
  <2>7. RelayInv'
    BY <1>0, <1>22, <2>0 DEF Finish, recordVars, relayVars, TelemetryTypes, RelayInv, Stage, Alive
  <2> QED BY <2>1, <2>2, <2>3, <2>4, <2>5, <2>6, <2>7 DEF TelemetryInv, RecordInv
<1>23. ASSUME Shutdown PROVE TelemetryInv'
  <2>0. at["main"] = "ended" /\ at'["main"] = "flushing" /\ at'["search"] = at["search"] /\ at' \in [Procs -> MainAt \union SearchAt]
    BY <1>0, <1>23, MainMoves DEF Shutdown, MainAt
  <2>1. TelemetryTypes'
    BY <1>0, <1>23, <2>0 DEF Shutdown, recordVars, relayVars, TelemetryTypes, MainAt, SearchAt
  <2>2. Stage'
    BY <1>0, <1>23, <2>0 DEF Shutdown, recordVars, relayVars, TelemetryTypes, Stage, MainAt, SearchAt, Alive
  <2>3. OnceActive'
    BY <1>0, <1>23, <2>0 DEF Shutdown, recordVars, relayVars, TelemetryTypes, OnceActive, Stage, Procs
  <2>4. StartIsSafe'
    BY <1>0, <1>23, <2>0 DEF Shutdown, recordVars, relayVars, TelemetryTypes, StartIsSafe, OnceActive, Stage, Keep, Alive
  <2>5. (~crossed => Straight)'
    BY <1>0, <1>23, <2>0 DEF Shutdown, recordVars, relayVars, TelemetryTypes, Straight, OnceActive, Stage, RunRecords, Keep, Alive
  <2>6. OneWait'
    BY <1>0, <1>23, <2>0 DEF Shutdown, recordVars, relayVars, TelemetryTypes, OneWait
  <2>7. RelayInv'
    BY <1>0, <1>23, <2>0 DEF Shutdown, recordVars, relayVars, TelemetryTypes, RelayInv, Stage, Alive
  <2> QED BY <2>1, <2>2, <2>3, <2>4, <2>5, <2>6, <2>7 DEF TelemetryInv, RecordInv
<1>24. ASSUME KillRun PROVE TelemetryInv'
  <2>0. at["main"] \notin {"over", "killed"} /\ at'["main"] = "killed" /\ at'["search"] = at["search"] /\ at' \in [Procs -> MainAt \union SearchAt]
    BY <1>0, <1>24, Goes DEF KillRun, Alive, MainAt
  <2>1. TelemetryTypes'
    BY <1>0, <1>24, <2>0 DEF KillRun, recordVars, relayVars, TelemetryTypes, MainAt, SearchAt
  <2>2. Stage'
    BY <1>0, <1>24, <2>0 DEF KillRun, recordVars, relayVars, TelemetryTypes, Stage, MainAt, SearchAt, Alive
  <2>3. OnceActive'
    BY <1>0, <1>24, <2>0 DEF KillRun, recordVars, relayVars, TelemetryTypes, OnceActive, Stage, Procs
  <2>4. StartIsSafe'
    BY <1>0, <1>24, <2>0 DEF KillRun, recordVars, relayVars, TelemetryTypes, StartIsSafe, OnceActive, Stage, Keep, Alive
  <2>5. (~crossed => Straight)'
    BY <1>0, <1>24, <2>0 DEF KillRun, recordVars, relayVars, TelemetryTypes, Straight, OnceActive, Stage, RunRecords, Keep, Alive
  <2>6. OneWait'
    BY <1>0, <1>24, <2>0 DEF KillRun, recordVars, relayVars, TelemetryTypes, OneWait
  <2>7. RelayInv'
    BY <1>0, <1>24, <2>0 DEF KillRun, recordVars, relayVars, TelemetryTypes, RelayInv, Stage, Alive
  <2> QED BY <2>1, <2>2, <2>3, <2>4, <2>5, <2>6, <2>7 DEF TelemetryInv, RecordInv
<1>25. ASSUME RelaySkipped PROVE TelemetryInv'
  <2>0. at["main"] = "loop" /\ at'["main"] = "loop" /\ at'["search"] = at["search"] /\ at' \in [Procs -> MainAt \union SearchAt]
    BY <1>0, <1>25, MainMoves DEF RelaySkipped, MainAt
  <2>1. UNCHANGED <<recordVars, snap, waited>>
    BY <1>25 DEF RelaySkipped
  <2>2. RecordInv' /\ at' \in [Procs -> MainAt \union SearchAt] /\ at'["main"] \in MainAt /\ at'["search"] \in SearchAt
    BY <2>0, <2>1, RecordsStay
  <2>3. TelemetryTypes'
    <3>1. noted' \in BOOLEAN
      BY <1>0, <1>25 DEF RelaySkipped, TelemetryTypes
    <3>2. once' = TRUE /\ UNCHANGED <<recordVars, relay, line, clean, endpoint, snap, waited>>
      BY <1>25 DEF RelaySkipped
    <3> QED BY <1>0, <2>2, <3>1, <3>2 DEF recordVars, TelemetryTypes
  <2>4. OneWait'
    BY <1>0, <1>25, <2>0, <2>1 DEF RelaySkipped, recordVars, OneWait
  <2>5. RelayInv'
    BY <1>0, <1>25, <2>0, <2>1 DEF RelaySkipped, recordVars, relayVars, TelemetryTypes, RelayInv, Stage
  <2> QED BY <2>2, <2>3, <2>4, <2>5 DEF TelemetryInv
<1>26. ASSUME StartRelay PROVE TelemetryInv'
  <2>0. at["main"] = "loop" /\ at'["main"] = "ready" /\ at'["search"] = at["search"] /\ at' \in [Procs -> MainAt \union SearchAt]
    BY <1>0, <1>26, MainMoves DEF StartRelay, MainAt
  <2>1. UNCHANGED <<recordVars, snap, waited>>
    BY <1>26 DEF StartRelay
  <2>2. RecordInv' /\ at' \in [Procs -> MainAt \union SearchAt] /\ at'["main"] \in MainAt /\ at'["search"] \in SearchAt
    BY <2>0, <2>1, RecordsStay
  <2>3. TelemetryTypes'
    BY <1>0, <1>26, <2>1, <2>2 DEF StartRelay, recordVars, relayVars, TelemetryTypes
  <2>4. OneWait'
    BY <1>0, <1>26, <2>0, <2>1 DEF StartRelay, recordVars, OneWait
  <2>5. RelayInv'
    BY <1>0, <1>26, <2>0, <2>1 DEF StartRelay, recordVars, relayVars, TelemetryTypes, RelayInv, Stage
  <2> QED BY <2>2, <2>3, <2>4, <2>5 DEF TelemetryInv
<1>27. ASSUME RelayPrints PROVE TelemetryInv'
  <2>0. UNCHANGED at
    BY <1>0, <1>27, SMT DEF RelayPrints
  <2>1. UNCHANGED <<recordVars, snap, waited>>
    BY <1>27 DEF RelayPrints
  <2>2. RecordInv' /\ at' \in [Procs -> MainAt \union SearchAt] /\ at'["main"] \in MainAt /\ at'["search"] \in SearchAt
    BY <2>0, <2>1, RecordsStay
  <2>3. TelemetryTypes'
    BY <1>0, <1>27, <2>1, <2>2 DEF RelayPrints, recordVars, relayVars, TelemetryTypes
  <2>4. OneWait'
    BY <1>0, <1>27, <2>0, <2>1 DEF RelayPrints, recordVars, OneWait
  <2>5. RelayInv'
    BY <1>0, <1>27, <2>0, <2>1 DEF RelayPrints, recordVars, relayVars, TelemetryTypes, RelayInv, Stage
  <2> QED BY <2>2, <2>3, <2>4, <2>5 DEF TelemetryInv
<1>28. ASSUME RelayExits PROVE TelemetryInv'
  <2>0. UNCHANGED at
    BY <1>0, <1>28, SMT DEF RelayExits
  <2>1. UNCHANGED <<recordVars, snap, waited>>
    BY <1>28 DEF RelayExits
  <2>2. RecordInv' /\ at' \in [Procs -> MainAt \union SearchAt] /\ at'["main"] \in MainAt /\ at'["search"] \in SearchAt
    BY <2>0, <2>1, RecordsStay
  <2>3. TelemetryTypes'
    BY <1>0, <1>28, <2>1, <2>2 DEF RelayExits, recordVars, relayVars, TelemetryTypes
  <2>4. OneWait'
    BY <1>0, <1>28, <2>0, <2>1 DEF RelayExits, recordVars, OneWait
  <2>5. RelayInv'
    BY <1>0, <1>28, <2>0, <2>1 DEF RelayExits, recordVars, relayVars, TelemetryTypes, RelayInv, Stage
  <2> QED BY <2>2, <2>3, <2>4, <2>5 DEF TelemetryInv
<1>29. ASSUME RelayReaped PROVE TelemetryInv'
  <2>0. UNCHANGED at
    BY <1>0, <1>29, SMT DEF RelayReaped
  <2>1. UNCHANGED <<recordVars, snap, waited>>
    BY <1>29 DEF RelayReaped
  <2>2. RecordInv' /\ at' \in [Procs -> MainAt \union SearchAt] /\ at'["main"] \in MainAt /\ at'["search"] \in SearchAt
    BY <2>0, <2>1, RecordsStay
  <2>3. TelemetryTypes'
    BY <1>0, <1>29, <2>1, <2>2 DEF RelayReaped, recordVars, relayVars, TelemetryTypes
  <2>4. OneWait'
    BY <1>0, <1>29, <2>0, <2>1 DEF RelayReaped, recordVars, OneWait
  <2>5. RelayInv'
    BY <1>0, <1>29, <2>0, <2>1 DEF RelayReaped, recordVars, relayVars, TelemetryTypes, RelayInv, Stage
  <2> QED BY <2>2, <2>3, <2>4, <2>5 DEF TelemetryInv
<1>30. ASSUME RelayReady PROVE TelemetryInv'
  <2>0. at["main"] = "ready" /\ at'["main"] = "loop" /\ at'["search"] = at["search"] /\ at' \in [Procs -> MainAt \union SearchAt]
    BY <1>0, <1>30, MainMoves DEF RelayReady, MainAt
  <2>1. UNCHANGED <<recordVars, snap, waited>>
    BY <1>30 DEF RelayReady
  <2>2. RecordInv' /\ at' \in [Procs -> MainAt \union SearchAt] /\ at'["main"] \in MainAt /\ at'["search"] \in SearchAt
    BY <2>0, <2>1, RecordsStay
  <2>3. TelemetryTypes'
    BY <1>0, <1>30, <2>1, <2>2 DEF RelayReady, recordVars, relayVars, TelemetryTypes
  <2>4. OneWait'
    BY <1>0, <1>30, <2>0, <2>1 DEF RelayReady, recordVars, OneWait
  <2>5. RelayInv'
    BY <1>0, <1>30, <2>0, <2>1 DEF RelayReady, recordVars, relayVars, TelemetryTypes, RelayInv, Stage
  <2> QED BY <2>2, <2>3, <2>4, <2>5 DEF TelemetryInv
<1>31. ASSUME RelayUnusable PROVE TelemetryInv'
  <2>0. at["main"] = "ready" /\ at'["main"] = "unusable" /\ at'["search"] = at["search"] /\ at' \in [Procs -> MainAt \union SearchAt]
    BY <1>0, <1>31, MainMoves DEF RelayUnusable, MainAt
  <2>1. UNCHANGED <<recordVars, snap, waited>>
    BY <1>31 DEF RelayUnusable, Killed
  <2>2. RecordInv' /\ at' \in [Procs -> MainAt \union SearchAt] /\ at'["main"] \in MainAt /\ at'["search"] \in SearchAt
    BY <2>0, <2>1, RecordsStay
  <2>3. TelemetryTypes'
    BY <1>0, <1>31, <2>1, <2>2 DEF RelayUnusable, Killed, recordVars, relayVars, TelemetryTypes
  <2>4. OneWait'
    BY <1>0, <1>31, <2>0, <2>1 DEF RelayUnusable, Killed, recordVars, OneWait
  <2>5. RelayInv'
    BY <1>0, <1>31, <2>0, <2>1 DEF RelayUnusable, Killed, recordVars, relayVars, TelemetryTypes, RelayInv, Stage
  <2> QED BY <2>2, <2>3, <2>4, <2>5 DEF TelemetryInv
<1>32. ASSUME RelayGone("unusable", "loop") PROVE TelemetryInv'
  <2>0. at["main"] = "unusable" /\ at'["main"] = "loop" /\ at'["search"] = at["search"] /\ at' \in [Procs -> MainAt \union SearchAt]
    BY <1>0, <1>32, MainMoves DEF RelayGone, MainAt
  <2>1. UNCHANGED <<recordVars, snap, waited>>
    BY <1>32 DEF RelayGone
  <2>2. RecordInv' /\ at' \in [Procs -> MainAt \union SearchAt] /\ at'["main"] \in MainAt /\ at'["search"] \in SearchAt
    BY <2>0, <2>1, RecordsStay
  <2>3. TelemetryTypes'
    BY <1>0, <1>32, <2>1, <2>2 DEF RelayGone, recordVars, relayVars, TelemetryTypes
  <2>4. OneWait'
    BY <1>0, <1>32, <2>0, <2>1 DEF RelayGone, recordVars, OneWait
  <2>5. RelayInv'
    BY <1>0, <1>32, <2>0, <2>1 DEF RelayGone, recordVars, relayVars, TelemetryTypes, RelayInv, Stage
  <2> QED BY <2>2, <2>3, <2>4, <2>5 DEF TelemetryInv
<1>33. ASSUME RelayGone("stopped", "end") PROVE TelemetryInv'
  <2>0. at["main"] = "stopped" /\ at'["main"] = "end" /\ at'["search"] = at["search"] /\ at' \in [Procs -> MainAt \union SearchAt]
    BY <1>0, <1>33, MainMoves DEF RelayGone, MainAt
  <2>1. UNCHANGED <<recordVars, snap, waited>>
    BY <1>33 DEF RelayGone
  <2>2. RecordInv' /\ at' \in [Procs -> MainAt \union SearchAt] /\ at'["main"] \in MainAt /\ at'["search"] \in SearchAt
    BY <2>0, <2>1, RecordsStay
  <2>3. TelemetryTypes'
    BY <1>0, <1>33, <2>1, <2>2 DEF RelayGone, recordVars, relayVars, TelemetryTypes
  <2>4. OneWait'
    BY <1>0, <1>33, <2>0, <2>1 DEF RelayGone, recordVars, OneWait
  <2>5. RelayInv'
    BY <1>0, <1>33, <2>0, <2>1 DEF RelayGone, recordVars, relayVars, TelemetryTypes, RelayInv, Stage
  <2> QED BY <2>2, <2>3, <2>4, <2>5 DEF TelemetryInv
<1>34. ASSUME NothingToStop PROVE TelemetryInv'
  <2>0. at["main"] = "stop" /\ at'["main"] = "end" /\ at'["search"] = at["search"] /\ at' \in [Procs -> MainAt \union SearchAt]
    BY <1>0, <1>34, MainMoves DEF NothingToStop, MainAt
  <2>1. UNCHANGED <<recordVars, snap, waited>>
    BY <1>34 DEF NothingToStop
  <2>2. RecordInv' /\ at' \in [Procs -> MainAt \union SearchAt] /\ at'["main"] \in MainAt /\ at'["search"] \in SearchAt
    BY <2>0, <2>1, RecordsStay
  <2>3. TelemetryTypes'
    BY <1>0, <1>34, <2>1, <2>2 DEF NothingToStop, recordVars, relayVars, TelemetryTypes
  <2>4. OneWait'
    BY <1>0, <1>34, <2>0, <2>1 DEF NothingToStop, recordVars, OneWait
  <2>5. RelayInv'
    BY <1>0, <1>34, <2>0, <2>1 DEF NothingToStop, recordVars, relayVars, TelemetryTypes, RelayInv, Stage
  <2> QED BY <2>2, <2>3, <2>4, <2>5 DEF TelemetryInv
<1>35. ASSUME AskRelay PROVE TelemetryInv'
  <2>0. at["main"] = "stop" /\ at'["main"] = "stopping" /\ at'["search"] = at["search"] /\ at' \in [Procs -> MainAt \union SearchAt]
    BY <1>0, <1>35, MainMoves DEF AskRelay, MainAt
  <2>1. UNCHANGED <<recordVars, snap, waited>>
    BY <1>35 DEF AskRelay
  <2>2. RecordInv' /\ at' \in [Procs -> MainAt \union SearchAt] /\ at'["main"] \in MainAt /\ at'["search"] \in SearchAt
    BY <2>0, <2>1, RecordsStay
  <2>3. TelemetryTypes'
    BY <1>0, <1>35, <2>1, <2>2 DEF AskRelay, recordVars, relayVars, TelemetryTypes
  <2>4. OneWait'
    BY <1>0, <1>35, <2>0, <2>1 DEF AskRelay, recordVars, OneWait
  <2>5. RelayInv'
    BY <1>0, <1>35, <2>0, <2>1 DEF AskRelay, recordVars, relayVars, TelemetryTypes, RelayInv, Stage
  <2> QED BY <2>2, <2>3, <2>4, <2>5 DEF TelemetryInv
<1>36. ASSUME RelayStopped PROVE TelemetryInv'
  <2>0. at["main"] = "stopping" /\ at'["main"] = "end" /\ at'["search"] = at["search"] /\ at' \in [Procs -> MainAt \union SearchAt]
    BY <1>0, <1>36, MainMoves DEF RelayStopped, MainAt
  <2>1. UNCHANGED <<recordVars, snap, waited>>
    BY <1>36 DEF RelayStopped
  <2>2. RecordInv' /\ at' \in [Procs -> MainAt \union SearchAt] /\ at'["main"] \in MainAt /\ at'["search"] \in SearchAt
    BY <2>0, <2>1, RecordsStay
  <2>3. TelemetryTypes'
    BY <1>0, <1>36, <2>1, <2>2 DEF RelayStopped, recordVars, relayVars, TelemetryTypes
  <2>4. OneWait'
    BY <1>0, <1>36, <2>0, <2>1 DEF RelayStopped, recordVars, OneWait
  <2>5. RelayInv'
    BY <1>0, <1>36, <2>0, <2>1 DEF RelayStopped, recordVars, relayVars, TelemetryTypes, RelayInv, Stage
  <2> QED BY <2>2, <2>3, <2>4, <2>5 DEF TelemetryInv
<1>37. ASSUME StopTimesOut PROVE TelemetryInv'
  <2>0. at["main"] = "stopping" /\ at'["main"] = "stopped" /\ at'["search"] = at["search"] /\ at' \in [Procs -> MainAt \union SearchAt]
    BY <1>0, <1>37, MainMoves DEF StopTimesOut, MainAt
  <2>1. UNCHANGED <<recordVars, snap, waited>>
    BY <1>37 DEF StopTimesOut, Killed
  <2>2. RecordInv' /\ at' \in [Procs -> MainAt \union SearchAt] /\ at'["main"] \in MainAt /\ at'["search"] \in SearchAt
    BY <2>0, <2>1, RecordsStay
  <2>3. TelemetryTypes'
    BY <1>0, <1>37, <2>1, <2>2 DEF StopTimesOut, Killed, recordVars, relayVars, TelemetryTypes
  <2>4. OneWait'
    BY <1>0, <1>37, <2>0, <2>1 DEF StopTimesOut, Killed, recordVars, OneWait
  <2>5. RelayInv'
    BY <1>0, <1>37, <2>0, <2>1 DEF StopTimesOut, Killed, recordVars, relayVars, TelemetryTypes, RelayInv, Stage
  <2> QED BY <2>2, <2>3, <2>4, <2>5 DEF TelemetryInv
<1>38. ASSUME RunOver \/ UNCHANGED telemetryVars PROVE TelemetryInv'
  <2>1. UNCHANGED <<recordVars, relayVars, at, snap, waited>>
    BY <1>38 DEF RunOver, telemetryVars
  <2>2. RecordInv'
    BY <2>1, RecordsStay
  <2> QED BY <1>0, <2>1, <2>2 DEF TelemetryInv, TelemetryTypes, OneWait, RelayInv, recordVars, relayVars
<1> QED BY <1>1, <1>2, <1>3, <1>4, <1>5, <1>6, <1>7, <1>8, <1>9, <1>10, <1>11, <1>12, <1>13, <1>14, <1>15, <1>16, <1>17, <1>18, <1>19, <1>20, <1>21, <1>22, <1>23, <1>24, <1>25, <1>26, <1>27, <1>28, <1>29, <1>30, <1>31, <1>32, <1>33, <1>34, <1>35, <1>36, <1>37, <1>38 DEF TelemetryNext, Procs

\* The invariant is one.
THEOREM TelemetryInvariant == TelemetrySpec => []TelemetryInv
BY TelemetryBegins, TelemetrySteps, PTL DEF TelemetrySpec

\* Whenever telemetry begins, a run leaves a start, an end and a span that go together, or
\* nothing, and its children are told of that span; and the start is kept from the
\* beginning, so that a killed run shows too (run.go:16-47, 136-163).
THEOREM EachRunIsRecorded == TelemetrySpec => []RunIsRecorded
<1>1. TelemetryInv => WholeOrNothing
  <2> SUFFICES ASSUME TelemetryInv, ~crossed PROVE WholeOrNothing
    BY DEF WholeOrNothing
  <2>1. Straight /\ Stage
    BY DEF TelemetryInv, RecordInv
  <2> QED BY <2>1 DEF WholeOrNothing, Straight, RunRecords, Stage
<1>2. TelemetryInv => StartIsKept
  BY DEF TelemetryInv, RecordInv, StartIsSafe, StartIsKept, Under, Flushes
<1> QED BY <1>1, <1>2, TelemetryInvariant, PTL DEF RunIsRecorded

\* Telemetry costs one timeout at most, and no relay is left that cannot be used or
\* outlived its stop (telemetry.go:455-473, relay.go:49-56, 155-190).
THEOREM TelemetryKeepsAside == TelemetrySpec => []TelemetryStaysAside
<1>1. TelemetryInv => TelemetryStaysAside
  BY DEF TelemetryInv, OneWait, RelayInv, TelemetryStaysAside
<1> QED BY <1>1, TelemetryInvariant, PTL
===============================================================================

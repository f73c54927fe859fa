------------------------------ MODULE Telemetry ------------------------------
(* What one run records of itself and where: the run's span, its started and    *)
(* finished events, the trace its children are given, and the relay that takes  *)
(* what the vendor's tool records (internal/telemetry, and its use by `ynh      *)
(* agent run`). A goroutine that looks for the spool brings the run onto it     *)
(* when it appears, beside the run. Every wait has a timeout, which may pass at *)
(* any time; the records of a signal are sent together.                         *)
EXTENDS Naturals, FiniteSets

CONSTANT MaxCalls   \* bound: the processes the run starts

ASSUME CallsAssumption == MaxCalls \in Nat

Procs == {"main", "search"}

VARIABLES
    folder,      \* the spool folder exists
    dest,        \* where records go, as telemetry has it
    active,      \* the providers are real
    stopped,     \* Shutdown has begun
    known,       \* telemetry knows of the run
    finished,    \* the run is finished
    span,        \* the run's span: 0 is one that is recorded nowhere
    spans,       \* real spans opened
    pending,     \* what was recorded and is still in memory
    kept,        \* what is in the spool, or was sent
    abandoned,   \* a flush took too long
    at, snap,    \* what each goroutine is at; whether its snapshot of the providers was of real ones
    handed,      \* the spans given to children that were told of the spool
    calls,
    waited,      \* history: the flushes the run waited for in vain
    crossed,     \* history: telemetry began as the run was opening, or between a snapshot and its use
    once,        \* the relay has been asked for
    relay,       \* the relay: none, up, exited, reaped
    line,        \* what it printed: none, good, bad
    clean,       \* it exited by itself, with nothing left to write
    endpoint,    \* the run has its endpoint
    noted        \* the user was told

recordVars == <<folder, dest, active, stopped, known, finished, span, spans, pending, kept, abandoned, handed, calls, crossed>>
relayVars == <<once, relay, line, clean, endpoint, noted>>
telemetryVars == <<recordVars, relayVars, at, snap, waited>>

Goto(p, s) == at' = [at EXCEPT ![p] = s]
MainGoes(from, to) == at["main"] = from /\ Goto("main", to)
Alive == at["main"] \notin {"over", "killed"}
Keep == kept' = kept \union pending /\ pending' = {}

\* Telemetry.state: what is in force now. It crosses a beginning that is not over.
Snapshot(p) ==
  /\ snap' = [snap EXCEPT ![p] = active]
  /\ crossed' = (crossed \/ (p = "main" /\ at["search"] \in {"reading", "opening"}))

(* Beginning *)

\* Setup. An operator whose settings cannot be honoured is given no telemetry.
Setup ==
  /\ MainGoes("setup", "begin")
  /\ \/ dest' = "otlp" /\ active' \in BOOLEAN
     \/ dest' = (IF folder THEN "spool" ELSE "none") /\ active' = folder
  /\ UNCHANGED <<folder, stopped, known, finished, span, spans, pending, kept, abandoned, handed, calls, crossed,
                 relayVars, snap, waited>>

FolderAppears ==
  /\ Alive /\ ~folder /\ folder' = TRUE
  /\ UNCHANGED <<dest, active, stopped, known, finished, span, spans, pending, kept, abandoned, handed, calls, crossed,
                 relayVars, at, snap, waited>>

\* recheck finds it, and activate swaps the providers; a run that is known is brought over.
Swap ==
  /\ Alive /\ at["main"] # "setup" /\ dest = "none" /\ at["search"] = "looking" /\ folder /\ ~stopped
  /\ active' = TRUE /\ dest' = "spool"
  /\ Goto("search", IF known THEN "reading" ELSE "done")
  /\ crossed' = (crossed \/ at["main"] \in {"reading", "opening", "calling", "finishing"})
  /\ UNCHANGED <<folder, stopped, known, finished, span, spans, pending, kept, abandoned, handed, calls,
                 relayVars, snap, waited>>

\* StartRun
StartRun ==
  /\ MainGoes("begin", "reading") /\ known' = TRUE
  /\ UNCHANGED <<folder, dest, active, stopped, finished, span, spans, pending, kept, abandoned, handed, calls, crossed,
                 relayVars, snap, waited>>

\* Run.activate, by the run as it starts and by the search: what is in force, then the span
\* and the event, then a flush.
Read(p) ==
  /\ Alive /\ at[p] = "reading" /\ Goto(p, "opening") /\ Snapshot(p)
  /\ UNCHANGED <<folder, dest, active, stopped, known, finished, span, spans, pending, kept, abandoned, handed, calls,
                 relayVars, waited>>

Opened(p) ==
  IF snap[p] THEN spans' = spans + 1 /\ span' = spans + 1 /\ pending' = pending \union {<<"started", spans + 1>>}
             ELSE span' = 0 /\ UNCHANGED <<spans, pending>>

OpenSpan(p) ==
  /\ Alive /\ at[p] = "opening"
  /\ IF finished THEN Goto(p, "done") /\ UNCHANGED <<span, spans, pending>>
                 ELSE Goto(p, "flushing") /\ Opened(p)
  /\ UNCHANGED <<folder, dest, active, stopped, known, finished, kept, abandoned, handed, calls, crossed,
                 relayVars, snap, waited>>

(* Flushing, within FlushTimeout *)

After(p) == IF p = "search" THEN "done" ELSE IF stopped THEN "over" ELSE "loop"

\* Telemetry.Flush or Shutdown, with nothing to flush, or given up on already
FlushSkipped(p) ==
  /\ Alive /\ at[p] = "flushing" /\ (~active \/ abandoned) /\ Goto(p, After(p))
  /\ UNCHANGED <<recordVars, relayVars, snap, waited>>

FlushBegins(p) ==
  /\ Alive /\ at[p] = "flushing" /\ active /\ ~abandoned /\ Goto(p, "waiting")
  /\ UNCHANGED <<recordVars, relayVars, snap, waited>>

Flushed(p) ==
  /\ Alive /\ at[p] = "waiting" /\ Goto(p, After(p)) /\ Keep
  /\ UNCHANGED <<folder, dest, active, stopped, known, finished, span, spans, abandoned, handed, calls, crossed,
                 relayVars, snap, waited>>

\* Mutant of Abandon: the next flush waits again.
AbandonOnce == UNCHANGED abandoned

\* bounded: a flush that took too long is the last.
Abandon == abandoned' = TRUE

FlushTimesOut(p) ==
  /\ Alive /\ at[p] = "waiting" /\ Goto(p, After(p)) /\ Abandon
  /\ waited' = IF p = "main" THEN waited + 1 ELSE waited
  /\ UNCHANGED <<folder, dest, active, stopped, known, finished, span, spans, pending, kept, handed, calls, crossed,
                 relayVars, snap>>

\* The batchers send what there is at least every second, also after an abandoned flush.
Batch ==
  /\ Alive /\ pending # {}
  /\ \E events \in BOOLEAN : LET sent == {r \in pending : (r[1] # "span") = events} IN
       sent # {} /\ kept' = kept \union sent /\ pending' = pending \ sent
  /\ UNCHANGED <<folder, dest, active, stopped, known, finished, span, spans, abandoned, handed, calls, crossed,
                 relayVars, at, snap, waited>>

(* The run *)

\* WorkerEnv and StartCall: a child is told of the spool and of the run's span, or of neither.
Call ==
  /\ MainGoes("loop", "calling") /\ calls < MaxCalls /\ calls' = calls + 1 /\ Snapshot("main")
  /\ UNCHANGED <<folder, dest, active, stopped, known, finished, span, spans, pending, kept, abandoned, handed,
                 relayVars, waited>>

ChildEnv ==
  /\ MainGoes("calling", "loop")
  /\ handed' = IF snap["main"] THEN handed \union {span} ELSE handed
  /\ UNCHANGED <<folder, dest, active, stopped, known, finished, span, spans, pending, kept, abandoned, calls, crossed,
                 relayVars, snap, waited>>

LoopEnds ==
  /\ MainGoes("loop", "stop")
  /\ UNCHANGED <<recordVars, relayVars, snap, waited>>

\* Finish: what is in force, then the event and the end of the span.
ReadAtEnd ==
  /\ MainGoes("end", "finishing") /\ Snapshot("main")
  /\ UNCHANGED <<folder, dest, active, stopped, known, finished, span, spans, pending, kept, abandoned, handed, calls,
                 relayVars, waited>>

\* Mutant of Ends: the span is left open.
EndsOpen == IF snap["main"] THEN {<<"finished", span>>} ELSE {}

Ends == (IF snap["main"] THEN {<<"finished", span>>} ELSE {}) \union (IF span # 0 THEN {<<"span", span>>} ELSE {})

Finish ==
  /\ MainGoes("finishing", "ended") /\ finished' = TRUE /\ pending' = pending \union Ends
  /\ UNCHANGED <<folder, dest, active, stopped, known, span, spans, kept, abandoned, handed, calls, crossed,
                 relayVars, snap, waited>>

Shutdown ==
  /\ MainGoes("ended", "flushing") /\ stopped' = TRUE
  /\ UNCHANGED <<folder, dest, active, known, finished, span, spans, pending, kept, abandoned, handed, calls, crossed,
                 relayVars, snap, waited>>

\* kill -9: the kernel closes the relay's stdin.
KillRun ==
  /\ Alive /\ Goto("main", "killed")
  /\ UNCHANGED <<recordVars, relayVars, snap, waited>>

(* The relay *)

\* The setting is off, or a condition does not hold, which is said; asked for once.
RelaySkipped ==
  /\ MainGoes("loop", "loop") /\ ~once /\ once' = TRUE /\ noted' \in {noted, TRUE}
  /\ UNCHANGED <<recordVars, relay, line, clean, endpoint, snap, waited>>

StartRelay ==
  /\ MainGoes("loop", "ready") /\ ~once /\ once' = TRUE /\ dest = "spool" /\ relay' = "up"
  /\ UNCHANGED <<recordVars, line, clean, endpoint, noted, snap, waited>>

RelayPrints ==
  /\ relay = "up" /\ line = "none" /\ line' \in {"good", "bad"}
  /\ UNCHANGED <<recordVars, once, relay, clean, endpoint, noted, at, snap, waited>>

\* It may leave at any time, and cleanly or not.
RelayExits ==
  /\ relay = "up" /\ relay' = "exited" /\ clean' \in BOOLEAN
  /\ UNCHANGED <<recordVars, once, line, endpoint, noted, at, snap, waited>>

RelayReaped ==
  /\ Alive /\ relay = "exited" /\ relay' = "reaped"
  /\ UNCHANGED <<recordVars, once, line, clean, endpoint, noted, at, snap, waited>>

RelayReady ==
  /\ MainGoes("ready", "loop") /\ line = "good" /\ endpoint' = TRUE
  /\ UNCHANGED <<recordVars, once, relay, line, clean, noted, snap, waited>>

Killed == relay' = IF relay = "up" THEN "exited" ELSE relay

\* Its first line is not an endpoint, or is not there in time.
RelayUnusable ==
  /\ MainGoes("ready", "unusable") /\ Killed /\ noted' = TRUE
  /\ UNCHANGED <<recordVars, once, line, clean, endpoint, snap, waited>>

\* kill waits until it is reaped.
RelayGone(from, to) ==
  /\ MainGoes(from, to) /\ relay = "reaped"
  /\ UNCHANGED <<recordVars, relayVars, snap, waited>>

\* Relay.Stop: none, or one that is gone already, which is said
NothingToStop ==
  /\ MainGoes("stop", "end") /\ (~endpoint \/ relay = "reaped") /\ noted' = (noted \/ endpoint)
  /\ UNCHANGED <<recordVars, once, relay, line, clean, endpoint, snap, waited>>

\* stdin is closed and SIGTERM sent: it drains what it took, and leaves.
AskRelay ==
  /\ MainGoes("stop", "stopping") /\ endpoint /\ relay # "reaped"
  /\ UNCHANGED <<recordVars, relayVars, snap, waited>>

RelayStopped ==
  /\ MainGoes("stopping", "end") /\ relay = "reaped" /\ noted' = (noted \/ ~clean)
  /\ UNCHANGED <<recordVars, once, relay, line, clean, endpoint, snap, waited>>

\* Mutant of StopTimesOut: a relay that does not leave is left.
StopTimesOutAlone ==
  /\ MainGoes("stopping", "end") /\ noted' = TRUE
  /\ UNCHANGED <<recordVars, once, relay, line, clean, endpoint, snap, waited>>

StopTimesOut ==
  /\ MainGoes("stopping", "stopped") /\ Killed /\ noted' = TRUE
  /\ UNCHANGED <<recordVars, once, line, clean, endpoint, snap, waited>>

RunOver == ~Alive /\ UNCHANGED telemetryVars

TelemetryInit ==
  /\ folder \in BOOLEAN /\ dest = "none" /\ active = FALSE /\ stopped = FALSE /\ known = FALSE /\ finished = FALSE
  /\ span = 0 /\ spans = 0 /\ pending = {} /\ kept = {} /\ abandoned = FALSE /\ handed = {} /\ calls = 0
  /\ at = [p \in Procs |-> IF p = "main" THEN "setup" ELSE "looking"] /\ snap = [p \in Procs |-> FALSE]
  /\ waited = 0 /\ crossed = FALSE
  /\ once = FALSE /\ relay = "none" /\ line = "none" /\ clean = FALSE /\ endpoint = FALSE /\ noted = FALSE

TelemetryNext ==
  \/ Setup \/ FolderAppears \/ Swap \/ StartRun \/ Batch \/ KillRun
  \/ \E p \in Procs : Read(p) \/ OpenSpan(p) \/ FlushSkipped(p) \/ FlushBegins(p) \/ Flushed(p) \/ FlushTimesOut(p)
  \/ Call \/ ChildEnv \/ LoopEnds \/ ReadAtEnd \/ Finish \/ Shutdown
  \/ RelaySkipped \/ StartRelay \/ RelayPrints \/ RelayExits \/ RelayReaped \/ RelayReady \/ RelayUnusable
  \/ RelayGone("unusable", "loop") \/ RelayGone("stopped", "end")
  \/ NothingToStop \/ AskRelay \/ RelayStopped \/ StopTimesOut \/ RunOver

TelemetrySpec == TelemetryInit /\ [][TelemetryNext]_telemetryVars

(* Properties *)

Under == at["main"] \in {"ready", "unusable", "loop", "calling", "stop", "stopping", "stopped", "end", "finishing", "ended"}

\* Unless telemetry began as the run was opening or between a snapshot and its use, or a flush took too
\* long, a run that is over has left nothing, or one start, one end and one span, which is the
\* one its children were told of (run.go:16-47, 136-163).
WholeOrNothing ==
  /\ at["main"] = "over" /\ ~crossed /\ ~abandoned =>
       kept = (IF spans = 0 THEN {} ELSE {<<"started", 1>>, <<"finished", 1>>, <<"span", 1>>})
  /\ ~crossed => handed \subseteq {1}

\* A run that is under way on telemetry and has waited for no flush in vain has its start in the
\* spool, so that it shows even if it is killed now (run.go:27-29).
StartIsKept ==
  Under /\ span # 0 /\ ~abandoned /\ at["search"] \in {"looking", "done"} => <<"started", span>> \in kept

\* What a run leaves is told apart from what a crash leaves, whenever telemetry begins.
RunIsRecorded == WholeOrNothing /\ StartIsKept

\* Telemetry costs a run one timeout at most; no relay that cannot be used, or outlived its stop,
\* is left; and one that went without a word had written what it took (telemetry.go:455-473,
\* relay.go:49-56, 155-190).
TelemetryStaysAside ==
  /\ waited <= 1
  /\ endpoint => line = "good"
  /\ at["main"] = "loop" /\ ~endpoint => relay \in {"none", "reaped"}
  /\ at["main"] \in {"end", "finishing", "ended", "over"} => relay \in {"none", "reaped"} /\ (endpoint /\ ~noted => clean)

\* No finished event is without a started one, and none is missing from a run that is over and has
\* a started one. The code lets both be: the snapshot is taken before the run's lock.
EventsPair ==
  at["main"] = "over" /\ ~abandoned =>
    {r[2] : r \in {r \in kept : r[1] = "started"}} = {r[2] : r \in {r \in kept : r[1] = "finished"}}
===============================================================================

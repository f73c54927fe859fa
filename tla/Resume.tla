----------------------------- MODULE Resume -----------------------------------
(* Which of the vendor's sessions a launch of ynh run is in: a new one, the     *)
(* newest of the directory, the one it names by id, or the one recorded for its *)
(* session name (cmd/ynh/run.go from launchSession on, internal/sessions, and   *)
(* what the vendors' adapters look up and refuse). A name is of one harness;    *)
(* which session of a directory is the newest is left open, so any may be.      *)
EXTENDS Naturals

CONSTANTS
    Launchers,    \* the processes of ynh
    Dirs,         \* the directories they are started in, told apart by every tool
    Names,        \* session names
    Tools,        \* [ binds, looksUp, talks ]: takes ids for new sessions; has a store ynh
                  \* can read; takes a prompt when a session is resumed to be stayed in
    Requests,     \* the launches there may be
    NoName,
    MaxStarts,    \* bound: launches
    MaxTroubles   \* bound: files that cannot be read or written, processes killed

Sessions == 1..MaxStarts
Keys == Dirs \X Names

ASSUME SessionsAssumption ==
  /\ NoName \notin Names
  /\ Tools \subseteq [ binds : BOOLEAN, looksUp : BOOLEAN, talks : BOOLEAN ]
  /\ \A t \in Tools : t.binds => t.looksUp
  /\ Requests \subseteq [ tool : Tools, dir : Dirs, name : Names \union {NoName}, resume : {"no", "newest", "this"},
                          prompt : {"typed", "focus", "none"}, stays : BOOLEAN, selector : BOOLEAN ]
  /\ \A r \in Requests : r.selector => r.tool.binds
  /\ MaxStarts \in Nat /\ MaxTroubles \in Nat

VARIABLES
    at, asked,   \* what each process is at, and what was asked of it
    chosen,      \* the session it has come to, 0 for the one the vendor takes
    bound,       \* $YNH_HOME/sessions: the session of each key, 0 if there is none
    owner,       \* the tool and the directory of each session
    stored,      \* the sessions that are in their tool's history
    made,        \* sessions that were given an id
    keysOf,      \* history: the keys each session was started for or given to
    heard,       \* history: the prompts it was sent, each with the launch that did
    began,       \* history: the launch each session began with
    ordinal,     \* history: which launch each process is at
    unsaved,     \* history: the keys whose last record could not be written
    lapsed,      \* history: processes whose session was removed after they looked
    starts, troubles

resumeVars == <<at, asked, chosen, bound, owner, stored, made, keysOf, heard, began, ordinal, unsaved, lapsed,
                 starts, troubles>>

Key(p) == <<asked[p].dir, asked[p].name>>
Owner(p) == <<asked[p].tool, asked[p].dir>>

\* A session name binds on a tool that takes ids, unless the caller selects a
\* session in arguments of the tool's own.
Binding(r) == r.tool.binds /\ r.name # NoName /\ ~r.selector

SessionExists(p, s) == s \in stored /\ owner[s] = Owner(p)

Come(p, to, s) == at' = [at EXCEPT ![p] = to] /\ chosen' = [chosen EXCEPT ![p] = s]

Store == <<bound, owner, stored, made, keysOf, heard, began, unsaved>>
-----------------------------------------------------------------------------
(* The command's decision *)

Route(r) ==
  CASE Binding(r) /\ r.resume = "no" -> "choose"
    [] Binding(r) /\ r.resume = "this" -> "adopt"
    [] Binding(r) /\ r.resume = "newest" -> "load"
    [] ~Binding(r) /\ r.resume = "no" -> "start"
    [] ~Binding(r) /\ r.resume = "newest" /\ r.tool.looksUp -> "search"
    [] OTHER -> "resume"

Launch(p, r, s) ==
  /\ at[p] = "idle" /\ starts < MaxStarts /\ starts' = starts + 1
  /\ IF r.resume = "this" THEN s \in 1..made ELSE s = 0
  /\ asked' = [asked EXCEPT ![p] = r] /\ ordinal' = [ordinal EXCEPT ![p] = starts']
  /\ Come(p, Route(r), s)
  /\ UNCHANGED <<Store, lapsed, troubles>>

\* The sessions a store says were had in this directory; any may be the newest.
Here(p) == { s \in stored : owner[s] = Owner(p) }

\* The tools without a store ynh can read never come here (ErrSessionLookupUnavailable).
ResolveLastSession(p) ==
  /\ at[p] = "search"
  /\ IF Here(p) = {} THEN Come(p, "start", 0) ELSE \E s \in Here(p) : Come(p, "resume", s)
  /\ UNCHANGED <<Store, asked, ordinal, lapsed, starts, troubles>>

Trouble == troubles < MaxTroubles /\ troubles' = troubles + 1

\* A history or a record that cannot be read is as none.
LookupFails(p) ==
  /\ at[p] \in {"search", "load", "verify"} /\ Trouble
  /\ Come(p, IF at[p] = "search" THEN "start" ELSE "choose", 0)
  /\ UNCHANGED <<Store, asked, ordinal, lapsed, starts>>
-----------------------------------------------------------------------------
(* Named sessions *)

Load(p) ==
  /\ at[p] = "load"
  /\ IF bound[Key(p)] = 0 THEN Come(p, "choose", 0) ELSE Come(p, "verify", bound[Key(p)])
  /\ UNCHANGED <<Store, asked, ordinal, lapsed, starts, troubles>>

\* Mutant of Verify: without the session it was to resume, the newest one here.
VerifyOrNewest(p) ==
  /\ at[p] = "verify"
  /\ IF SessionExists(p, chosen[p]) THEN Come(p, "resume", chosen[p]) ELSE Come(p, "search", 0)
  /\ UNCHANGED <<Store, asked, ordinal, lapsed, starts, troubles>>

\* Mutant of Verify: what is recorded is resumed.
TrustRecord(p) ==
  /\ at[p] = "verify"
  /\ Come(p, "resume", chosen[p])
  /\ UNCHANGED <<Store, asked, ordinal, lapsed, starts, troubles>>

Verify(p) ==
  /\ at[p] = "verify"
  /\ IF SessionExists(p, chosen[p]) THEN Come(p, "resume", chosen[p]) ELSE Come(p, "choose", 0)
  /\ UNCHANGED <<Store, asked, ordinal, lapsed, starts, troubles>>

\* Save replaces the record at once or not at all; that it did not stops nobody.
Bind(p, s) ==
  /\ keysOf' = [keysOf EXCEPT ![s] = @ \union {Key(p)}]
  /\ \/ bound' = [bound EXCEPT ![Key(p)] = s] /\ unsaved' = unsaved \ {Key(p)} /\ UNCHANGED troubles
     \/ Trouble /\ unsaved' = unsaved \union {Key(p)} /\ UNCHANGED bound

\* The record comes before the session does.
Choose(p) ==
  /\ at[p] = "choose"
  /\ LET s == made + 1 IN
       made' = s /\ owner' = [owner EXCEPT ![s] = Owner(p)] /\ Bind(p, s) /\ Come(p, "start", s)
  /\ UNCHANGED <<stored, heard, began, asked, ordinal, lapsed, starts>>

Adopt(p) ==
  /\ at[p] = "adopt"
  /\ IF SessionExists(p, chosen[p]) THEN Bind(p, chosen[p]) ELSE UNCHANGED <<bound, keysOf, unsaved, troubles>>
  /\ Come(p, "resume", chosen[p])
  /\ UNCHANGED <<owner, stored, made, heard, began, asked, ordinal, lapsed, starts>>
-----------------------------------------------------------------------------
(* The vendor *)

Said(p, s, prompts) ==
  heard' = [heard EXCEPT ![s] = @ \union (IF asked[p].prompt \in prompts THEN {<<asked[p].prompt, ordinal[p]>>} ELSE {})]

\* A new session, whose tool keeps it from its first message on, if there is one.
StartSession(p) ==
  /\ at[p] = "start"
  /\ ~asked[p].selector
  /\ LET s == IF chosen[p] = 0 THEN made + 1 ELSE chosen[p] IN
     /\ Come(p, "in", s)
     /\ made' = (IF s > made THEN s ELSE made) /\ owner' = [owner EXCEPT ![s] = Owner(p)]
     /\ began' = [began EXCEPT ![s] = ordinal[p]]
     /\ Said(p, s, {"typed", "focus"})
     /\ stored' \in {stored \union {s}} \union (IF asked[p].prompt = "none" THEN {stored} ELSE {})
  /\ UNCHANGED <<bound, keysOf, unsaved, asked, ordinal, lapsed, starts, troubles>>

\* A tool that takes no prompt with a session to stay in is not run.
Refused(p) == asked[p].prompt = "typed" /\ asked[p].stays /\ ~asked[p].tool.talks

\* By id the tool takes a session it has, if it takes ids one of this directory, and
\* without one the last it knows, which may be of another.
Resumable(p) ==
  { s \in stored : /\ owner[s][1] = asked[p].tool
                   /\ chosen[p] \in {0, s}
                   /\ asked[p].tool.binds => owner[s] = Owner(p) }

\* A focus prompt stays behind.
ResumeSession(p) ==
  /\ at[p] = "resume" /\ ~asked[p].selector
  /\ IF Refused(p) \/ Resumable(p) = {}
     THEN Come(p, "failed", chosen[p]) /\ UNCHANGED heard
     ELSE \E s \in Resumable(p) : Come(p, "in", s) /\ Said(p, s, {"typed"})
  /\ UNCHANGED <<bound, owner, stored, made, keysOf, began, unsaved, asked, ordinal, lapsed, starts, troubles>>

\* What becomes of a launch with two selectors, or with the caller's, is the tool's.
ToolSelects(p) ==
  /\ at[p] \in {"start", "resume"} /\ asked[p].selector
  /\ Come(p, "in", 0)
  /\ UNCHANGED <<Store, asked, ordinal, lapsed, starts, troubles>>

Leave(p) ==
  /\ Come(p, "idle", 0)
  /\ asked' = [asked EXCEPT ![p] = NoName] /\ ordinal' = [ordinal EXCEPT ![p] = 0]
  /\ lapsed' = lapsed \ {p}

SessionOver(p) ==
  /\ at[p] \in {"in", "failed"}
  /\ Leave(p)
  /\ UNCHANGED <<Store, starts, troubles>>

\* ynh dies before it has started the vendor.
KillLauncher(p) ==
  /\ at[p] \notin {"idle", "in", "failed"} /\ Trouble
  /\ Leave(p)
  /\ UNCHANGED <<Store, starts>>

\* The tool, or its user, lets a session go that nobody is in.
DropHistory(s) ==
  /\ s \in stored /\ \A p \in Launchers : at[p] = "in" => chosen[p] # s
  /\ stored' = stored \ {s}
  /\ lapsed' = lapsed \union { p \in Launchers : at[p] \in {"adopt", "resume"} /\ chosen[p] \in {0, s} }
  /\ UNCHANGED <<at, asked, chosen, bound, owner, made, keysOf, heard, began, ordinal, unsaved, starts, troubles>>

ResumeInit ==
  /\ at = [p \in Launchers |-> "idle"] /\ asked = [p \in Launchers |-> NoName]
  /\ chosen = [p \in Launchers |-> 0] /\ bound = [k \in Keys |-> 0]
  /\ owner = [s \in Sessions |-> NoName] /\ stored = {} /\ made = 0
  /\ keysOf = [s \in Sessions |-> {}] /\ heard = [s \in Sessions |-> {}] /\ began = [s \in Sessions |-> 0]
  /\ ordinal = [p \in Launchers |-> 0] /\ unsaved = {} /\ lapsed = {} /\ starts = 0 /\ troubles = 0

ResumeStep(p) ==
  \/ \E r \in Requests, s \in 0..made : Launch(p, r, s)
  \/ ResolveLastSession(p) \/ LookupFails(p) \/ Load(p) \/ Verify(p) \/ Choose(p) \/ Adopt(p)
  \/ StartSession(p) \/ ResumeSession(p) \/ ToolSelects(p) \/ SessionOver(p) \/ KillLauncher(p)

ResumeNext == (\E p \in Launchers : ResumeStep(p)) \/ \E s \in Sessions : DropHistory(s)

ResumeSpec == ResumeInit /\ [][ResumeNext]_resumeVars
-----------------------------------------------------------------------------
(* Properties *)

\* A launch with a session name is never in a session that was not started for the
\* name, or given to it by id, whoever else is launched here and whatever the
\* history lost (run.go:669-730). Without a name it is in one of its own directory,
\* where the tool has a store. And a session is sent a focus prompt by the launch
\* that began it alone, however often the command is repeated with --resume, and a
\* typed prompt by each that has one (run.go:575-587).
ResumesItsOwn ==
  /\ \A p \in Launchers :
       at[p] = "in" /\ ~asked[p].selector =>
         /\ Binding(asked[p]) /\ asked[p].resume # "this" => Key(p) \in keysOf[chosen[p]]
         /\ asked[p].tool.looksUp /\ asked[p].resume # "this" => owner[chosen[p]] = Owner(p)
         /\ asked[p].prompt = "typed" => <<"typed", ordinal[p]>> \in heard[chosen[p]]
  /\ \A s \in Sessions, n \in 1..MaxStarts : <<"focus", n>> \in heard[s] => began[s] = n

\* A launch comes to nothing only for a prompt its tool refuses, an id its caller
\* gave, a tool whose history ynh cannot read, or a session that was removed since
\* ynh looked: nothing a killed launch, another launch or a lost record left
\* behind keeps a resume from starting (run.go:723-765).
ResumeStarts ==
  \A p \in Launchers :
    at[p] = "failed" => Refused(p) \/ asked[p].resume = "this" \/ ~asked[p].tool.looksUp \/ p \in lapsed

\* Every launch comes to the session it should, or to a new one.
LaunchesArrive == ResumesItsOwn /\ ResumeStarts

\* What launchBound prints of a record it could not write: "a later --resume will
\* start a new session" (run.go:691).
UnsavedStartsAnew ==
  \A p \in Launchers :
    at[p] = "resume" /\ Binding(asked[p]) /\ asked[p].resume = "newest" => Key(p) \notin unsaved

\* What conflictingSessionFlag says: beside a selector in the caller's own
\* arguments ynh adds none (run.go:652).
OneSelector == \A p \in Launchers : at[p] = "resume" => ~asked[p].selector
=============================================================================

------------------------------- MODULE Session -------------------------------
(* What a session of a harness carries, and what the operator has accepted of  *)
(* it. The harness's manifest is composed with what its includes bring: the    *)
(* profile first (harness.ResolveProfile), then the hooks                      *)
(* (assembler.ComposeHooks) and the MCP servers (harness.ComposeMCPServersRaw).*)
(* ynh trust lists what any profile would run and keeps a digest of the list   *)
(* the operator accepted (cmd/ynh/trust.go), while the manifest is edited and  *)
(* the includes are fetched again.                                             *)
(*                                                                             *)
(* The includes are harnesses without includes of their own: IncludeGraph has  *)
(* the walk of a whole graph. Hooks and servers stand for all that is listed.  *)
EXTENDS Manifest

CONSTANTS
    Versions,   \* what an include's branch may hold
    Failed,     \* no session: an include that cannot be read, or a conflict
    Brings      \* [Sources -> [Versions -> [ hooks, mcp ]]], the harness at a source's root

ASSUME BringsAssumption ==
  /\ Failed # None
  /\   Brings \in [Sources -> [Versions -> [ hooks : [Events -> Seq(Commands)], mcp : [Servers -> {Absent} \union Definitions] ]]]

VARIABLES
    cached,     \* the version of each source in the cache, or None
    record      \* what the operator accepted, or None

sessionVars == <<manifestVars, cached, record>>

-----------------------------------------------------------------------------
(* harness.ResolveProfile: the harness as a profile has it *)

Base(m) ==
  [ hooks |-> m.top.hooks, mcp |-> Unmarshal(m).top.mcp, removals |-> Removals(m), includes |-> m.top.includes ]

\* Field by field, what the profile sets; nothing validates the result.
Merge(own, def) == IF own = Absent THEN def ELSE
  [ command |-> IF def.command = None THEN own.command ELSE def.command,
    url     |-> IF def.url = None THEN own.url ELSE def.url ]

\* Mutant of ProfileRemovals: a null of a profile only drops the harness's own.
KeptRemovals(base, mcp) == base.removals

\* A null removes what an include brings as well; a server declared again comes back.
ProfileRemovals(base, mcp) ==
  { s \in base.removals : mcp[s] = Absent } \union { s \in Servers : mcp[s] = Null }

ResolveProfile(base, prof) ==
  [ hooks    |-> [e \in Events |-> IF prof.hooks[e] = <<>> THEN base.hooks[e] ELSE prof.hooks[e]],
    mcp      |-> [s \in Servers |-> CASE prof.mcp[s] = Null -> Absent
                                      [] prof.mcp[s] = Absent -> base.mcp[s]
                                      [] OTHER -> Merge(base.mcp[s], prof.mcp[s])],
    removals |-> ProfileRemovals(base, prof.mcp),
    includes |-> base.includes \o prof.includes ]

Views(m) == {Top} \union { s \in Profiles : m.profiles[s] # None }
View(m, s) == IF s = Top THEN Base(m) ELSE ResolveProfile(Base(m), m.profiles[s])
-----------------------------------------------------------------------------
(* What the includes bring *)

\* The harnesses included, once each and in content order. One whose cache is
\* empty cannot be read.
Roots(view) == KeptAt(view.includes, { i \in DOMAIN view.includes : view.includes[i].path = NoPath })
Included(view) ==
  LET roots == Roots(view)
      firsts == KeptAt(roots, { i \in DOMAIN roots : \A j \in DOMAIN roots : roots[j].src = roots[i].src => i <= j })
  IN [i \in DOMAIN firsts |-> firsts[i].src]
Readable(view) == \A i \in DOMAIN view.includes : cached[view.includes[i].src] # None
Brought(src) == Brings[src][cached[src]]

\* Every include of a harness must consent to its hooks.
Consents(view, src) == \A i \in DOMAIN Roots(view) : Roots(view)[i].src = src => Roots(view)[i].hooks

\* ComposeHooks: those of the includes first, the harness's own last; each with
\* its source, Top for the harness.
Tagged(src, hooks) == [i \in DOMAIN hooks |-> [ cmd |-> hooks[i], src |-> src ]]
Active(view) == LET all == Included(view) IN KeptAt(all, { i \in DOMAIN all : Consents(view, all[i]) })
HooksOf(view, e) ==
  LET active == Active(view)
  IN Append([i \in DOMAIN active |-> Tagged(active[i], Brought(active[i]).hooks[e])], Tagged(Top, view.hooks[e]))

\* Lists one after another.
Joined(lists) ==
  LET at == UNION { {i} \X DOMAIN lists[i] : i \in DOMAIN lists }
      upto(p) == { q \in at : q[1] < p[1] \/ (q[1] = p[1] /\ q[2] <= p[2]) }
  IN [k \in 1..Cardinality(at) |-> LET place == CHOOSE q \in at : Cardinality(upto(q)) = k IN lists[place[1]][place[2]]]

ComposeHooks(view) == [e \in Events |-> Joined(HooksOf(view, e))]

\* composeMCP: the harness's own wins, includes must agree on the others, and a
\* removal takes whatever is left.
Offers(view, s) == { src \in ToSet(Included(view)) : Brought(src).mcp[s] # Absent }
Skipped(view, s) == view.mcp[s] # Absent \/ s \in view.removals
Conflict(view) == \E s \in Servers : ~Skipped(view, s) /\
  \E a, b \in Offers(view, s) : Brought(a).mcp[s] # Brought(b).mcp[s]

FirstOffer(view, s) == LET all == Included(view) IN all[First({ i \in DOMAIN all : all[i] \in Offers(view, s) })]
ComposeMCP(view) == [s \in Servers |->
  IF s \in view.removals THEN Absent
  ELSE IF view.mcp[s] # Absent THEN [ def |-> view.mcp[s], src |-> Top ]
  ELSE IF Offers(view, s) = {} THEN Absent
  ELSE [ def |-> Brought(FirstOffer(view, s)).mcp[s], src |-> FirstOffer(view, s) ]]

\* What a run in a view carries, or Failed where it does not start.
Carries(m, s) ==
  IF Readable(View(m, s)) /\ ~Conflict(View(m, s))
  THEN [ hooks |-> ComposeHooks(View(m, s)), mcp |-> ComposeMCP(View(m, s)) ]
  ELSE [ hooks |-> Failed, mcp |-> Failed ]
-----------------------------------------------------------------------------
(* ynh trust *)

\* A profile's view lists only what the harness's own does not: a hook by event
\* and command, a server by all it is and where it comes from.
HookKey(e, h) == <<e, h.cmd>>
BaseKeys(base) == UNION { { HookKey(e, base.hooks[e][i]) : i \in DOMAIN base.hooks[e] } : e \in Events }

ListedBeside(base, carried) ==
  [ hooks |-> [e \in Events |-> LET list == carried.hooks[e]
                                IN KeptAt(list, { i \in DOMAIN list : HookKey(e, list[i]) \notin BaseKeys(base) })],
    mcp   |-> [s \in Servers |-> IF carried.mcp[s] = base.mcp[s] THEN Absent ELSE carried.mcp[s]] ]

NothingListed == [ hooks |-> [e \in Events |-> <<>>], mcp |-> Nothing ]

\* Mutant of InView: the harness as it is run without a profile.
OnlyTop(s) == s = Top

InView(s) == s \in Scopes

\* All that is listed, which the digest tells apart, or None where some view
\* cannot be read: a digest of a part would pass for the whole.
HarnessExecutables(m) ==
  LET carried == [s \in Views(m) |-> Carries(m, s)]
  IN IF \E s \in Views(m) : carried[s].hooks = Failed THEN None
     ELSE [s \in Scopes |-> IF s \notin Views(m) \/ ~InView(s) THEN NothingListed
                            ELSE IF s = Top THEN carried[Top] ELSE ListedBeside(carried[Top], carried[s])]

Accepted == disk # Torn /\ record # None /\ record = HarnessExecutables(disk)

\* What is recorded is what is read now, whatever was shown before.
TrustAccept ==
  /\ disk # Torn
  /\ LET now == HarnessExecutables(disk)
     IN now \notin {None, record} /\ record' = now
  /\ UNCHANGED <<manifestVars, cached>>

\* An update or a run brings the cache to what the branch holds now; a pruned
\* cache is empty.
Fetch(src) ==
  /\ \E v \in Versions \union {None} : cached' = [cached EXCEPT ![src] = v]
  /\ UNCHANGED <<manifestVars, record>>

SessionInit == ManifestInit /\ cached \in [Sources -> {None} \union Versions] /\ record = None

SessionNext ==
  \/ ManifestNext /\ UNCHANGED <<cached, record>>
  \/ TrustAccept
  \/ \E src \in Sources : Fetch(src)

SessionSpec == SessionInit /\ [][SessionNext]_sessionVars
-----------------------------------------------------------------------------
(* Properties *)

ItemsOf(list) ==
  (UNION { { <<e, list.hooks[e][i].cmd>> : i \in DOMAIN list.hooks[e] } : e \in Events })
    \union { <<s, list.mcp[s]>> : s \in { n \in Servers : list.mcp[n] # Absent } }

\* What ynh trust calls accepted covers every run: whichever of its profiles the
\* harness is run with, each hook and each server was on the list the operator
\* accepted, though a profile's list holds only what the harness's lacks.
AcceptedCoversRuns ==
  Accepted =>
    LET listed == UNION { ItemsOf(record[v]) : v \in Scopes }
    IN \A s \in Views(disk) : ItemsOf(Carries(disk, s)) \subseteq listed

\* A server the profile sets to null, or the harness does and the profile does
\* not declare again, is in no session of that view, whichever include brings it.
NulledStaysOut ==
  disk # Torn => \A v \in Views(disk) :
    LET carried == Carries(disk, v).mcp IN \A s \in Servers :
      LET declared == IF v = Top THEN Absent ELSE disk.profiles[v].mcp[s]
      IN (declared = Null \/ (declared = Absent /\ disk.top.mcp[s] = Null)) => (carried = Failed \/ carried[s] = Absent)

\* What plugin.ValidateMCPServers asks of each server holds of those a session
\* carries.
ServersComposeValid ==
  disk # Torn => \A v \in Views(disk), s \in Servers :
    Carries(disk, v).mcp # Failed => (Carries(disk, v).mcp[s] # Absent => Valid(Carries(disk, v).mcp[s].def))
=============================================================================

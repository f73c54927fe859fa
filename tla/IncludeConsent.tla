--------------------------- MODULE IncludeConsent ---------------------------
(***************************************************************************)
(* What walkIncludes makes of the routes the walk has recorded: which MCP  *)
(* servers the nulls of the harnesses on its routes remove from an include *)
(* (removedFrom), then whether its hooks may run (hooksConsent).  Both     *)
(* recurse over the recorded parents with a memo, in the order the walk    *)
(* met them: here the calls of the recursion are a stack, and what a call  *)
(* does between two others is a step.  Beside them stands what the docs    *)
(* promise of it, said of the graph and without any order.                 *)
(***************************************************************************)
EXTENDS IncludeGraph

CONSTANTS
  Nulls      \* harnesses that set the server to null

ASSUME NullsAssumption == Nulls \subseteq SUBSET Harnesses

VARIABLES
  nulls,     \* the harnesses whose null removes the server, fixed
  about,     \* what the routes are asked about: "servers", "hooks", then "done"
  item,      \* the contribution whose routes are being asked
  calls,     \* the recursion, the call under way last
  asked,     \* the memo: what it holds an answer for,
  granted,   \* and of that, where the answer is yes
  active,    \* harnesses whose hooks may run
  removed    \* contributions the server is removed from

answering   == <<about, item, calls, asked, granted>>
consentVars == <<vars, nulls, answering, active, removed>>

------------------------------------------------------------------------------
(* The routes of a contribution *)

\* Mutant: a direct include is one route among the others.
AllLinks(id) == DOMAIN hookLinks[id]

\* The root's own includes of id decide alone, where there are any.
DecidingLinks(id) ==
  LET direct == { k \in DOMAIN hookLinks[id] : hookLinks[id][k].parent = Root }
  IN IF direct # {} THEN direct ELSE DOMAIN hookLinks[id]

\* Hooks are asked about by identity, servers by contribution.
Question(n) == IF about = "hooks" THEN Whole(n.id) ELSE n

Ways(q)        == IF about = "hooks" THEN DecidingLinks(q.id) ELSE DOMAIN parents[q]
ParentAt(q, k) == IF about = "hooks" THEN hookLinks[q.id][k].parent ELSE parents[q][k]

\* The root's hooks may run, and no null removes a server from it.
Known(q)   == q = Whole(Root) \/ q \in asked
Granted(q) == IF q = Whole(Root) THEN about = "hooks" ELSE q \in granted

\* What a route says, given what the harness it comes from was granted.
Says(q, k, given) ==
  IF about = "hooks" THEN hookLinks[q.id][k].hooks /\ given
  ELSE given \/ (ParentAt(q, k) # Root /\ ParentAt(q, k) \in nulls)

\* Mutant: one route is enough.
Widen(common, route) == common \/ route

\* One that says no wins.
Narrow(common, route) == common /\ route

------------------------------------------------------------------------------
(* hooksConsent and removedFrom *)

Call(q) == [of |-> q, left |-> Ways(q), common |-> Ways(q) # {}]

Current  == calls[Len(calls)]
Way  == CHOOSE k \in Current.left : \A j \in Current.left : k <= j
From == Whole(ParentAt(Current.of, Way))

\* hooksConsent stops at the first link that says no.
Decided  == Current.left = {} \/ (about = "hooks" /\ ~Current.common)
Withheld == about = "hooks" /\ ~hookLinks[Current.of.id][Way].hooks

Calling == status = "resolved" /\ about # "done" /\ calls # <<>>
Between == status = "resolved" /\ about # "done" /\ calls = <<>>

\* The memo says no until the call has returned.
Ask(q) ==
  /\ ~Known(q)
  /\ calls' = Append(calls, Call(q)) /\ asked' = asked \union {q}
  /\ UNCHANGED <<vars, nulls, about, item, granted, active, removed>>

AskParent ==
  /\ Calling /\ ~Decided /\ ~Withheld
  /\ Ask(From)

Heard ==
  [Current EXCEPT !.left = @ \ {Way},
                  !.common = Narrow(@, Says(Current.of, Way, Granted(From)))]

Hear ==
  /\ Calling /\ ~Decided /\ (Withheld \/ Known(From))
  /\ calls' = [calls EXCEPT ![Len(calls)] = Heard]
  /\ UNCHANGED <<vars, nulls, about, item, asked, granted, active, removed>>

Reply ==
  /\ Calling /\ Decided
  /\ granted' = granted \union (IF Current.common THEN {Current.of} ELSE {})
  /\ calls' = SubSeq(calls, 1, Len(calls) - 1)
  /\ UNCHANGED <<vars, nulls, about, item, asked, active, removed>>

------------------------------------------------------------------------------
(* applyRemovals and applyHooksConsent, in contribution order *)

OfHarness == results[item].id \in Harnesses

AskItem ==
  /\ Between /\ item <= Len(results) /\ OfHarness
  /\ Ask(Question(results[item]))

ApplyItem ==
  /\ Between /\ item <= Len(results) /\ (OfHarness => Known(Question(results[item])))
  /\ LET yes == OfHarness /\ Granted(Question(results[item]))
     IN /\ removed' = IF about = "servers" /\ yes THEN removed \union {results[item]} ELSE removed
        /\ active'  = IF about = "hooks" /\ yes THEN active \union {results[item].id} ELSE active
  /\ item' = item + 1
  /\ UNCHANGED <<vars, nulls, about, calls, asked, granted>>

\* Each has a memo of its own.
AppliedAll ==
  /\ Between /\ item > Len(results)
  /\ about' = IF about = "servers" THEN "hooks" ELSE "done"
  /\ item' = 1 /\ asked' = {} /\ granted' = {}
  /\ UNCHANGED <<vars, nulls, calls, active, removed>>

Walk ==
  /\ \/ CannotLoad \/ TwoVersions \/ IncludesItself
     \/ TakePackage \/ SkipCycle \/ TakePick \/ MeetAgain \/ Descend \/ Return \/ Finish
  /\ UNCHANGED <<nulls, answering, active, removed>>

ConsentInit ==
  /\ Init /\ nulls \in Nulls
  /\ about = "servers" /\ item = 1 /\ calls = <<>> /\ asked = {} /\ granted = {}
  /\ active = {} /\ removed = {}
ConsentNext == Walk \/ AskItem \/ ApplyItem \/ AppliedAll \/ AskParent \/ Hear \/ Reply
ConsentSpec == ConsentInit /\ [][ConsentNext]_consentVars

------------------------------------------------------------------------------
(* Properties *)

Answered == status = "resolved" /\ about = "done"
Over     == status # "walking" /\ (status = "resolved" => about = "done")

\* The includes that are routes: those of the harnesses whole includes reach,
\* but for the ones skipped because they close a cycle.
Routes ==
  { r \in UNION { { <<p, includes[p][i]>> : i \in 1..Len(includes[p]) } :
                    p \in { h \in Harnesses : Reaches(Root, h) } } :
      r[2].pick \/ <<r[1], r[2].to>> \notin notes }

\* No cycle is left among the routes: a pick closes one where the harness it
\* picks from leads back to it, by whole includes or by other picks.
NoPickClosesACycle(routes) ==
  \A S \in SUBSET (Harnesses \ {Root}) :
    S # {} => \E h \in S : \A r \in routes : r[2].to = h => r[1] \notin S

\* The least set of harnesses closed under Step: the members of all that are.
Least(Step(_)) ==
  { h \in Harnesses : \A S \in SUBSET Harnesses : Step(S) \subseteq S => h \in S }

\* What says no to hooks: a direct include without them; or, of a harness the
\* root does not include itself, a link without them or from one refused.
Decides(routes, r) == (\E q \in routes : q[1] = Root /\ q[2].to = r[2].to) => r[1] = Root

Refused(routes) ==
  Least(LAMBDA S : { h \in Harnesses \ {Root} :
                       \E r \in routes : /\ r[2].to = h /\ Decides(routes, r)
                                         /\ ~r[2].hooks \/ r[1] \in S })

\* docs/harnesses.md, "When routes disagree": hooks run only if every route says
\* so at every link, and a direct include by the root is the final word, in
\* whatever order the includes are listed; and then they do run, unless picks
\* have harnesses vouch for each other.
ConsentOnEveryRoute ==
  Answered =>
    LET refused == Refused(Routes)
    IN \A n \in Contributed :
         n.id \in Harnesses \ {Root} =>
           /\ n.id \in active => n.id \notin refused
           /\ NoPickClosesACycle(Routes) => (n.id \notin refused => n.id \in active)

\* The routes that keep the server: those from the root, and from a harness
\* that keeps it and does not set it to null itself.
Keeps(p, S) == p = Root \/ (p \in S /\ p \notin nulls)

Keepers(routes) ==
  Least(LAMBDA S : { h \in Harnesses :
                       \E r \in routes : r[2].to = h /\ ~r[2].pick /\ Keeps(r[1], S) })

\* docs/mcp.md: a harness reached by more than one route loses a server "only
\* when every route removes it", in whatever order the includes are listed.
RemovedOnEveryRoute ==
  Answered =>
    LET routes  == Routes
        keepers == Keepers(routes)
    IN \A n \in Contributed : n.id \in Harnesses =>
         (n \in removed <=>
            ~\E r \in routes : /\ r[2].to = n.id /\ r[2].pick = n.pick
                               /\ Keeps(r[1], keepers))

\* What a harness may run, and which servers it keeps, is decided by every route
\* to it: by none that was forgotten, and by none twice.
EveryRouteCounts == ConsentOnEveryRoute /\ RemovedOnEveryRoute

\* resolver.go on HooksActive: hooks may run when "every route to it says
\* hooks: true at every link", so a graph that says so everywhere runs all.
ConsentEverywhereRunsAll ==
  (Answered /\ \A r \in Routes : r[2].hooks) =>
    \A n \in Contributed : n.id \in Harnesses => n.id \in active
=============================================================================

---------------------------- MODULE DelegateGraph ----------------------------
(* The delegates of a harness, flattened (resolver.FlattenDelegates): a walk,  *)
(* breadth first, over the delegates_to of the root and of every harness it    *)
(* leads to. Each harness reached becomes one agent, however many declare it;  *)
(* the root becomes none, and no harness is its own delegate. A harness is     *)
(* known by where its directory came from, so that two clones of it are one.   *)
EXTENDS Naturals, SequencesExt

CONSTANTS
    Dirs,        \* directories of harnesses, clones among them
    Root,        \* the directory of the harness that runs
    Identity,    \* [Dirs -> ...], where a directory came from
    Names,
    NameOf,      \* [Dirs -> Names]
    Selections,  \* the profile or focus an entry names; None is one of them
    None,
    Offers,      \* [Dirs -> SUBSET Selections], those a harness declares
    Graphs       \* the delegates_to of each directory

Entries == [ to : Dirs, sel : Selections ]

ASSUME DelegateAssumption ==
  /\ Root \in Dirs /\ None \in Selections
  /\ DOMAIN Identity = Dirs /\ NameOf \in [Dirs -> Names]
  /\ Offers \in [Dirs -> SUBSET Selections] /\ \A d \in Dirs : None \in Offers[d]
  /\ Graphs \subseteq [Dirs -> Seq(Entries)]
  \* What came from one place declares the same, wherever it was cloned to.
  /\ \A g \in Graphs, d, e \in Dirs : Identity[d] = Identity[e] =>
       /\ NameOf[d] = NameOf[e] /\ Offers[d] = Offers[e] /\ DOMAIN g[d] = DOMAIN g[e]
       /\ \A k \in DOMAIN g[d] : g[d][k].sel = g[e][k].sel /\ Identity[g[d][k].to] = Identity[g[e][k].to]

VARIABLES
    graph,
    queue,     \* the entries still to look at, each with the agent that declares it, or 0
    out,       \* the agents so far: directory, selection, the names each declares
    walk       \* "idle", "walking", "flat", or "refused"

walkVars == <<graph, queue, out, walk>>

\* The entries of a harness, as declared by agent number i.
Declares(g, d, i) == [k \in DOMAIN g[d] |-> [ entry |-> g[d][k], parent |-> i ]]

StartWalk ==
  /\ queue' = Declares(graph, Root, 0) /\ out' = <<>> /\ walk' = "walking"
  /\ UNCHANGED graph

-----------------------------------------------------------------------------
Next1 == Head(queue)
To == Next1.entry.to
Sel == Next1.entry.sel
Parent == Next1.parent

\* Two directories hold one harness if they came from one place, through however
\* many clones of clones.
Same(d, e) == Identity[d] = Identity[e]

\* The root, by where it came from or by its name.
IsRoot(d) == Same(d, Root) \/ NameOf[d] = NameOf[Root]

IsOwn(i, d) == i # 0 /\ Same(out[i].dir, d)

Seen(d) == { i \in DOMAIN out : Same(out[i].dir, d) }
Namesakes(d) == { i \in DOMAIN out : NameOf[out[i].dir] = NameOf[d] }

\* The agent names the delegate it declares, once.
Declare(agents, i, name) ==
  IF i = 0 \/ Contains(agents[i].declared, name) THEN agents
  ELSE [agents EXCEPT ![i].declared = Append(@, name)]

Walking == walk = "walking" /\ queue # <<>>
Skipped == IsRoot(To) \/ IsOwn(Parent, To)

Skip ==
  /\ Walking /\ Skipped
  /\ queue' = Tail(queue)
  /\ UNCHANGED <<graph, out, walk>>

\* Mutant of Meet: the first selection stands.
MeetAnyway ==
  /\ Walking /\ ~Skipped /\ Sel \in Offers[To] /\ Seen(To) # {}
  /\ out' = Declare(out, Parent, NameOf[To])
  /\ queue' = Tail(queue)
  /\ UNCHANGED <<graph, walk>>

\* Another way to a harness that is there, selected as it was.
Meet ==
  /\ Walking /\ ~Skipped /\ Sel \in Offers[To]
  /\ \E i \in Seen(To) :
       /\ out[i].sel = Sel
       /\ out' = Declare(out, Parent, NameOf[To])
  /\ queue' = Tail(queue)
  /\ UNCHANGED <<graph, walk>>

Reach ==
  /\ Walking /\ ~Skipped /\ Sel \in Offers[To]
  /\ Seen(To) = {} /\ Namesakes(To) = {}
  /\ LET agent == [ dir |-> To, sel |-> Sel, declared |-> <<>> ]
     IN /\ out' = Declare(Append(out, agent), Parent, NameOf[To])
        /\ queue' = Tail(queue) \o Declares(graph, To, Len(out) + 1)
  /\ UNCHANGED <<graph, walk>>

\* A selection the harness does not declare, two selections of one harness, two
\* harnesses of one name: no agent can be both.
Clash ==
  \/ Sel \notin Offers[To]
  \/ \E i \in Seen(To) : out[i].sel # Sel
  \/ Seen(To) = {} /\ Namesakes(To) # {}

Refuse ==
  /\ Walking /\ ~Skipped /\ Clash
  /\ walk' = "refused"
  /\ UNCHANGED <<graph, queue, out>>

\* A source that cannot be fetched or read.
CannotResolve ==
  /\ Walking
  /\ walk' = "refused"
  /\ UNCHANGED <<graph, queue, out>>

Flat ==
  /\ walk = "walking" /\ queue = <<>>
  /\ walk' = "flat"
  /\ UNCHANGED <<graph, queue, out>>

WalkNext == Skip \/ Meet \/ Reach \/ Refuse \/ CannotResolve \/ Flat

-----------------------------------------------------------------------------
(* Properties *)

\* What the root's delegates lead to, the root left out, as the least set that
\* holds them and the delegates of each of its members.
Leads(S) == UNION { { graph[d][k].to : k \in DOMAIN graph[d] } : d \in S }
Agents(S) == { d \in S : ~IsRoot(d) }
Closed(S) == Agents(Leads({Root})) \subseteq S /\ Agents(Leads(S)) \subseteq S
Reached == { d \in Dirs : \A S \in SUBSET Dirs : Closed(S) => d \in S }

\* Every harness the delegates lead to is one agent, in whichever order they are
\* declared and by however many ways: none is left out, none is there twice,
\* the root is none, and all who delegate to a harness select it the same way,
\* whichever of them the walk met first.
OneAgentEach ==
  /\ { Identity[out[i].dir] : i \in DOMAIN out } = { Identity[d] : d \in Reached }
  /\ \A i, j \in DOMAIN out :
       Identity[out[i].dir] = Identity[out[j].dir] \/ NameOf[out[i].dir] = NameOf[out[j].dir] => i = j
  /\ \A d \in Reached \union {Root} : \A k \in DOMAIN graph[d] : LET e == graph[d][k] IN
       Identity[d] # Identity[e.to] => \A i \in Seen(e.to) : out[i].sel = e.sel

\* What an agent is told it may hand its work to is an agent of the session, and is
\* neither itself nor the root.
HandsToAgents ==
  \A i \in DOMAIN out : \A k \in DOMAIN out[i].declared :
    /\ out[i].declared[k] \notin { NameOf[out[i].dir], NameOf[Root] }
    /\ \E j \in DOMAIN out : NameOf[out[j].dir] = out[i].declared[k]

\* Delegates flattened, whatever cycles, clones and shared ones they form, are a set
\* of agents each of which may hand work to the others it declares.
FlatDelegates == walk = "flat" => OneAgentEach /\ HandsToAgents
=============================================================================

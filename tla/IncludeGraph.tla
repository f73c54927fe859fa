---------------------------- MODULE IncludeGraph ----------------------------
(***************************************************************************)
(* The walk of internal/resolver over a harness's include graph            *)
(* (includeResolver.resolve): depth first in listing order, every harness  *)
(* once, an include of a harness already on the chain skipped with a note, *)
(* a picked include taken without its own includes, one source at one      *)
(* version.  A harness is its identity (a directory, or a repository,      *)
(* subpath and commit); a pick is any one selection of its artifacts.      *)
(***************************************************************************)
EXTENDS Integers, Sequences

CONSTANTS
  Harnesses,    \* identities of harnesses
  Root,         \* the harness being resolved
  Packages,     \* identities of plain artifact packages
  Local,        \* the source of whatever is not in git
  Graphs,       \* includes of every harness, in the order it lists them
  SourceMaps    \* the repository and subpath each identity comes from

Targets == Harnesses \union Packages
Entries == [to : Targets, hooks : BOOLEAN, pick : BOOLEAN]

ASSUME GraphAssumption ==
  /\ Root \in Harnesses
  /\ Harnesses \intersect Packages = {}
  /\ Graphs \subseteq [Harnesses -> Seq(Entries)]

VARIABLES
  includes,   \* the graph, fixed
  source,     \* where each identity comes from, fixed
  status,     \* "walking", "resolved", or why the walk was given up
  chain,      \* harnesses from the root to the one being read, and how far
  results,    \* contributions, dependencies first
  done,       \* contributions made: of whole harnesses and of picks
  parents,    \* who included each contribution, in the order met
  hookLinks,  \* the same for each harness, with what the include says of hooks
  notes,      \* includes skipped because they close a cycle
  met         \* identities a version has been recorded for

graph == <<includes, source>>
found == <<results, done, parents, hookLinks>>
vars  == <<graph, status, chain, found, notes, met>>

Whole(h)  == [id |-> h, pick |-> FALSE]
Picked(h) == [id |-> h, pick |-> TRUE]
Nodes     == [id : Targets, pick : BOOLEAN]
Links     == [parent : Harnesses, hooks : BOOLEAN]

Depth    == Len(chain)
Parent   == chain[Depth].id

OnChain == { chain[i].id : i \in 1..Depth }

Listed   == chain[Depth].next \in 1..Len(includes[Parent])
Inc      == includes[Parent][chain[Depth].next]
Advanced == [chain EXCEPT ![Depth].next = @ + 1]

Refuse(why) == status' = why /\ UNCHANGED <<graph, chain, found, notes, met>>

------------------------------------------------------------------------------
(* One include of the harness at the end of the chain *)

\* checkVersion: another identity of the same git source has been met.
AtAnotherVersion(id) ==
  source[id] # Local /\ \E first \in met : first # id /\ source[first] = source[id]

\* resolveOne or LoadDir fails: the source is refused, missing or invalid.
CannotLoad ==
  /\ status = "walking" /\ Listed
  /\ Refuse("unloadable")

TwoVersions ==
  /\ status = "walking" /\ Listed
  /\ AtAnotherVersion(Inc.to)
  /\ Refuse("two versions")

\* The include is read, and the next one is up.
Read ==
  /\ status = "walking" /\ Listed
  /\ ~AtAnotherVersion(Inc.to)
  /\ met' = met \union {Inc.to}
  /\ UNCHANGED <<graph, status>>

\* A directory that holds no manifest contributes its artifacts.
TakePackage ==
  /\ Read
  /\ Inc.to \in Packages
  /\ results' = Append(results, [id |-> Inc.to, pick |-> Inc.pick])
  /\ chain' = Advanced
  /\ UNCHANGED <<done, parents, hookLinks, notes>>

ClosesCycle == Inc.to \in OnChain /\ ~Inc.pick

IncludesItself ==
  /\ status = "walking" /\ Listed
  /\ ~AtAnotherVersion(Inc.to)
  /\ ClosesCycle /\ Inc.to = Parent
  /\ Refuse("includes itself")

SkipCycle ==
  /\ Read
  /\ ClosesCycle /\ Inc.to # Parent
  /\ notes' = notes \union {<<Parent, Inc.to>>}
  /\ chain' = Advanced
  /\ UNCHANGED found

\* The include is a route to node: recorded whether or not it was met before.
Record(node) ==
  /\ hookLinks' = [hookLinks EXCEPT ![node.id] =
                     Append(@, [parent |-> Parent, hooks |-> Inc.hooks])]
  /\ parents' = [parents EXCEPT ![node] = Append(@, Parent)]

\* A picked include is contributed once, and its own includes not followed.
TakePick ==
  /\ Read
  /\ Inc.to \in Harnesses /\ Inc.pick
  /\ Record(Picked(Inc.to))
  /\ results' = IF Picked(Inc.to) \in done THEN results
                ELSE Append(results, Picked(Inc.to))
  /\ done' = done \union {Picked(Inc.to)}
  /\ chain' = Advanced
  /\ UNCHANGED notes

\* Mutant: a pick of a harness stands for the whole of it.
ContributedAtAll(id) == \E n \in done : n.id = id

ContributedWhole(id) == Whole(id) \in done

\* A harness that is already contributed gains a route, nothing else.
MeetAgain ==
  /\ Read
  /\ Inc.to \in Harnesses /\ ~Inc.pick /\ ~ClosesCycle
  /\ ContributedWhole(Inc.to)
  /\ Record(Whole(Inc.to))
  /\ chain' = Advanced
  /\ UNCHANGED <<results, done, notes>>

\* Mutant: a harness is contributed before what it includes.
ContributeFirst ==
  /\ Read
  /\ Inc.to \in Harnesses /\ ~Inc.pick /\ ~ClosesCycle
  /\ ~ContributedWhole(Inc.to)
  /\ Record(Whole(Inc.to))
  /\ results' = Append(results, Whole(Inc.to))
  /\ done' = done \union {Whole(Inc.to)}
  /\ chain' = Append(Advanced, [id |-> Inc.to, next |-> 1])
  /\ UNCHANGED notes

\* A harness met for the first time: its includes come before it.
Descend ==
  /\ Read
  /\ Inc.to \in Harnesses /\ ~Inc.pick /\ ~ClosesCycle
  /\ ~ContributedWhole(Inc.to)
  /\ Record(Whole(Inc.to))
  /\ chain' = Append(Advanced, [id |-> Inc.to, next |-> 1])
  /\ UNCHANGED <<results, done, notes>>

\* All includes of a harness are resolved: it is contributed.
Return ==
  /\ status = "walking" /\ ~Listed /\ Depth > 1
  /\ results' = Append(results, Whole(Parent))
  /\ done' = done \union {Whole(Parent)}
  /\ chain' = SubSeq(chain, 1, Depth - 1)
  /\ UNCHANGED <<graph, status, parents, hookLinks, notes, met>>

Finish ==
  /\ status = "walking" /\ ~Listed /\ Depth = 1
  /\ status' = "resolved"
  /\ UNCHANGED <<graph, chain, found, notes, met>>

------------------------------------------------------------------------------

Init ==
  /\ includes \in Graphs /\ source \in SourceMaps
  /\ status = "walking"
  /\ chain = <<[id |-> Root, next |-> 1]>>
  /\ results = <<>> /\ done = {}
  /\ parents = [n \in Nodes |-> <<>>]
  /\ hookLinks = [h \in Targets |-> <<>>]
  /\ notes = {} /\ met = {}

Next ==
  \/ CannotLoad \/ TwoVersions \/ IncludesItself
  \/ TakePackage \/ SkipCycle \/ TakePick \/ MeetAgain \/ Descend
  \/ Return \/ Finish

Spec == Init /\ [][Next]_vars

------------------------------------------------------------------------------
(* Properties *)

Frames == [id : Harnesses, next : Nat \ {0}]
Statuses == {"walking", "resolved", "unloadable", "two versions", "includes itself"}

\* Every variable keeps to the values the code can give it.
TypeOK ==
  /\ includes \in [Harnesses -> Seq(Entries)]
  /\ status \in Statuses
  /\ chain \in Seq(Frames) /\ Depth > 0
  /\ results \in Seq(Nodes) /\ done \subseteq Nodes
  /\ parents \in [Nodes -> Seq(Harnesses)]
  /\ hookLinks \in [Targets -> Seq(Links)]
  /\ notes \subseteq Harnesses \X Harnesses /\ met \subseteq Targets

Contributed == { results[i] : i \in 1..Len(results) }

\* The harnesses h includes whole, and those some chain of whole includes
\* leads to: the members of every set that has q and is closed under them.
WholeIncludes(h) ==
  { q \in Harnesses : \E i \in 1..Len(includes[h]) :
                        includes[h][i].to = q /\ ~includes[h][i].pick }

Closed(S) == \A h \in S : WholeIncludes(h) \subseteq S

Reaches(q, h) == \A S \in SUBSET Harnesses : (q \in S /\ Closed(S)) => h \in S

\* The chain never holds a harness twice, whatever cycles the graph has: the
\* walk is no deeper than there are harnesses.
ChainIsSimple ==
  \A i, j \in 1..Depth : chain[i].id = chain[j].id => i = j

\* docs/harnesses.md: "every harness in it is included exactly once", a shared
\* one and one in a cycle too, and so is each pick of one.
NoneTwice ==
  \A i, j \in 1..Len(results) :
    (results[i] = results[j] /\ results[i].id \in Harnesses) => i = j

\* A resolved graph has contributed the harnesses that whole includes reach,
\* and no others.
AllReached ==
  status = "resolved" =>
    \A h \in Harnesses \ {Root} : Whole(h) \in Contributed <=> Reaches(Root, h)

\* Both: each harness that whole includes reach is in it, and in it once.
IncludedOnce == NoneTwice /\ AllReached

\* A harness is contributed after all it includes, but for the includes the
\* notes tell of, and those close a cycle that the graph really has: a later
\* contribution never lacks what it builds on.
DependenciesFirst ==
  /\ \A n \in notes : n[2] \in WholeIncludes(n[1]) /\ Reaches(n[2], n[1])
  /\ \A i \in 1..Len(results) : \A q \in Harnesses :
       LET p == results[i].id
       IN (/\ p \in Harnesses /\ ~results[i].pick
           /\ q \in WholeIncludes(p) /\ <<p, q>> \notin notes)
            => \E j \in 1..(i - 1) : results[j] = Whole(q)

\* One source is contributed at one version only.
OneVersion ==
  \A n, m \in Contributed :
    (source[n.id] # Local /\ source[n.id] = source[m.id]) => n.id = m.id
=============================================================================

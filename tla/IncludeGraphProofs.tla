------------------------- MODULE IncludeGraphProofs -------------------------
(***************************************************************************)
(* What a harness is made of, before anything is assembled.  The walk      *)
(* resolves every include graph, of any number of harnesses and with any   *)
(* cycles: it never holds a harness twice, contributes each harness once,  *)
(* and those that whole includes reach and no others.  The manifest that   *)
(* names the includes is only written with an edit checked against what it *)
(* cites, and what the hooks and servers of its profiles compose to is     *)
(* what ynh trust showed and what no null took away.  Last, what the memos *)
(* of hooksConsent and removedFrom answer is what all routes come to.      *)
(***************************************************************************)
EXTENDS IncludeConsent, Session, FiniteSetTheorems, SequenceTheorems, WellFoundedInduction, TLAPS

\* The chain starts at the root and holds harnesses not yet contributed.
OpenNotDone ==
  /\ chain[1].id = Root
  /\ \A i \in 1..Depth : Whole(chain[i].id) \notin done

\* done is what results holds of harnesses.
DoneIsContributed ==
  \A n \in Nodes : n.id \in Harnesses => (n \in done <=> n \in Contributed)

\* What whole includes lead to and the walk has met.
Met == { h \in Harnesses : Whole(h) \in done \/ h \in OnChain }

\* The includes a harness on the chain has had read, and all those of a
\* contributed harness, have been met.
DoneClosed == \A p \in Harnesses : Whole(p) \in done => WholeIncludes(p) \subseteq Met

ReadClosed ==
  \A i \in 1..Depth : \A k \in 1..Len(includes[chain[i].id]) :
    LET e == includes[chain[i].id][k]
    IN (k < chain[i].next /\ ~e.pick /\ e.to \in Harnesses) => e.to \in Met

ReachedOnly == \A h \in Met : Reaches(Root, h)

AtTheEnd == status = "resolved" => Depth = 1 /\ ~Listed

------------------------------------------------------------------------------
(* Sequences, and the include being read *)

LEMMA Appended ==
  ASSUME NEW T, NEW s \in Seq(T), NEW e \in T
  PROVE  /\ Append(s, e) \in Seq(T) /\ Len(Append(s, e)) = Len(s) + 1
         /\ Len(s) \in Nat
         /\ \A i \in 1..Len(s) : Append(s, e)[i] = s[i]
         /\ Append(s, e)[Len(s) + 1] = e
OBVIOUS

LEMMA Shortened ==
  ASSUME NEW T, NEW s \in Seq(T), Len(s) > 1
  PROVE  /\ SubSeq(s, 1, Len(s) - 1) \in Seq(T)
         /\ Len(SubSeq(s, 1, Len(s) - 1)) = Len(s) - 1
         /\ \A i \in 1..(Len(s) - 1) : SubSeq(s, 1, Len(s) - 1)[i] = s[i]
OBVIOUS

LEMMA Graph ==
  ASSUME TypeOK
  PROVE  /\ Depth \in Nat /\ Depth > 0 /\ Parent \in Harnesses
         /\ \A i \in 1..Depth : /\ chain[i] \in Frames /\ chain[i].id \in Harnesses
                                /\ chain[i].next \in Nat /\ chain[i].next > 0
         /\ \A h \in Harnesses : /\ includes[h] \in Seq(Entries) /\ Len(includes[h]) \in Nat
                                 /\ \A k \in 1..Len(includes[h]) : includes[h][k] \in Entries
<1>1. chain \in Seq(Frames) /\ Len(chain) > 0 /\ Len(chain) \in Nat
  BY DEF TypeOK, Depth
<1>2. ASSUME NEW i \in 1..Len(chain)
      PROVE  /\ chain[i] \in Frames /\ chain[i].id \in Harnesses
             /\ chain[i].next \in Nat /\ chain[i].next > 0
  <2>1. chain[i] \in Frames
    BY <1>1
  <2> QED BY <2>1 DEF Frames
<1>3. ASSUME NEW h \in Harnesses
      PROVE  /\ includes[h] \in Seq(Entries) /\ Len(includes[h]) \in Nat
             /\ \A k \in 1..Len(includes[h]) : includes[h][k] \in Entries
  <2>1. includes[h] \in Seq(Entries)
    BY DEF TypeOK
  <2> QED BY <2>1
<1> QED BY <1>1, <1>2, <1>3 DEF Depth, Parent

LEMMA IncIsEntry ==
  ASSUME TypeOK, Listed
  PROVE  Inc \in Entries /\ Inc.to \in Targets /\ Inc.hooks \in BOOLEAN /\ Inc.pick \in BOOLEAN
BY Graph DEF Inc, Listed, Entries

\* The chain once the include is read.
LEMMA AdvancedChain ==
  ASSUME TypeOK
  PROVE  /\ Advanced \in Seq(Frames) /\ Len(Advanced) = Depth
         /\ \A i \in 1..Depth : /\ Advanced[i].id = chain[i].id
                                /\ i # Depth => Advanced[i].next = chain[i].next
         /\ Advanced[Depth].next = chain[Depth].next + 1
<1>1. chain \in Seq(Frames) /\ Depth \in 1..Len(chain) /\ chain[Depth] \in Frames
  BY Graph DEF TypeOK, Depth
<1>2. chain[Depth].next + 1 \in Nat \ {0}
  BY <1>1 DEF Frames
<1>3. [chain[Depth] EXCEPT !.next = @ + 1] \in Frames
  BY <1>1, <1>2 DEF Frames
<1>4. Advanced = [chain EXCEPT ![Depth] = [chain[Depth] EXCEPT !.next = @ + 1]]
  BY DEF Advanced
<1>5. Advanced \in Seq(Frames) /\ Len(Advanced) = Len(chain)
  BY <1>1, <1>3, <1>4
<1>6. /\ Advanced[Depth] = [chain[Depth] EXCEPT !.next = @ + 1]
      /\ \A i \in 1..Depth : i # Depth => Advanced[i] = chain[i]
  BY <1>1, <1>4 DEF Depth
<1> QED BY <1>1, <1>5, <1>6 DEF Frames, Depth

------------------------------------------------------------------------------
(* Types *)

LEMMA WalkTypesInit == Init => TypeOK
<1> SUFFICES ASSUME Init PROVE TypeOK
  OBVIOUS
<1>1. includes \in [Harnesses -> Seq(Entries)]
  BY GraphAssumption DEF Init, GraphAssumption
<1>2. [id |-> Root, next |-> 1] \in Frames
  BY GraphAssumption DEF GraphAssumption, Frames
<1>3. chain \in Seq(Frames) /\ Depth > 0
  BY <1>2 DEF Init, Depth
<1>4. results \in Seq(Nodes) /\ done \subseteq Nodes
  BY DEF Init
<1>5. parents \in [Nodes -> Seq(Harnesses)] /\ hookLinks \in [Targets -> Seq(Links)]
  BY DEF Init
<1>6. status \in Statuses /\ notes \subseteq Harnesses \X Harnesses /\ met \subseteq Targets
  BY DEF Init, Statuses
<1> QED BY <1>1, <1>3, <1>4, <1>5, <1>6 DEF TypeOK

LEMMA NodeTypes ==
  ASSUME NEW t \in Targets, NEW b \in BOOLEAN
  PROVE  [id |-> t, pick |-> b] \in Nodes
BY DEF Nodes

LEMMA RecordTypes ==
  ASSUME TypeOK, Listed, NEW node \in Nodes, Record(node)
  PROVE  parents' \in [Nodes -> Seq(Harnesses)] /\ hookLinks' \in [Targets -> Seq(Links)]
<1>1. Parent \in Harnesses /\ Inc.hooks \in BOOLEAN
  BY Graph, IncIsEntry
<1>2. [parent |-> Parent, hooks |-> Inc.hooks] \in Links
  BY <1>1 DEF Links
<1>3. node.id \in Targets
  BY DEF Nodes
<1>4. parents[node] \in Seq(Harnesses) /\ hookLinks[node.id] \in Seq(Links)
  BY <1>3 DEF TypeOK
<1>5. /\ Append(parents[node], Parent) \in Seq(Harnesses)
      /\ Append(hookLinks[node.id], [parent |-> Parent, hooks |-> Inc.hooks]) \in Seq(Links)
  BY <1>1, <1>2, <1>4
<1> QED BY <1>3, <1>5 DEF Record, TypeOK

LEMMA WalkTypesNext == TypeOK /\ [Next]_vars => TypeOK'
<1> SUFFICES ASSUME TypeOK, [Next]_vars PROVE TypeOK'
  OBVIOUS
<1>1. includes' = includes
  BY DEF Next, CannotLoad, TwoVersions, IncludesItself, Refuse, TakePackage, SkipCycle, TakePick,
     MeetAgain, Descend, Return, Finish, Read, vars, graph
<1>2. CASE CannotLoad \/ TwoVersions \/ IncludesItself \/ Finish
  <2>1. UNCHANGED <<includes, chain, results, done, parents, hookLinks, notes, met>>
    BY <1>1, <1>2 DEF CannotLoad, TwoVersions, IncludesItself, Refuse, Finish, found
  <2>2. status' \in Statuses
    BY <1>2 DEF CannotLoad, TwoVersions, IncludesItself, Refuse, Finish, Statuses
  <2> QED BY <2>1, <2>2 DEF TypeOK, Depth
<1>3. ASSUME Read
      PROVE  /\ includes' \in [Harnesses -> Seq(Entries)] /\ status' \in Statuses
             /\ met' \subseteq Targets
             /\ chain' = Advanced => chain' \in Seq(Frames) /\ Depth' > 0
             /\ Listed /\ Inc.to \in Targets
  <2>1. Inc.to \in Targets
    BY <1>3, IncIsEntry DEF Read
  <2>2. chain' = Advanced => chain' \in Seq(Frames) /\ Depth' > 0
    BY AdvancedChain, Graph DEF Depth
  <2> QED BY <1>1, <1>3, <2>1, <2>2 DEF Read, TypeOK
<1>4. CASE TakePackage
  <2>1. Read /\ chain' = Advanced /\ UNCHANGED <<done, parents, hookLinks, notes>>
        /\ results' = Append(results, [id |-> Inc.to, pick |-> Inc.pick])
    BY <1>4 DEF TakePackage
  <2>2. [id |-> Inc.to, pick |-> Inc.pick] \in Nodes
    BY <1>3, <2>1, IncIsEntry, NodeTypes
  <2>3. results' \in Seq(Nodes)
    BY <2>1, <2>2 DEF TypeOK
  <2> QED BY <1>3, <2>1, <2>3 DEF TypeOK
<1>5. CASE SkipCycle
  <2>1. Read /\ chain' = Advanced /\ UNCHANGED <<results, done, parents, hookLinks>>
        /\ notes' = notes \union {<<Parent, Inc.to>>} /\ Inc.to \in OnChain
    BY <1>5 DEF SkipCycle, found, ClosesCycle
  <2>2. Parent \in Harnesses /\ Inc.to \in Harnesses
    BY <2>1, Graph DEF OnChain
  <2> QED BY <1>3, <2>1, <2>2 DEF TypeOK
<1>6. CASE TakePick
  <2>1. /\ Read /\ chain' = Advanced /\ Record(Picked(Inc.to)) /\ notes' = notes
        /\ results' = results \/ results' = Append(results, Picked(Inc.to))
        /\ done' = done \union {Picked(Inc.to)}
    BY <1>6 DEF TakePick
  <2>2. Picked(Inc.to) \in Nodes
    BY <1>3, <2>1, NodeTypes DEF Picked
  <2>3. parents' \in [Nodes -> Seq(Harnesses)] /\ hookLinks' \in [Targets -> Seq(Links)]
    BY <1>3, <2>1, <2>2, RecordTypes
  <2>4. results \in Seq(Nodes) /\ Append(results, Picked(Inc.to)) \in Seq(Nodes)
    BY <2>2 DEF TypeOK
  <2>5. results' \in Seq(Nodes) /\ done' \subseteq Nodes
    BY <2>1, <2>2, <2>4 DEF TypeOK
  <2> QED BY <1>3, <2>1, <2>3, <2>5 DEF TypeOK
<1>7. CASE MeetAgain \/ Descend
  <2>1. Read /\ Record(Whole(Inc.to)) /\ UNCHANGED <<results, done, notes>> /\ Inc.to \in Harnesses
    BY <1>7 DEF MeetAgain, Descend
  <2>2. Whole(Inc.to) \in Nodes
    BY <1>3, <2>1, NodeTypes DEF Whole
  <2>3. parents' \in [Nodes -> Seq(Harnesses)] /\ hookLinks' \in [Targets -> Seq(Links)]
    BY <1>3, <2>1, <2>2, RecordTypes
  <2>4. chain' \in Seq(Frames) /\ Depth' > 0
    <3>1. CASE chain' = Advanced
      BY <1>3, <2>1, <3>1
    <3>2. CASE chain' = Append(Advanced, [id |-> Inc.to, next |-> 1])
      <4>1. [id |-> Inc.to, next |-> 1] \in Frames
        BY <2>1 DEF Frames
      <4> QED BY <3>2, <4>1, AdvancedChain, Graph, Appended DEF Depth
    <3> QED BY <1>7, <3>1, <3>2 DEF MeetAgain, Descend
  <2> QED BY <1>3, <2>1, <2>3, <2>4 DEF TypeOK
<1>8. CASE Return
  <2>1. /\ chain' = SubSeq(chain, 1, Depth - 1) /\ Depth > 1
        /\ results' = Append(results, Whole(Parent)) /\ done' = done \union {Whole(Parent)}
        /\ UNCHANGED <<status, parents, hookLinks, notes, met>>
    BY <1>8 DEF Return
  <2>2. Whole(Parent) \in Nodes
    BY Graph, NodeTypes DEF Whole, Targets
  <2>3. results' \in Seq(Nodes) /\ done' \subseteq Nodes
    BY <2>1, <2>2 DEF TypeOK
  <2>4. chain' \in Seq(Frames) /\ Depth' > 0
    <3>1. chain \in Seq(Frames) /\ Len(chain) > 1
      BY <2>1 DEF TypeOK, Depth
    <3> QED BY <2>1, <3>1, Shortened DEF Depth
  <2> QED BY <1>1, <2>1, <2>3, <2>4 DEF TypeOK
<1>9. CASE UNCHANGED vars
  BY <1>9 DEF TypeOK, vars, graph, found, Depth
<1> QED BY <1>2, <1>4, <1>5, <1>6, <1>7, <1>8, <1>9 DEF Next

\* Every variable of the walk keeps to the values the code can give it.
THEOREM WalkTyping == Spec => []TypeOK
BY WalkTypesInit, WalkTypesNext, PTL DEF Spec

------------------------------------------------------------------------------
(* The chain, and what it has met *)

ChainPart ==
  ChainIsSimple /\ OpenNotDone /\ DoneClosed /\ ReadClosed /\ ReachedOnly /\ AtTheEnd

\* Everything said of the graph stays true while the graph does.
LEMMA SameGraph ==
  ASSUME includes' = includes
  PROVE  /\ \A h \in Harnesses : WholeIncludes(h)' = WholeIncludes(h)
         /\ \A h \in Harnesses : Reaches(Root, h)' = Reaches(Root, h)
BY DEF WholeIncludes, Reaches, Closed

\* What a reached harness includes whole is reached.
LEMMA ReachesOn ==
  ASSUME NEW p \in Harnesses, Reaches(Root, p), NEW q \in WholeIncludes(p)
  PROVE  Reaches(Root, q)
BY DEF Reaches, Closed

\* An include is read that adds nothing to the chain.
LEMMA ReadOn ==
  ASSUME TypeOK, TypeOK', ChainPart, Listed, includes' = includes,
         status = "walking", status' = status, chain' = Advanced,
         \A h \in Harnesses : Whole(h) \in done' <=> Whole(h) \in done,
         (Inc.to \in Harnesses /\ ~Inc.pick) => Inc.to \in Met
  PROVE  ChainPart'
<1> USE DEF ChainPart
<1>1. /\ Depth' = Depth /\ Depth \in Nat /\ Depth > 0
      /\ \A i \in 1..Depth : chain'[i].id = chain[i].id
      /\ \A i \in 1..Depth : i # Depth => chain'[i].next = chain[i].next
      /\ chain'[Depth].next = chain[Depth].next + 1
      /\ \A i \in 1..Depth : chain[i].id \in Harnesses /\ chain[i].next \in Nat
  BY AdvancedChain, Graph DEF Depth
<1>2. OnChain' = OnChain
  BY <1>1 DEF OnChain
<1>3. Met' = Met
  BY <1>2 DEF Met
<1>4. ChainIsSimple'
  BY <1>1 DEF ChainIsSimple
<1>5. OpenNotDone'
  BY <1>1, AdvancedChain DEF OpenNotDone
<1>6. DoneClosed'
  BY <1>3, SameGraph DEF DoneClosed
<1>7. ReadClosed'
  <2> SUFFICES ASSUME NEW i \in 1..Depth, NEW k \in 1..Len(includes[chain[i].id]),
                      k < chain'[i].next, ~includes[chain[i].id][k].pick,
                      includes[chain[i].id][k].to \in Harnesses
               PROVE  includes[chain[i].id][k].to \in Met
    BY <1>1, <1>3 DEF ReadClosed
  <2>1. CASE k < chain[i].next
    BY <2>1 DEF ReadClosed
  <2>2. CASE ~(k < chain[i].next)
    <3>1. i = Depth /\ k = chain[i].next
      <4>1. k \in Nat
        BY <1>1, Graph
      <4> QED BY <1>1, <2>2, <4>1
    <3>2. includes[chain[i].id][k] = Inc
      BY <3>1 DEF Inc, Parent
    <3> QED BY <3>2
  <2> QED BY <2>1, <2>2
<1>8. ReachedOnly'
  BY <1>3, SameGraph DEF ReachedOnly, Met
<1>9. AtTheEnd'
  BY DEF AtTheEnd
<1> QED BY <1>4, <1>5, <1>6, <1>7, <1>8, <1>9

\* An include is read and becomes the end of the chain.
LEMMA GoesDeeper ==
  ASSUME TypeOK, ChainPart, Descend
  PROVE  ChainPart'
<1> USE DEF ChainPart
<1>1. /\ Inc.to \in Harnesses /\ ~Inc.pick /\ Inc.to \notin OnChain /\ Whole(Inc.to) \notin done
      /\ Listed /\ includes' = includes /\ done' = done
      /\ status = "walking" /\ status' = status
      /\ chain' = Append(Advanced, [id |-> Inc.to, next |-> 1])
  BY DEF Descend, Read, ClosesCycle, ContributedWhole, graph
<1>2. [id |-> Inc.to, next |-> 1] \in Frames
  BY <1>1 DEF Frames
<1>3. /\ Depth \in Nat /\ Depth > 0 /\ Depth' = Depth + 1
      /\ \A i \in 1..Depth : chain'[i] = Advanced[i]
      /\ chain'[Depth + 1] = [id |-> Inc.to, next |-> 1]
  BY <1>1, <1>2, AdvancedChain, Appended, Graph DEF Depth
<1>4. /\ \A i \in 1..Depth : chain'[i].id = chain[i].id
      /\ \A i \in 1..Depth : i # Depth => chain'[i].next = chain[i].next
      /\ chain'[Depth].next = chain[Depth].next + 1
      /\ chain'[Depth + 1].id = Inc.to /\ chain'[Depth + 1].next = 1
      /\ \A i \in 1..Depth : chain[i].id \in Harnesses /\ chain[i].next \in Nat
  <2>1. Depth \in 1..Depth
    BY <1>3
  <2> QED BY <1>3, <2>1, AdvancedChain, Graph
<1>5. OnChain' = OnChain \union {Inc.to}
  <2>1. \A i \in 1..(Depth + 1) : i \in 1..Depth \/ i = Depth + 1
    BY <1>3
  <2>2. Depth + 1 \in 1..(Depth + 1) /\ \A i \in 1..Depth : i \in 1..(Depth + 1)
    BY <1>3
  <2> QED BY <1>3, <1>4, <2>1, <2>2 DEF OnChain
<1>6. Met' = Met \union {Inc.to}
  BY <1>1, <1>5 DEF Met
<1>7. ChainIsSimple'
  <2> SUFFICES ASSUME NEW i \in 1..(Depth + 1), NEW j \in 1..(Depth + 1),
                      chain'[i].id = chain'[j].id
               PROVE  i = j
    BY <1>3 DEF ChainIsSimple
  <2>1. CASE i \in 1..Depth /\ j \in 1..Depth
    BY <1>4, <2>1 DEF ChainIsSimple
  <2>2. CASE i \in 1..Depth /\ j = Depth + 1
    BY <1>1, <1>4, <2>2 DEF OnChain
  <2>3. CASE i = Depth + 1 /\ j \in 1..Depth
    BY <1>1, <1>4, <2>3 DEF OnChain
  <2> QED BY <1>3, <2>1, <2>2, <2>3
<1>8. OpenNotDone'
  <2>1. chain'[1].id = Root
    BY <1>3, <1>4 DEF OpenNotDone
  <2>2. ASSUME NEW i \in 1..(Depth + 1)
        PROVE  Whole(chain'[i].id) \notin done
    <3>1. CASE i \in 1..Depth
      BY <1>4, <3>1 DEF OpenNotDone
    <3>2. CASE i = Depth + 1
      BY <1>1, <1>4, <3>2
    <3> QED BY <1>3, <3>1, <3>2
  <2> QED BY <1>1, <1>3, <2>1, <2>2 DEF OpenNotDone, Whole
<1>9. DoneClosed'
  BY <1>1, <1>6, SameGraph DEF DoneClosed, Whole
<1>10. ReadClosed'
  <2> SUFFICES ASSUME NEW i \in 1..(Depth + 1), NEW k \in 1..Len(includes[chain'[i].id]),
                      k < chain'[i].next, ~includes[chain'[i].id][k].pick,
                      includes[chain'[i].id][k].to \in Harnesses
               PROVE  includes[chain'[i].id][k].to \in Met \union {Inc.to}
    BY <1>1, <1>3, <1>6 DEF ReadClosed
  <2>1. CASE i = Depth + 1
    <3>1. chain'[i].next = 1 /\ chain'[i].id \in Harnesses
      BY <1>1, <1>4, <2>1
    <3>2. k >= 1
      BY <3>1, Graph
    <3> QED BY <3>1, <3>2, Graph
  <2>2. CASE i \in 1..Depth /\ k < chain[i].next
    BY <1>4, <2>2 DEF ReadClosed
  <2>3. CASE i \in 1..Depth /\ ~(k < chain[i].next)
    <3>1. i = Depth /\ k = chain[i].next
      <4>1. k \in Nat
        BY <1>1, <1>4, <2>3, Graph
      <4> QED BY <1>3, <1>4, <2>3, <4>1
    <3>2. includes[chain[i].id][k] = Inc
      BY <3>1 DEF Inc, Parent
    <3> QED BY <1>4, <2>3, <3>2
  <2> QED BY <1>3, <2>1, <2>2, <2>3
<1>11. ReachedOnly'
  <2>1. Parent \in Met
    BY <1>3, <1>4 DEF Met, OnChain, Parent
  <2>2. Inc.to \in WholeIncludes(Parent)
    BY <1>1 DEF WholeIncludes, Inc, Listed
  <2>3. Reaches(Root, Inc.to)
    BY <2>1, <2>2, ReachesOn DEF ReachedOnly, Met
  <2> QED BY <1>1, <1>6, <2>3, SameGraph DEF ReachedOnly, Met
<1>12. AtTheEnd'
  BY <1>1 DEF AtTheEnd
<1> QED BY <1>7, <1>8, <1>9, <1>10, <1>11, <1>12

\* The end of the chain has been read to the last include, and is contributed.
LEMMA GoesBack ==
  ASSUME TypeOK, ChainPart, Return
  PROVE  ChainPart'
<1> USE DEF ChainPart
<1>1. /\ ~Listed /\ includes' = includes /\ done' = done \union {Whole(Parent)}
      /\ status = "walking" /\ status' = status /\ Depth > 1
      /\ chain' = SubSeq(chain, 1, Depth - 1)
  BY DEF Return, graph
<1>2. /\ Depth \in Nat /\ Depth' = Depth - 1
      /\ \A i \in 1..(Depth - 1) : chain'[i] = chain[i]
  BY <1>1, Shortened, Graph DEF TypeOK, Depth
<1>3. \A i \in 1..(Depth - 1) : i \in 1..Depth /\ i # Depth
  BY <1>2
<1>4. Parent \in Harnesses /\ Depth \in 1..Depth /\ Parent = chain[Depth].id
  BY <1>1, <1>2, Graph DEF Parent
<1>5. \A h \in Harnesses : Whole(h) \in done' <=> (Whole(h) \in done \/ h = Parent)
  BY <1>1 DEF Whole
<1>6. OnChain = OnChain' \union {Parent}
  <2>1. \A i \in 1..Depth : i \in 1..(Depth - 1) \/ i = Depth
    BY <1>1, <1>2
  <2> QED BY <1>2, <1>3, <1>4, <2>1 DEF OnChain
<1>7. Met' = Met
  BY <1>4, <1>5, <1>6 DEF Met
<1>8. ChainIsSimple'
  BY <1>2, <1>3 DEF ChainIsSimple
<1>9. OpenNotDone'
  <2>1. chain'[1].id = Root
    BY <1>1, <1>2 DEF OpenNotDone
  <2>2. ASSUME NEW i \in 1..(Depth - 1)
        PROVE  Whole(chain[i].id) \notin done'
    <3>1. chain[i].id \in Harnesses /\ chain[i].id # Parent
      BY <1>3, <1>4, Graph DEF ChainIsSimple
    <3> QED BY <1>3, <1>5, <3>1 DEF OpenNotDone
  <2> QED BY <1>2, <2>1, <2>2 DEF OpenNotDone, Whole
<1>10. DoneClosed'
  <2>1. WholeIncludes(Parent) \subseteq Met
    <3> SUFFICES ASSUME NEW q \in WholeIncludes(Parent) PROVE q \in Met
      OBVIOUS
    <3>1. PICK k \in 1..Len(includes[Parent]) : includes[Parent][k].to = q /\ ~includes[Parent][k].pick
      BY DEF WholeIncludes
    <3>2. k < chain[Depth].next
      BY <1>1, <1>4, Graph DEF Listed
    <3> QED BY <1>4, <3>1, <3>2 DEF ReadClosed, WholeIncludes
  <2> QED BY <1>1, <1>5, <1>7, <2>1, SameGraph DEF DoneClosed
<1>11. ReadClosed'
  BY <1>1, <1>2, <1>3, <1>7 DEF ReadClosed
<1>12. ReachedOnly'
  BY <1>1, <1>7, SameGraph DEF ReachedOnly, Met
<1>13. AtTheEnd'
  BY <1>1 DEF AtTheEnd
<1> QED BY <1>8, <1>9, <1>10, <1>11, <1>12, <1>13

LEMMA ChainNext ==
  ASSUME TypeOK, TypeOK', ChainPart, [Next]_vars
  PROVE  ChainPart'
<1> USE DEF ChainPart
<1>1. CASE CannotLoad \/ TwoVersions \/ IncludesItself \/ Finish \/ UNCHANGED vars
  <2>1. UNCHANGED <<includes, chain, done>>
    BY <1>1 DEF CannotLoad, TwoVersions, IncludesItself, Refuse, Finish, vars, found, graph
  <2>2. UNCHANGED <<Met, Depth, Listed>>
    BY <2>1 DEF Met, OnChain, Depth, Listed, Parent, Whole
  <2>3. status' = "resolved" => Depth = 1 /\ ~Listed
    BY <1>1 DEF CannotLoad, TwoVersions, IncludesItself, Refuse, Finish, vars, AtTheEnd
  <2>4. AtTheEnd'
    BY <2>2, <2>3 DEF AtTheEnd
  <2>5. ChainIsSimple' /\ OpenNotDone' /\ ReadClosed'
    BY <2>1, <2>2 DEF ChainIsSimple, OpenNotDone, ReadClosed, Whole
  <2>6. DoneClosed' /\ ReachedOnly'
    BY <2>1, <2>2, SameGraph DEF DoneClosed, ReachedOnly, Whole, Met
  <2> QED BY <2>4, <2>5, <2>6
<1>2. CASE TakePackage \/ SkipCycle \/ TakePick \/ MeetAgain
  <2>1. /\ Listed /\ includes' = includes /\ chain' = Advanced
        /\ status = "walking" /\ status' = status
    BY <1>2 DEF TakePackage, SkipCycle, TakePick, MeetAgain, Read, graph
  <2>2. \A h \in Harnesses : Whole(h) \in done' <=> Whole(h) \in done
    BY <1>2 DEF TakePackage, SkipCycle, TakePick, MeetAgain, Whole, Picked, found
  <2>3. (Inc.to \in Harnesses /\ ~Inc.pick) => Inc.to \in Met
    BY <1>2, GraphAssumption DEF TakePackage, SkipCycle, TakePick, MeetAgain, ClosesCycle,
       ContributedWhole, Met, GraphAssumption
  <2> QED BY <2>1, <2>2, <2>3, ReadOn
<1>3. CASE Descend
  BY <1>3, GoesDeeper
<1>4. CASE Return
  BY <1>4, GoesBack
<1> QED BY <1>1, <1>2, <1>3, <1>4 DEF Next

------------------------------------------------------------------------------
(* What is contributed *)

ResultPart == NoneTwice /\ DoneIsContributed

\* What has been met names each source once, and all that is contributed or
\* being read has been met.
VersionPart ==
  /\ \A i \in 1..Depth : i > 1 => chain[i].id \in met
  /\ \A n \in Contributed : n.id \in met
  /\ \A f, g \in met : (source[f] # Local /\ source[f] = source[g]) => f = g

LEMMA ContributedAfter ==
  ASSUME TypeOK, NEW n \in Nodes, results' = Append(results, n)
  PROVE  /\ Contributed' = Contributed \union {n}
         /\ Len(results) \in Nat /\ Len(results') = Len(results) + 1
         /\ \A i \in 1..Len(results) : results'[i] = results[i]
         /\ results'[Len(results) + 1] = n
<1>1. results \in Seq(Nodes)
  BY DEF TypeOK
<1>2. /\ Len(results) \in Nat /\ Len(results') = Len(results) + 1
      /\ \A i \in 1..Len(results) : results'[i] = results[i]
      /\ results'[Len(results) + 1] = n
  BY <1>1, Appended
<1>3. /\ \A i \in 1..(Len(results) + 1) : i \in 1..Len(results) \/ i = Len(results) + 1
      /\ \A i \in 1..Len(results) : i \in 1..(Len(results) + 1)
      /\ Len(results) + 1 \in 1..(Len(results) + 1)
  BY <1>2
<1> QED BY <1>2, <1>3 DEF Contributed

\* A contribution that was not made before.
LEMMA NewResult ==
  ASSUME TypeOK, ResultPart, NEW n \in Nodes, results' = Append(results, n),
         n.id \in Harnesses => n \notin done /\ done' = done \union {n},
         n.id \notin Harnesses => done' = done
  PROVE  ResultPart'
<1>1. DoneIsContributed'
  BY ContributedAfter DEF ResultPart, DoneIsContributed
<1>2. NoneTwice'
  <2> SUFFICES ASSUME NEW i \in 1..(Len(results) + 1), NEW j \in 1..(Len(results) + 1),
                      results'[i] = results'[j], results'[i].id \in Harnesses
               PROVE  i = j
    BY ContributedAfter DEF NoneTwice
  <2>1. CASE i \in 1..Len(results) /\ j \in 1..Len(results)
    BY <2>1, ContributedAfter DEF ResultPart, NoneTwice
  <2>2. CASE i = Len(results) + 1 /\ j = Len(results) + 1
    BY <2>2
  <2>3. ASSUME NEW k \in 1..Len(results), results[k] = n, n.id \in Harnesses
        PROVE  FALSE
    <3>1. n \in Contributed
      BY <2>3 DEF Contributed
    <3> QED BY <2>3, <3>1 DEF ResultPart, DoneIsContributed
  <2>4. /\ i \in 1..Len(results) \/ i = Len(results) + 1
        /\ j \in 1..Len(results) \/ j = Len(results) + 1
    BY ContributedAfter
  <2> QED BY <2>1, <2>2, <2>3, <2>4, ContributedAfter
<1> QED BY <1>1, <1>2 DEF ResultPart

LEMMA ResultNext ==
  ASSUME TypeOK, ChainPart, ResultPart, [Next]_vars
  PROVE  ResultPart'
<1>1. CASE UNCHANGED <<results, done>>
  BY <1>1 DEF ResultPart, NoneTwice, DoneIsContributed, Contributed
<1>2. CASE TakePackage
  <2>1. /\ Listed /\ Inc.to \in Packages /\ done' = done
        /\ results' = Append(results, [id |-> Inc.to, pick |-> Inc.pick])
    BY <1>2 DEF TakePackage, Read
  <2>2. Inc.to \notin Harnesses
    BY <2>1, GraphAssumption DEF GraphAssumption
  <2>3. [id |-> Inc.to, pick |-> Inc.pick] \in Nodes
    BY <2>1, IncIsEntry, NodeTypes
  <2> QED BY <2>1, <2>2, <2>3, NewResult
<1>3. CASE TakePick
  <2>1. /\ Listed /\ Inc.to \in Harnesses /\ done' = done \union {Picked(Inc.to)}
        /\ results' = IF Picked(Inc.to) \in done THEN results
                      ELSE Append(results, Picked(Inc.to))
    BY <1>3 DEF TakePick, Read
  <2>2. CASE Picked(Inc.to) \in done
    BY <1>1, <2>1, <2>2
  <2>3. CASE Picked(Inc.to) \notin done
    <3>1. Picked(Inc.to) \in Nodes /\ Picked(Inc.to).id = Inc.to
      BY <2>1, NodeTypes DEF Picked, Targets
    <3> QED BY <2>1, <2>3, <3>1, NewResult
  <2> QED BY <2>2, <2>3
<1>4. CASE Return
  <2>1. results' = Append(results, Whole(Parent)) /\ done' = done \union {Whole(Parent)}
    BY <1>4 DEF Return
  <2>2. Parent \in Harnesses /\ Whole(Parent) \notin done
    BY Graph DEF ChainPart, OpenNotDone, Parent
  <2>3. Whole(Parent) \in Nodes /\ Whole(Parent).id = Parent
    BY <2>2, NodeTypes DEF Whole, Targets
  <2> QED BY <2>1, <2>2, <2>3, NewResult
<1>5. CASE \/ CannotLoad \/ TwoVersions \/ IncludesItself \/ Finish \/ UNCHANGED vars
           \/ SkipCycle \/ MeetAgain \/ Descend
  BY <1>1, <1>5 DEF CannotLoad, TwoVersions, IncludesItself, Refuse, Finish, vars, found,
     SkipCycle, MeetAgain, Descend
<1> QED BY <1>2, <1>3, <1>4, <1>5 DEF Next

\* What is read next is at the version met before, if any.
LEMMA MetOnce ==
  ASSUME VersionPart, Read, Inc.to \in Targets
  PROVE  \A f, g \in met' : (source[f] # Local /\ source[f] = source[g]) => f = g
BY DEF VersionPart, Read, AtAnotherVersion

LEMMA VersionNext ==
  ASSUME TypeOK, VersionPart, [Next]_vars
  PROVE  VersionPart'
<1>0. source' = source
  BY DEF Next, CannotLoad, TwoVersions, IncludesItself, Refuse, TakePackage, SkipCycle, TakePick,
     MeetAgain, Descend, Return, Finish, Read, vars, graph
<1>1. CASE UNCHANGED <<chain, results, met>>
  BY <1>0, <1>1 DEF VersionPart, Depth, Contributed
<1>2. CASE TakePackage \/ SkipCycle \/ TakePick \/ MeetAgain \/ Descend
  <2>1. Read /\ Listed /\ met' = met \union {Inc.to}
    BY <1>2 DEF TakePackage, SkipCycle, TakePick, MeetAgain, Descend, Read
  <2>2. Inc.to \in Targets
    BY <2>1, IncIsEntry
  <2>3. \A f, g \in met' : (source'[f] # Local /\ source'[f] = source'[g]) => f = g
    BY <1>0, <2>1, <2>2, MetOnce
  <2>4. \A i \in 1..Depth' : i > 1 => chain'[i].id \in met'
    <3>1. CASE chain' = Advanced
      BY <2>1, <3>1, AdvancedChain DEF VersionPart, Depth
    <3>2. CASE Descend
      <4>1. /\ chain' = Append(Advanced, [id |-> Inc.to, next |-> 1])
            /\ [id |-> Inc.to, next |-> 1] \in Frames
        BY <3>2 DEF Descend, Frames
      <4>2. /\ Depth' = Depth + 1 /\ Depth \in Nat
            /\ \A i \in 1..Depth : chain'[i] = Advanced[i]
            /\ chain'[Depth + 1] = [id |-> Inc.to, next |-> 1]
        BY <4>1, AdvancedChain, Appended, Graph DEF Depth
      <4>3. ASSUME NEW i \in 1..(Depth + 1), i > 1
            PROVE  chain'[i].id \in met'
        <5>1. CASE i \in 1..Depth
          BY <2>1, <4>2, <4>3, <5>1, AdvancedChain DEF VersionPart
        <5>2. CASE i = Depth + 1
          BY <2>1, <4>2, <5>2
        <5> QED BY <4>2, <5>1, <5>2
      <4> QED BY <4>2, <4>3
    <3> QED BY <1>2, <3>1, <3>2 DEF TakePackage, SkipCycle, TakePick, MeetAgain
  <2>5. \A n \in Contributed' : n.id \in met'
    <3>1. CASE results' = results
      BY <2>1, <3>1 DEF VersionPart, Contributed
    <3>2. ASSUME NEW b \in BOOLEAN, results' = Append(results, [id |-> Inc.to, pick |-> b])
          PROVE  \A n \in Contributed' : n.id \in met'
      <4>1. [id |-> Inc.to, pick |-> b] \in Nodes
        BY <2>2, NodeTypes
      <4>2. Contributed' = Contributed \union {[id |-> Inc.to, pick |-> b]}
        BY <3>2, <4>1, ContributedAfter
      <4> QED BY <2>1, <4>2 DEF VersionPart
    <3>3. Inc.pick \in BOOLEAN
      BY <2>1, IncIsEntry
    <3> QED BY <1>2, <3>1, <3>2, <3>3
         DEF TakePackage, SkipCycle, TakePick, MeetAgain, Descend, Picked, found
  <2> QED BY <2>3, <2>4, <2>5 DEF VersionPart
<1>3. CASE Return
  <2>1. /\ Depth > 1 /\ chain' = SubSeq(chain, 1, Depth - 1) /\ met' = met
        /\ results' = Append(results, Whole(Parent))
    BY <1>3 DEF Return
  <2>2. Depth \in Nat /\ Depth' = Depth - 1 /\ \A i \in 1..(Depth - 1) : chain'[i] = chain[i]
    BY <2>1, Shortened, Graph DEF TypeOK, Depth
  <2>3. Parent \in Harnesses /\ Parent \in met
    BY <2>1, <2>2, Graph DEF VersionPart, Parent
  <2>4. Whole(Parent) \in Nodes /\ Whole(Parent).id = Parent
    BY <2>3, NodeTypes DEF Whole, Targets
  <2>5. Contributed' = Contributed \union {Whole(Parent)}
    BY <2>1, <2>4, ContributedAfter
  <2>6. \A i \in 1..Depth' : i > 1 => chain'[i].id \in met'
    BY <2>1, <2>2 DEF VersionPart
  <2>7. \A n \in Contributed' : n.id \in met'
    BY <2>1, <2>3, <2>4, <2>5 DEF VersionPart
  <2> QED BY <1>0, <2>1, <2>6, <2>7 DEF VersionPart
<1>4. CASE CannotLoad \/ TwoVersions \/ IncludesItself \/ Finish \/ UNCHANGED vars
  BY <1>1, <1>4 DEF CannotLoad, TwoVersions, IncludesItself, Refuse, Finish, vars, found
<1> QED BY <1>2, <1>3, <1>4 DEF Next

------------------------------------------------------------------------------
(* What is contributed after what *)

\* Each harness on the chain is reached from those before it.
ChainReaches ==
  \A i, j \in 1..Depth : i <= j => Reaches(chain[i].id, chain[j].id)

\* A note tells of an include that the graph has, and that closes a cycle of it.
NotesClose ==
  \A n \in notes : n[2] \in WholeIncludes(n[1]) /\ Reaches(n[2], n[1])

\* An include a harness on the chain has had read is contributed, or is the
\* next one on the chain, or is noted.
ReadIsSettled ==
  \A i \in 1..Depth : \A k \in 1..Len(includes[chain[i].id]) :
    LET e == includes[chain[i].id][k]
    IN (k < chain[i].next /\ ~e.pick /\ e.to \in Harnesses) =>
         \/ Whole(e.to) \in done
         \/ i < Depth /\ e.to = chain[i + 1].id
         \/ <<chain[i].id, e.to>> \in notes

\* What result i includes is contributed before it, or noted.
Follows(i) ==
  \A q \in Harnesses :
    (/\ results[i].id \in Harnesses /\ ~results[i].pick
     /\ q \in WholeIncludes(results[i].id) /\ <<results[i].id, q>> \notin notes)
      => \E j \in 1..(i - 1) : results[j] = Whole(q)

AllFollow == \A i \in 1..Len(results) : Follows(i)

OrderPart == ChainReaches /\ NotesClose /\ ReadIsSettled /\ AllFollow

LEMMA SameGraphAll ==
  ASSUME includes' = includes
  PROVE  /\ \A h : WholeIncludes(h)' = WholeIncludes(h)
         /\ \A q, h : Reaches(q, h)' <=> Reaches(q, h)
BY DEF WholeIncludes, Reaches, Closed

LEMMA ReachesItself == \A h : Reaches(h, h)
BY DEF Reaches

LEMMA ReachesFurther ==
  ASSUME NEW a \in Harnesses, NEW p \in Harnesses, Reaches(a, p), NEW q \in WholeIncludes(p)
  PROVE  Reaches(a, q)
BY DEF Reaches, Closed

\* What was contributed stays, and so does the order: more notes ask for less.
LEMMA FollowOn ==
  ASSUME TypeOK, AllFollow, includes' = includes, notes \subseteq notes',
         \/ results' = results
         \/ \E n \in Nodes : results' = Append(results, n) /\ (n.id \in Harnesses => n.pick)
  PROVE  AllFollow'
<1>1. CASE results' = results
  BY <1>1, SameGraphAll DEF AllFollow, Follows
<1>2. ASSUME NEW n \in Nodes, results' = Append(results, n), n.id \in Harnesses => n.pick
      PROVE  AllFollow'
  <2> SUFFICES ASSUME NEW i \in 1..(Len(results) + 1), NEW q \in Harnesses,
                      results'[i].id \in Harnesses, ~results'[i].pick,
                      q \in WholeIncludes(results'[i].id), <<results'[i].id, q>> \notin notes'
               PROVE  \E j \in 1..(i - 1) : results'[j] = Whole(q)
    BY <1>2, ContributedAfter, SameGraphAll DEF AllFollow, Follows, Whole
  <2>1. Len(results) \in Nat /\ i # Len(results) + 1
    BY <1>2, ContributedAfter
  <2>2. i \in 1..Len(results) /\ results'[i] = results[i]
    BY <1>2, <2>1, ContributedAfter
  <2>3. PICK j \in 1..(i - 1) : results[j] = Whole(q)
    BY <2>2 DEF AllFollow, Follows
  <2>4. j \in 1..Len(results)
    BY <2>1, <2>2
  <2> QED BY <1>2, <2>3, <2>4, ContributedAfter
<1> QED BY <1>1, <1>2

\* An include is read that is settled at once.
LEMMA OrderReadOn ==
  ASSUME TypeOK, TypeOK', OrderPart, Listed, includes' = includes, chain' = Advanced,
         done \subseteq done', notes \subseteq notes',
         (Inc.to \in Harnesses /\ ~Inc.pick) =>
            Whole(Inc.to) \in done' \/ <<Parent, Inc.to>> \in notes'
  PROVE  ChainReaches' /\ ReadIsSettled'
<1>1. /\ Depth' = Depth /\ Depth \in Nat /\ Depth > 0
      /\ \A i \in 1..Depth : chain'[i].id = chain[i].id
      /\ \A i \in 1..Depth : i # Depth => chain'[i].next = chain[i].next
      /\ chain'[Depth].next = chain[Depth].next + 1
      /\ \A i \in 1..Depth : chain[i].id \in Harnesses /\ chain[i].next \in Nat
  BY AdvancedChain, Graph DEF Depth
<1>2. ChainReaches'
  BY <1>1, SameGraphAll DEF OrderPart, ChainReaches
<1>3. ReadIsSettled'
  <2> SUFFICES ASSUME NEW i \in 1..Depth', NEW k \in 1..Len(includes'[chain'[i].id]),
                      k < chain'[i].next, ~includes'[chain'[i].id][k].pick,
                      includes'[chain'[i].id][k].to \in Harnesses
               PROVE  \/ Whole(includes'[chain'[i].id][k].to) \in done'
                      \/ i < Depth' /\ includes'[chain'[i].id][k].to = chain'[i + 1].id
                      \/ <<chain'[i].id, includes'[chain'[i].id][k].to>> \in notes'
    BY DEF ReadIsSettled, Whole
  <2>0. /\ i \in 1..Depth /\ k \in 1..Len(includes[chain[i].id])
        /\ ~includes[chain[i].id][k].pick /\ includes[chain[i].id][k].to \in Harnesses
    BY <1>1
  <2>1. CASE k < chain[i].next
    <3>1. i < Depth => i + 1 \in 1..Depth
      BY <1>1, <2>0
    <3> QED BY <1>1, <2>0, <2>1, <3>1 DEF OrderPart, ReadIsSettled
  <2>2. CASE ~(k < chain[i].next)
    <3>1. i = Depth /\ k = chain[i].next
      <4>1. k \in Nat
        BY <1>1, Graph
      <4> QED BY <1>1, <2>0, <2>2, <4>1
    <3>2. includes[chain[i].id][k] = Inc /\ chain[i].id = Parent
      BY <3>1 DEF Inc, Parent
    <3> QED BY <1>1, <2>0, <3>2
  <2> QED BY <2>1, <2>2
<1> QED BY <1>2, <1>3

LEMMA OrderDescend ==
  ASSUME TypeOK, OrderPart, Descend
  PROVE  OrderPart'
<1>1. /\ Inc.to \in Harnesses /\ ~Inc.pick /\ Listed
      /\ UNCHANGED <<includes, results, done, notes>>
      /\ chain' = Append(Advanced, [id |-> Inc.to, next |-> 1])
  BY DEF Descend, Read, graph
<1>2. [id |-> Inc.to, next |-> 1] \in Frames
  BY <1>1 DEF Frames
<1>3. /\ Depth \in Nat /\ Depth > 0 /\ Depth' = Depth + 1
      /\ \A i \in 1..Depth : chain'[i] = Advanced[i]
      /\ chain'[Depth + 1] = [id |-> Inc.to, next |-> 1]
  BY <1>1, <1>2, AdvancedChain, Appended, Graph DEF Depth
<1>4. /\ \A i \in 1..Depth : chain'[i].id = chain[i].id
      /\ \A i \in 1..Depth : i # Depth => chain'[i].next = chain[i].next
      /\ chain'[Depth].next = chain[Depth].next + 1
      /\ chain'[Depth + 1].id = Inc.to /\ chain'[Depth + 1].next = 1
      /\ \A i \in 1..Depth : chain[i].id \in Harnesses /\ chain[i].next \in Nat
      /\ Depth \in 1..Depth
  <2>1. Depth \in 1..Depth
    BY <1>3
  <2> QED BY <1>3, <2>1, AdvancedChain, Graph
<1>5. Inc.to \in WholeIncludes(Parent) /\ Parent \in Harnesses
  BY <1>1, Graph DEF WholeIncludes, Inc, Listed
<1>6. ChainReaches'
  <2> SUFFICES ASSUME NEW i \in 1..(Depth + 1), NEW j \in 1..(Depth + 1), i <= j
               PROVE  Reaches(chain'[i].id, chain'[j].id)
    BY <1>1, <1>3, SameGraphAll DEF ChainReaches
  <2>1. CASE j \in 1..Depth
    <3>1. i \in 1..Depth
      BY <1>3, <2>1
    <3> QED BY <1>4, <2>1, <3>1 DEF OrderPart, ChainReaches
  <2>2. CASE j = Depth + 1 /\ i \in 1..Depth
    <3>1. Reaches(chain[i].id, Parent)
      <4>1. i <= Depth
        BY <1>3, <2>2
      <4> QED BY <1>4, <2>2, <4>1 DEF OrderPart, ChainReaches, Parent
    <3>2. Reaches(chain[i].id, Inc.to)
      BY <1>4, <1>5, <2>2, <3>1, ReachesFurther
    <3> QED BY <1>4, <2>2, <3>2
  <2>3. CASE j = Depth + 1 /\ i = Depth + 1
    BY <2>3, ReachesItself
  <2>4. /\ i \in 1..Depth \/ i = Depth + 1
        /\ j \in 1..Depth \/ j = Depth + 1
    BY <1>3
  <2> QED BY <2>1, <2>2, <2>3, <2>4
<1>7. NotesClose'
  BY <1>1, SameGraphAll DEF OrderPart, NotesClose
<1>8. ReadIsSettled'
  <2> SUFFICES ASSUME NEW i \in 1..(Depth + 1), NEW k \in 1..Len(includes[chain'[i].id]),
                      k < chain'[i].next, ~includes[chain'[i].id][k].pick,
                      includes[chain'[i].id][k].to \in Harnesses
               PROVE  \/ Whole(includes[chain'[i].id][k].to) \in done
                      \/ i < Depth + 1 /\ includes[chain'[i].id][k].to = chain'[i + 1].id
                      \/ <<chain'[i].id, includes[chain'[i].id][k].to>> \in notes
    BY <1>1, <1>3 DEF ReadIsSettled, Whole
  <2>1. CASE i = Depth + 1
    <3>1. chain'[i].next = 1 /\ chain'[i].id \in Harnesses
      BY <1>1, <1>4, <2>1
    <3>2. k >= 1
      BY <3>1, Graph
    <3> QED BY <3>1, <3>2, Graph
  <2>2. CASE i \in 1..Depth /\ k < chain[i].next
    <3>1. i < Depth => i + 1 \in 1..Depth
      BY <1>3, <2>2
    <3>2. i < Depth => i < Depth + 1
      BY <1>3, <2>2
    <3>3. \/ Whole(includes[chain[i].id][k].to) \in done
          \/ i < Depth /\ includes[chain[i].id][k].to = chain[i + 1].id
          \/ <<chain[i].id, includes[chain[i].id][k].to>> \in notes
      BY <1>4, <2>2 DEF OrderPart, ReadIsSettled
    <3> QED BY <1>4, <2>2, <3>1, <3>2, <3>3
  <2>3. CASE i \in 1..Depth /\ ~(k < chain[i].next)
    <3>1. i = Depth /\ k = chain[i].next
      <4>1. k \in Nat
        BY <1>1, <1>4, <2>3, Graph
      <4> QED BY <1>3, <1>4, <2>3, <4>1
    <3>2. includes[chain[i].id][k] = Inc
      BY <3>1 DEF Inc, Parent
    <3>3. i < Depth + 1 /\ chain'[i + 1].id = Inc.to
      BY <1>3, <1>4, <3>1
    <3> QED BY <1>4, <2>3, <3>2, <3>3
  <2> QED BY <1>3, <2>1, <2>2, <2>3
<1>9. AllFollow'
  BY <1>1, FollowOn DEF OrderPart
<1> QED BY <1>6, <1>7, <1>8, <1>9 DEF OrderPart

\* The harness at the end has had all its includes read, and it has none on
\* the chain after it: they are contributed, or noted.
LEMMA OrderReturn ==
  ASSUME TypeOK, ResultPart, OrderPart, Return
  PROVE  OrderPart'
<1>1. /\ ~Listed /\ includes' = includes /\ done' = done \union {Whole(Parent)}
      /\ results' = Append(results, Whole(Parent)) /\ notes' = notes
      /\ Depth > 1 /\ chain' = SubSeq(chain, 1, Depth - 1)
  BY DEF Return, graph
<1>2. /\ Depth \in Nat /\ Depth' = Depth - 1
      /\ \A i \in 1..(Depth - 1) : chain'[i] = chain[i]
  BY <1>1, Shortened, Graph DEF TypeOK, Depth
<1>3. \A i \in 1..(Depth - 1) : i \in 1..Depth /\ i < Depth
  BY <1>2
<1>4. Parent \in Harnesses /\ Depth \in 1..Depth /\ Parent = chain[Depth].id
  BY <1>1, <1>2, Graph DEF Parent
<1>5. ChainReaches'
  BY <1>1, <1>2, <1>3, SameGraphAll DEF OrderPart, ChainReaches
<1>6. NotesClose'
  BY <1>1, SameGraphAll DEF OrderPart, NotesClose
<1>7. ReadIsSettled'
  <2> SUFFICES ASSUME NEW i \in 1..Depth', NEW k \in 1..Len(includes'[chain'[i].id]),
                      k < chain'[i].next, ~includes'[chain'[i].id][k].pick,
                      includes'[chain'[i].id][k].to \in Harnesses
               PROVE  \/ Whole(includes'[chain'[i].id][k].to) \in done'
                      \/ i < Depth' /\ includes'[chain'[i].id][k].to = chain'[i + 1].id
                      \/ <<chain'[i].id, includes'[chain'[i].id][k].to>> \in notes'
    BY DEF ReadIsSettled, Whole
  <2>0. /\ i \in 1..(Depth - 1) /\ chain'[i] = chain[i] /\ k \in 1..Len(includes[chain[i].id])
        /\ k < chain[i].next /\ ~includes[chain[i].id][k].pick /\ includes[chain[i].id][k].to \in Harnesses
    BY <1>1, <1>2
  <2>1. \/ Whole(includes[chain[i].id][k].to) \in done
        \/ i < Depth /\ includes[chain[i].id][k].to = chain[i + 1].id
        \/ <<chain[i].id, includes[chain[i].id][k].to>> \in notes
    BY <1>3, <2>0 DEF OrderPart, ReadIsSettled
  <2>2. CASE includes[chain[i].id][k].to = chain[i + 1].id
    <3>1. CASE i = Depth - 1
      <4>1. i + 1 = Depth
        BY <1>2, <3>1
      <4> QED BY <1>1, <1>4, <2>0, <2>2, <4>1
    <3>2. CASE i # Depth - 1
      <4>1. i < Depth - 1 /\ i + 1 \in 1..(Depth - 1)
        BY <1>2, <2>0, <3>2
      <4> QED BY <1>1, <1>2, <2>0, <2>2, <4>1
    <3> QED BY <3>1, <3>2
  <2> QED BY <1>1, <1>2, <2>0, <2>1, <2>2
<1>8. AllFollow'
  <2>1. Whole(Parent) \in Nodes
    BY <1>4, NodeTypes DEF Whole, Targets
  <2>2. /\ Len(results) \in Nat /\ Len(results') = Len(results) + 1
        /\ \A i \in 1..Len(results) : results'[i] = results[i]
        /\ results'[Len(results) + 1] = Whole(Parent)
    BY <1>1, <2>1, ContributedAfter
  <2> SUFFICES ASSUME NEW i \in 1..(Len(results) + 1), NEW q \in Harnesses,
                      results'[i].id \in Harnesses, ~results'[i].pick,
                      q \in WholeIncludes(results'[i].id), <<results'[i].id, q>> \notin notes
               PROVE  \E j \in 1..(i - 1) : results'[j] = Whole(q)
    BY <1>1, <2>2, SameGraphAll DEF AllFollow, Follows, Whole
  <2>3. CASE i \in 1..Len(results)
    <3>1. PICK j \in 1..(i - 1) : results[j] = Whole(q)
      BY <2>2, <2>3 DEF OrderPart, AllFollow, Follows
    <3>2. j \in 1..Len(results)
      BY <2>2, <2>3
    <3> QED BY <2>2, <3>1, <3>2
  <2>4. CASE i = Len(results) + 1
    <3>1. results'[i].id = Parent
      BY <2>2, <2>4 DEF Whole
    <3>2. PICK k \in 1..Len(includes[Parent]) : includes[Parent][k].to = q /\ ~includes[Parent][k].pick
      BY <3>1 DEF WholeIncludes
    <3>3. k < chain[Depth].next
      BY <1>1, <1>4, Graph DEF Listed
    <3>4. Whole(q) \in done
      <4>1. ~(Depth < Depth)
        BY <1>2
      <4>2. <<chain[Depth].id, q>> \notin notes
        BY <1>4, <3>1
      <4> QED BY <1>4, <3>2, <3>3, <4>1, <4>2 DEF OrderPart, ReadIsSettled
    <3>5. Whole(q) \in Contributed
      <4>1. Whole(q) \in Nodes /\ Whole(q).id = q
        BY NodeTypes DEF Whole, Targets
      <4> QED BY <3>4, <4>1 DEF ResultPart, DoneIsContributed
    <3>6. PICK j \in 1..Len(results) : results[j] = Whole(q)
      BY <3>5 DEF Contributed
    <3>7. i - 1 = Len(results)
      BY <2>2, <2>4
    <3> QED BY <2>2, <3>6, <3>7
  <2> QED BY <2>2, <2>3, <2>4
<1> QED BY <1>5, <1>6, <1>7, <1>8 DEF OrderPart

LEMMA OrderNext ==
  ASSUME TypeOK, TypeOK', ChainPart, ResultPart, OrderPart, [Next]_vars
  PROVE  OrderPart'
<1>1. CASE CannotLoad \/ TwoVersions \/ IncludesItself \/ Finish \/ UNCHANGED vars
  <2>1. UNCHANGED <<includes, chain, done, notes, results>>
    BY <1>1 DEF CannotLoad, TwoVersions, IncludesItself, Refuse, Finish, vars, found, graph
  <2>2. AllFollow'
    BY <2>1, FollowOn DEF OrderPart
  <2> QED BY <2>1, <2>2, SameGraphAll
       DEF OrderPart, ChainReaches, NotesClose, ReadIsSettled, Depth, Whole
<1>2. CASE TakePackage \/ SkipCycle \/ TakePick \/ MeetAgain
  <2>1. Listed /\ includes' = includes /\ chain' = Advanced
    BY <1>2 DEF TakePackage, SkipCycle, TakePick, MeetAgain, Read, graph
  <2>2. done \subseteq done' /\ notes \subseteq notes'
    BY <1>2 DEF TakePackage, SkipCycle, TakePick, MeetAgain, found
  <2>3. (Inc.to \in Harnesses /\ ~Inc.pick) =>
            Whole(Inc.to) \in done' \/ <<Parent, Inc.to>> \in notes'
    BY <1>2, GraphAssumption DEF TakePackage, SkipCycle, TakePick, MeetAgain,
       ContributedWhole, GraphAssumption
  <2>4. ChainReaches' /\ ReadIsSettled'
    BY <2>1, <2>2, <2>3, OrderReadOn
  <2>5. NotesClose'
    <3>1. CASE notes' = notes
      BY <2>1, <3>1, SameGraphAll DEF OrderPart, NotesClose
    <3>2. CASE SkipCycle
      <4>1. /\ notes' = notes \union {<<Parent, Inc.to>>}
            /\ Inc.to \in OnChain /\ ~Inc.pick
        BY <3>2 DEF SkipCycle, ClosesCycle
      <4>2. PICK i \in 1..Depth : chain[i].id = Inc.to
        BY <4>1 DEF OnChain
      <4>3. Depth \in Nat /\ i <= Depth /\ Depth \in 1..Depth /\ Inc.to \in Harnesses
        BY <4>2, Graph
      <4>4. Reaches(Inc.to, Parent)
        BY <4>2, <4>3 DEF OrderPart, ChainReaches, Parent
      <4>5. Inc.to \in WholeIncludes(Parent)
        BY <2>1, <4>1, <4>3 DEF WholeIncludes, Inc, Listed
      <4> QED BY <2>1, <4>1, <4>4, <4>5, SameGraphAll DEF OrderPart, NotesClose
    <3> QED BY <1>2, <3>1, <3>2 DEF TakePackage, TakePick, MeetAgain
  <2>6. \/ results' = results
        \/ \E n \in Nodes : results' = Append(results, n) /\ (n.id \in Harnesses => n.pick)
    <3>1. CASE TakePackage
      <4>1. /\ Inc.to \in Packages
            /\ results' = Append(results, [id |-> Inc.to, pick |-> Inc.pick])
        BY <3>1 DEF TakePackage
      <4>2. [id |-> Inc.to, pick |-> Inc.pick] \in Nodes /\ Inc.to \notin Harnesses
        BY <2>1, <4>1, IncIsEntry, NodeTypes, GraphAssumption DEF GraphAssumption
      <4>3. [id |-> Inc.to, pick |-> Inc.pick].id \notin Harnesses
        BY <4>2
      <4> QED BY <4>1, <4>2, <4>3
    <3>2. CASE TakePick
      <4>1. Picked(Inc.to) \in Nodes /\ Picked(Inc.to).pick
        BY <2>1, IncIsEntry, NodeTypes DEF Picked
      <4> QED BY <3>2, <4>1 DEF TakePick
    <3> QED BY <1>2, <3>1, <3>2 DEF SkipCycle, MeetAgain, found
  <2>7. AllFollow'
    BY <2>1, <2>2, <2>6, FollowOn DEF OrderPart
  <2> QED BY <2>4, <2>5, <2>7 DEF OrderPart
<1>3. CASE Descend
  BY <1>3, OrderDescend
<1>4. CASE Return
  BY <1>4, OrderReturn
<1> QED BY <1>1, <1>2, <1>3, <1>4 DEF Next

------------------------------------------------------------------------------
(* The invariant and what follows from it *)

WalkInv == TypeOK /\ ChainPart /\ ResultPart /\ VersionPart /\ OrderPart

LEMMA WalkInit == Init => WalkInv
<1> SUFFICES ASSUME Init PROVE WalkInv
  OBVIOUS
<1>1. TypeOK
  BY WalkTypesInit
<1>2. /\ Depth = 1 /\ chain[1].id = Root /\ chain[1].next = 1
      /\ done = {} /\ status = "walking" /\ met = {} /\ Len(results) = 0
  BY DEF Init, Depth
<1>3. OnChain = {Root} /\ Met = {Root} /\ Contributed = {} /\ Root \in Harnesses
  BY <1>2, GraphAssumption DEF OnChain, Met, Contributed, GraphAssumption
<1>4. ChainIsSimple /\ OpenNotDone /\ DoneClosed /\ AtTheEnd
  BY <1>2 DEF ChainIsSimple, OpenNotDone, DoneClosed, AtTheEnd
<1>5. ReadClosed
  <2>1. \A i \in 1..Depth : chain[i].next = 1
    BY <1>2
  <2>2. \A i \in 1..Depth : \A k \in 1..Len(includes[chain[i].id]) : k >= 1
    BY <1>1, Graph
  <2>3. \A i \in 1..Depth : \A k \in 1..Len(includes[chain[i].id]) : ~(k < chain[i].next)
    BY <1>1, <2>1, <2>2, Graph
  <2> QED BY <2>3 DEF ReadClosed
<1>6. ReachedOnly
  BY <1>3 DEF ReachedOnly, Reaches
<1>7. ResultPart /\ VersionPart
  BY <1>2, <1>3 DEF ResultPart, NoneTwice, DoneIsContributed, VersionPart
<1>8. OrderPart
  <2>1. notes = {} /\ AllFollow
    BY <1>2 DEF Init, AllFollow
  <2>2. \A i, j \in 1..Depth : i = j
    BY <1>2
  <2>3. ChainReaches
    BY <2>2, ReachesItself DEF ChainReaches
  <2>4. \A i \in 1..Depth : \A k \in 1..Len(includes[chain[i].id]) : ~(k < chain[i].next)
    <3>1. \A i \in 1..Depth : chain[i].next = 1
      BY <1>2
    <3> QED BY <1>1, <3>1, Graph
  <2> QED BY <2>1, <2>3, <2>4 DEF OrderPart, NotesClose, ReadIsSettled
<1> QED BY <1>1, <1>4, <1>5, <1>6, <1>7, <1>8 DEF WalkInv, ChainPart

LEMMA WalkNext == WalkInv /\ [Next]_vars => WalkInv'
<1> SUFFICES ASSUME WalkInv, [Next]_vars PROVE WalkInv'
  OBVIOUS
<1>1. TypeOK'
  BY WalkTypesNext DEF WalkInv
<1> QED BY <1>1, ChainNext, ResultNext, VersionNext, OrderNext DEF WalkInv

\* The inductive invariant of the walk holds throughout.
THEOREM WalkInvariant == Spec => []WalkInv
BY WalkInit, WalkNext, PTL DEF Spec

\* Cycles or not, the walk never holds a harness twice: it is no deeper than
\* there are harnesses.
THEOREM WalkIsSimple == Spec => []ChainIsSimple
<1>1. WalkInv => ChainIsSimple
  BY DEF WalkInv, ChainPart
<1> QED BY <1>1, WalkInvariant, PTL

\* A harness, and each pick of one, is contributed once however many routes
\* lead to it.
THEOREM EachOnce == Spec => []NoneTwice
<1>1. WalkInv => NoneTwice
  BY DEF WalkInv, ResultPart
<1> QED BY <1>1, WalkInvariant, PTL

\* A resolved graph holds one version of each source.
THEOREM OneVersionOfEach == Spec => []OneVersion
<1>1. WalkInv => OneVersion
  BY DEF WalkInv, VersionPart, OneVersion
<1> QED BY <1>1, WalkInvariant, PTL

LEMMA ReachedAll ==
  ASSUME WalkInv PROVE AllReached
<1> SUFFICES ASSUME status = "resolved", NEW h \in Harnesses, h # Root
             PROVE  Whole(h) \in Contributed <=> Reaches(Root, h)
  BY DEF AllReached
<1>0. TypeOK /\ ChainPart /\ ResultPart
  BY DEF WalkInv
<1>1. Depth = 1 /\ ~Listed /\ Parent = Root /\ Root \in Harnesses
  BY <1>0, GraphAssumption DEF ChainPart, AtTheEnd, OpenNotDone, Parent, GraphAssumption
<1>2. OnChain = {Root}
  BY <1>1 DEF OnChain, Parent
<1>3. Met = { p \in Harnesses : Whole(p) \in done \/ p = Root }
  BY <1>2 DEF Met
<1>4. Whole(h) \in Contributed <=> Whole(h) \in done
  <2>1. Whole(h) \in Nodes /\ Whole(h).id = h
    BY NodeTypes DEF Whole, Targets
  <2> QED BY <1>0, <2>1 DEF ResultPart, DoneIsContributed
<1>5. Whole(h) \in done => Reaches(Root, h)
  BY <1>0, <1>3 DEF ChainPart, ReachedOnly
<1>6. WholeIncludes(Root) \subseteq Met
  <2> SUFFICES ASSUME NEW q \in WholeIncludes(Root) PROVE q \in Met
    OBVIOUS
  <2>1. PICK k \in 1..Len(includes[Root]) : includes[Root][k].to = q /\ ~includes[Root][k].pick
    BY DEF WholeIncludes
  <2>2. 1 \in 1..Depth /\ chain[1].id = Root
    BY <1>0, <1>1 DEF ChainPart, OpenNotDone
  <2>3. k < chain[1].next
    BY <1>0, <1>1, <2>2, Graph DEF Listed
  <2> QED BY <1>0, <2>1, <2>2, <2>3 DEF ChainPart, ReadClosed, WholeIncludes
<1>7. Closed(Met)
  BY <1>0, <1>3, <1>6 DEF Closed, ChainPart, DoneClosed
<1>8. Met \in SUBSET Harnesses /\ Root \in Met
  BY <1>1, <1>3
<1>9. Reaches(Root, h) => h \in Met
  BY <1>7, <1>8 DEF Reaches
<1> QED BY <1>3, <1>4, <1>5, <1>9

\* A resolved graph has contributed every harness that whole includes lead to
\* from the root, through whatever cycles, and no other.
THEOREM AllAndOnlyReached == Spec => []AllReached
BY ReachedAll, WalkInvariant, PTL

\* A harness is contributed after all it includes whole, but for includes that
\* are noted and close a cycle the graph really has.
THEOREM DependenciesComeFirst == Spec => []DependenciesFirst
<1>1. WalkInv => DependenciesFirst
  BY DEF WalkInv, OrderPart, NotesClose, AllFollow, Follows, DependenciesFirst
<1> QED BY <1>1, WalkInvariant, PTL

\* Of every include graph, a resolved walk has contributed what whole includes
\* reach, and each of it once.
THEOREM EachIncludedOnce == Spec => []IncludedOnce
BY EachOnce, AllAndOnlyReached, PTL DEF IncludedOnce

-----------------------------------------------------------------------------
(* What is kept of a list                                                     *)

LEMMA Smallest ==
  ASSUME NEW T \in SUBSET Nat, T # {}
  PROVE  \E x \in T : \A y \in T : x <= y
<1>1. \A y \in Nat, x \in Nat : y < x => <<y, x>> \in OpToRel(<, Nat)
  BY Zenon DEF OpToRel
<1>2. \E x \in T : \A y \in T : ~(<<y, x>> \in OpToRel(<, Nat))
  BY NatLessThanWellFounded, WFMin, Zenon
<1>3. \E x \in T : \A y \in T : ~(y < x)
  BY <1>1, <1>2, Zenon
<1> QED BY <1>3

\* Of a finite set of numbers there is one that is the k-th.
LEMMA KthIs ==
  ASSUME NEW n \in Nat, NEW at \in SUBSET (1..n), NEW k \in 1..Cardinality(at)
  PROVE  \E i \in at : Cardinality({ j \in at : j <= i }) = k
<1> DEFINE upto(i) == { j \in at : j <= i }
           card(i) == Cardinality(upto(i))
           T == { i \in 0..n : card(i) >= k }
<1>1. \A j \in at : j \in Nat /\ 1 <= j /\ j <= n
  OBVIOUS
<1>2. IsFiniteSet(at) /\ Cardinality(at) \in Nat
  <2>1. IsFiniteSet(1..n)
    BY FS_Interval
  <2> QED BY <2>1, FS_Subset, FS_CardinalityType
<1>3. \A i \in 0..n : IsFiniteSet(upto(i)) /\ card(i) \in Nat
  <2>1. \A i \in 0..n : upto(i) \in SUBSET at
    OBVIOUS
  <2> QED BY <1>2, <2>1, FS_Subset, FS_CardinalityType
<1>4. k \in Nat /\ k >= 1 /\ k <= Cardinality(at)
  BY <1>2
<1>5. upto(n) = at
  BY <1>1
<1>6. upto(0) = {}
  <2>1. \A j \in at : ~(j <= 0)
    BY <1>1
  <2> QED BY <2>1
<1>7. card(0) = 0
  BY <1>6, FS_EmptySet
<1>8. ASSUME NEW i \in 1..n, i \notin at PROVE upto(i) = upto(i - 1)
  <2>1. \A j \in at : j <= i <=> j <= i - 1
    BY <1>1, <1>8
  <2> QED BY <2>1
<1>9. ASSUME NEW i \in 1..n, i \in at PROVE upto(i) = upto(i - 1) \union {i} /\ i \notin upto(i - 1)
  <2>1. \A j \in at : j <= i <=> (j <= i - 1 \/ j = i)
    BY <1>1, <1>9
  <2>2. ~(i <= i - 1)
    OBVIOUS
  <2> QED BY <1>9, <2>1, <2>2
<1>10. ASSUME NEW i \in 1..n, i \in at PROVE card(i) = card(i - 1) + 1
  <2>1. i - 1 \in 0..n
    OBVIOUS
  <2> QED BY <1>3, <1>9, <1>10, <2>1, FS_AddElement
<1>11. \A i \in 1..n : i \notin at => card(i) = card(i - 1)
  BY <1>8
<1>12. card(n) >= k
  BY <1>4, <1>5
<1> HIDE DEF upto, card
<1>13. T \in SUBSET Nat /\ n \in T
  BY <1>12
<1>14. PICK i \in T : \A j \in T : i <= j
  BY <1>13, Smallest
<1>15. i \in 0..n /\ card(i) >= k /\ i # 0
  BY <1>4, <1>7
<1>16. i \in 1..n /\ i - 1 \in 0..n
  BY <1>15
<1>17. i - 1 \notin T
  BY <1>14, <1>16
<1>18. card(i - 1) < k
  BY <1>3, <1>4, <1>16, <1>17
<1>19. i \in at
  BY <1>3, <1>4, <1>11, <1>15, <1>16, <1>18
<1>20. card(i) = k
  BY <1>3, <1>4, <1>10, <1>15, <1>16, <1>18, <1>19
<1> QED BY <1>19, <1>20 DEF card, upto

\* What is kept is of the list, and what is of the places to keep is kept.
LEMMA KeptAtIs ==
  ASSUME NEW S, NEW list \in Seq(S), NEW at \in SUBSET DOMAIN list
  PROVE  LET kept == KeptAt(list, at) IN
         kept \in Seq(S) /\ \A k \in DOMAIN kept : \E i \in at : kept[k] = list[i]
<1> DEFINE n == Cardinality(at)
           place(k) == CHOOSE i \in at : Cardinality({ j \in at : j <= i }) = k
           kept == KeptAt(list, at)
<1>1. DOMAIN list = 1..Len(list) /\ Len(list) \in Nat
  OBVIOUS
<1>2. n \in Nat
  <2>1. IsFiniteSet(1..Len(list))
    BY <1>1, FS_Interval
  <2> QED BY <1>1, <2>1, FS_Subset, FS_CardinalityType
<1>3. \A k \in 1..n : place(k) \in at
  <2> SUFFICES ASSUME NEW k \in 1..n PROVE \E i \in at : Cardinality({ j \in at : j <= i }) = k
    OBVIOUS
  <2> QED BY <1>1, KthIs
<1>4. kept = [k \in 1..n |-> list[place(k)]]
  BY DEF KeptAt
<1> HIDE DEF place, n, kept
<1>5. \A k \in 1..n : list[place(k)] \in S
  <2>1. \A i \in DOMAIN list : list[i] \in S
    OBVIOUS
  <2> QED BY <1>3, <2>1
<1>6. kept \in [1..n -> S]
  BY <1>4, <1>5
<1>7. kept \in Seq(S) /\ DOMAIN kept = 1..n
  BY <1>2, <1>6, SeqDef
<1>8. \A k \in 1..n : kept[k] = list[place(k)]
  BY <1>4
<1> QED BY <1>3, <1>7, <1>8 DEF kept

\* Every place to keep is kept somewhere: how many come no later is its own.
LEMMA AllAreKept ==
  ASSUME NEW list, NEW n \in Nat, DOMAIN list = 1..n, NEW at \in SUBSET (1..n), NEW i \in at
  PROVE  \E k \in DOMAIN KeptAt(list, at) : KeptAt(list, at)[k] = list[i]
<1> DEFINE upto(m) == { j \in at : j <= m }
           card(m) == Cardinality(upto(m))
<1>1. IsFiniteSet(1..n)
  BY FS_Interval
<1>2. IsFiniteSet(at) /\ Cardinality(at) \in Nat
  BY <1>1, FS_Subset, FS_CardinalityType
<1>3. \A m \in at : upto(m) \in SUBSET at /\ m \in upto(m) /\ m \in Nat
  OBVIOUS
<1>4. \A m \in at : IsFiniteSet(upto(m)) /\ card(m) \in Nat /\ card(m) <= Cardinality(at)
  BY <1>2, <1>3, FS_Subset, FS_CardinalityType
<1>5. \A m \in at : card(m) >= 1
  <2> SUFFICES ASSUME NEW m \in at PROVE card(m) # 0
    BY <1>4
  <2>1. upto(m) # {}
    BY <1>3
  <2> QED BY <1>4, <2>1, FS_EmptySet
<1>6. ASSUME NEW m \in at, NEW l \in at, m < l PROVE card(m) # card(l)
  <2>0. \A j \in at : j <= m => j <= l
    BY <1>3, <1>6
  <2>1. upto(m) \subseteq upto(l)
    BY <2>0
  <2>2. l \in upto(l) /\ l \notin upto(m)
    BY <1>3, <1>6
  <2>3. upto(m) # upto(l)
    BY <2>2
  <2> HIDE DEF upto
  <2> QED BY <1>4, <2>1, <2>3, FS_Subset
<1>7. \A m, l \in at : card(m) = card(l) => m = l
  BY <1>3, <1>6
<1>8. card(i) \in 1..Cardinality(at)
  BY <1>2, <1>4, <1>5
<1>9. (CHOOSE j \in at : card(j) = card(i)) = i
  BY <1>7
<1>10. KeptAt(list, at) = [k \in 1..Cardinality(at) |-> list[CHOOSE j \in at : card(j) = k]]
  BY DEF KeptAt
<1> HIDE DEF card
<1> QED BY <1>8, <1>9, <1>10
-----------------------------------------------------------------------------
(* The manifest and its editors                                               *)

JobFields == {"pc", "edit", "copy", "removals", "look"}
Looks == [ s : Scopes, src : Sources, from : Paths, change : Changes, entry : Includes ]

\* What a command has loaded, and what it has looked up if it updates an include,
\* whose picks are checked.
JobFits(j) ==
  /\ DOMAIN j = JobFields
  /\ j.pc = "edit" => j.copy \in Manifests
  /\ j.pc = "load" => j.edit = "update"
  /\ j.pc = "load" \/ (j.pc = "edit" /\ j.edit = "update") => j.look \in Looks /\ UpdatePicks(j.look.entry, j.look.change)

ManifestTypes ==
  /\ disk \in Manifests \union {Torn}
  /\ DOMAIN job = Procs /\ \A p \in Procs : JobFits(job[p])
  /\ loose \in BOOLEAN

\* Every entry's picks are where it points to.
Fits(m) == \A s \in Scopes : There(m, s) => \A i \in DOMAIN Of(m, s).includes : Checked(Of(m, s).includes[i])

\* The manifests users write are valid, and so are their picks.
WrittenWell == \A m \in Written : Validates(m) /\ Fits(m)

AllWell ==
  WrittenWell =>
    /\ EditsStayValid
    /\ ~loose => /\ disk # Torn => Fits(disk)
                 /\ \A p \in Procs : job[p].pc = "edit" => Fits(job[p].copy)

EditInv == ManifestTypes /\ AllWell

LEMMA SectionsOf ==
  ASSUME NEW m \in Manifests
  PROVE  /\ m.top \in Sections /\ \A s \in Profiles : m.profiles[s] \in Sections \union {None}
         /\ \A s \in Scopes : There(m, s) => Of(m, s) \in Sections
         /\ m.delegates \in Seq(Delegates) /\ m.focuses \in [Focuses -> Scopes \union {None}]
BY ManifestAssumption DEF Manifests, There, Of, Scopes

LEMMA WithIs ==
  ASSUME NEW m \in Manifests, NEW s \in Scopes, NEW section \in Sections
  PROVE  LET new == With(m, s, section) IN
         /\ new \in Manifests /\ new.focuses = m.focuses /\ Of(new, s) = section
         /\ \A t \in Scopes \ {s} : Of(new, t) = Of(m, t)
         /\ \A t \in Profiles \ {s} : new.profiles[t] = m.profiles[t]
         /\ s \in Profiles => new.profiles[s] = section
<1>1. CASE s = Top
  <2>1. With(m, s, section) = [m EXCEPT !.top = section]
    BY <1>1 DEF With
  <2>2. Top \notin Profiles
    BY ManifestAssumption
  <2> QED BY <1>1, <2>1, <2>2 DEF Manifests, Of, Scopes
<1>2. CASE s # Top
  <2>1. With(m, s, section) = [m EXCEPT !.profiles[s] = section] /\ s \in Profiles
    BY <1>2 DEF With, Scopes
  <2>2. Top \notin Profiles
    BY ManifestAssumption
  <2> QED BY <1>2, <2>1, <2>2 DEF Manifests, Of, Scopes
<1> QED BY <1>1, <1>2

\* A manifest is valid if each of its sections is, and no focus lacks its profile.
LEMMA ValidatesIs ==
  ASSUME NEW m \in Manifests
  PROVE  Validates(m) <=> /\ \A s \in Scopes : There(m, s) => ValidServers(Of(m, s))
                          /\ \A f \in Focuses : m.focuses[f] # None => There(m, m.focuses[f])
<1>1. Top \in Scopes /\ There(m, Top) /\ Of(m, Top) = m.top
  BY ManifestAssumption DEF Scopes, There, Of
<1>2. \A s \in Profiles : s \in Scopes /\ Of(m, s) = m.profiles[s] /\ (There(m, s) <=> m.profiles[s] # None)
  BY ManifestAssumption DEF Scopes, There, Of
<1>3. \A s \in Scopes : s = Top \/ s \in Profiles
  BY DEF Scopes
<1> QED BY <1>1, <1>2, <1>3 DEF Validates

\* To change a section that is there leaves all others as they are.
LEMMA SectionChanges ==
  ASSUME NEW m \in Manifests, NEW s \in Scopes, There(m, s), NEW section \in Sections
  PROVE  LET new == With(m, s, section) IN
         /\ new \in Manifests
         /\ Validates(m) /\ ValidServers(section) => Validates(new)
         /\ Fits(m) /\ (\A i \in DOMAIN section.includes : Checked(section.includes[i])) => Fits(new)
<1> DEFINE new == With(m, s, section)
<1>1. /\ new \in Manifests /\ new.focuses = m.focuses /\ Of(new, s) = section
      /\ \A t \in Scopes \ {s} : Of(new, t) = Of(m, t)
      /\ \A t \in Profiles \ {s} : new.profiles[t] = m.profiles[t]
      /\ s \in Profiles => new.profiles[s] = section
  BY WithIs
<1>2. section # None
  BY ManifestAssumption
<1> HIDE DEF new
<1>3. \A t : There(new, t) <=> There(m, t)
  BY <1>1, <1>2 DEF There
<1>4. Validates(m) /\ ValidServers(section) => Validates(new)
  BY <1>1, <1>3, ValidatesIs
<1>5. Fits(m) /\ (\A i \in DOMAIN section.includes : Checked(section.includes[i])) => Fits(new)
  BY <1>1, <1>3 DEF Fits
<1> QED BY <1>1, <1>4, <1>5 DEF new

LEMMA RootSectionIs ==
  ASSUME NEW m \in Manifests, NEW mcp \in [Servers -> {Absent, Null} \union Definitions],
         \A s \in Servers : mcp[s] \in {Absent, Null, m.top.mcp[s]}
  PROVE  LET new == [m EXCEPT !.top.mcp = mcp] IN
         new \in Manifests /\ (Validates(m) => Validates(new)) /\ (Fits(m) => Fits(new))
<1> DEFINE section == [m.top EXCEPT !.mcp = mcp]
           new == [m EXCEPT !.top.mcp = mcp]
<1>1. section \in Sections /\ section.includes = m.top.includes /\ section.mcp = mcp
  BY SectionsOf DEF Sections
<1>2. new = [m EXCEPT !.top = section]
  OBVIOUS
<1>3. new = With(m, Top, section) /\ There(m, Top) /\ Of(m, Top) = m.top /\ Top \in Scopes
  BY <1>2, ManifestAssumption DEF With, There, Of, Scopes
<1>4. {Absent, Null} \intersect Definitions = {}
  BY ManifestAssumption
<1> HIDE DEF section, new
<1>5. ValidServers(m.top) => ValidServers(section)
  BY <1>1, <1>4 DEF ValidServers
<1>6. Validates(m) => ValidServers(m.top)
  BY DEF Validates
<1>7. Fits(m) => \A i \in DOMAIN section.includes : Checked(section.includes[i])
  BY <1>1, <1>3 DEF Fits
<1>8. new \in Manifests /\ (Validates(m) => Validates(new)) /\ (Fits(m) => Fits(new))
  BY <1>1, <1>3, <1>5, <1>6, <1>7, SectionChanges
<1> QED BY <1>8 DEF new

\* To read a manifest and to write it changes the nulls of the harness alone.
LEMMA ReadIs ==
  ASSUME NEW m \in Manifests
  PROVE  Unmarshal(m) \in Manifests /\ (Validates(m) => Validates(Unmarshal(m))) /\ (Fits(m) => Fits(Unmarshal(m)))
<1> DEFINE mcp == [s \in Servers |-> IF m.top.mcp[s] = Null THEN Absent ELSE m.top.mcp[s]]
<1>1. Unmarshal(m) = [m EXCEPT !.top.mcp = mcp]
  BY DEF Unmarshal
<1>2. m.top.mcp \in [Servers -> {Absent, Null} \union Definitions]
  BY SectionsOf DEF Sections
<1>3. mcp \in [Servers -> {Absent, Null} \union Definitions] /\ \A s \in Servers : mcp[s] \in {Absent, Null, m.top.mcp[s]}
  BY <1>2
<1> HIDE DEF mcp
<1> QED BY <1>1, <1>3, RootSectionIs

LEMMA WriteIs ==
  ASSUME NEW m \in Manifests, NEW removals
  PROVE  LET new == Marshal(m, removals) IN
         new \in Manifests /\ (Validates(m) => Validates(new)) /\ (Fits(m) => Fits(new))
<1> DEFINE mcp == [s \in Servers |-> IF s \in removals THEN Null ELSE m.top.mcp[s]]
<1>1. Marshal(m, removals) = [m EXCEPT !.top.mcp = mcp]
  BY DEF Marshal
<1>2. m.top.mcp \in [Servers -> {Absent, Null} \union Definitions]
  BY SectionsOf DEF Sections
<1>3. mcp \in [Servers -> {Absent, Null} \union Definitions] /\ \A s \in Servers : mcp[s] \in {Absent, Null, m.top.mcp[s]}
  BY <1>2
<1> HIDE DEF mcp
<1> QED BY <1>1, <1>3, RootSectionIs

\* A command that ends or has not loaded yet holds no copy.
LEMMA JobsKeep ==
  ASSUME EditInv, NEW p \in Procs, UNCHANGED <<disk, loose>>,
         DOMAIN job' = Procs, \A q \in Procs \ {p} : job'[q] = job[q], JobFits(job'[p]),
         job'[p].pc = "edit" => disk # Torn /\ job'[p].copy = Unmarshal(disk)
  PROVE  EditInv'
<1>1. ManifestTypes'
  BY DEF EditInv, ManifestTypes
<1>2. disk # Torn => /\ Validates(disk) => Validates(Unmarshal(disk))
                     /\ Fits(disk) => Fits(Unmarshal(disk))
  BY ReadIs DEF EditInv, ManifestTypes
<1>3. AllWell'
  BY <1>2 DEF EditInv, AllWell, EditsStayValid, WrittenWell
<1> QED BY <1>1, <1>3 DEF EditInv

LEMMA IdleFits == JobFits(Idle) /\ Idle.pc = "idle"
BY DEF Idle, JobFits, JobFields

\* What a command writes is what others read, and its own copy is gone.
LEMMA SaveKeeps ==
  ASSUME EditInv, NEW p \in Procs, NEW m \in Manifests, Save(p, m),
         WrittenWell => Validates(m), WrittenWell /\ ~loose' => Fits(m),
         loose' \in BOOLEAN, loose => loose'
  PROVE  EditInv'
<1>1. job' = [job EXCEPT ![p] = Idle] /\ DOMAIN job = Procs
  BY DEF Save, EditInv, ManifestTypes
<1>2. DOMAIN job' = Procs /\ job'[p] = Idle /\ \A q \in Procs \ {p} : job'[q] = job[q]
  BY <1>1
<1>3. disk' = Torn \/ disk' = Marshal(m, job[p].removals)
  BY DEF Save
<1>4. /\ Marshal(m, job[p].removals) \in Manifests
      /\ Validates(m) => Validates(Marshal(m, job[p].removals))
      /\ Fits(m) => Fits(Marshal(m, job[p].removals))
  BY WriteIs
<1>5. ManifestTypes'
  BY <1>2, <1>3, <1>4, IdleFits DEF EditInv, ManifestTypes
<1>6. WrittenWell => EditsStayValid'
  BY <1>2, <1>3, <1>4, IdleFits DEF EditInv, AllWell, EditsStayValid
<1>7. WrittenWell /\ ~loose' => /\ disk' # Torn => Fits(disk')
                                /\ \A q \in Procs : job'[q].pc = "edit" => Fits(job'[q].copy)
  BY <1>2, <1>3, <1>4, IdleFits DEF EditInv, AllWell
<1>8. AllWell'
  BY <1>6, <1>7 DEF AllWell, WrittenWell
<1> QED BY <1>5, <1>8 DEF EditInv

LEMMA LoadedFits ==
  ASSUME NEW j, DOMAIN j = JobFields, disk \in Manifests,
         j.edit = "update" => j.look \in Looks /\ UpdatePicks(j.look.entry, j.look.change)
  PROVE  JobFits(Loaded(j)) /\ Loaded(j).copy = Unmarshal(disk)
<1>1. Unmarshal(disk) \in Manifests
  BY ReadIs
<1>2. /\ DOMAIN Loaded(j) = JobFields /\ Loaded(j).pc = "edit" /\ Loaded(j).copy = Unmarshal(disk)
      /\ Loaded(j).edit = j.edit /\ Loaded(j).look = j.look
  BY DEF Loaded, JobFields
<1> QED BY <1>1, <1>2 DEF JobFits

LEMMA BeginKeeps ==
  ASSUME EditInv, NEW p \in Procs, NEW edit, Begin(p, edit)
  PROVE  EditInv'
<1>1. /\ job[p] = Idle /\ disk \in Manifests /\ UNCHANGED <<disk, loose>> /\ DOMAIN job = Procs
      /\ disk # Torn
  BY DEF Begin, EditInv, ManifestTypes
<1>2. CASE edit = "update"
  <2> DEFINE new == [Idle EXCEPT !.pc = "look", !.edit = edit]
  <2>1. job' = [job EXCEPT ![p] = new]
    BY <1>1, <1>2 DEF Begin
  <2>2. JobFits(new) /\ new.pc = "look"
    BY DEF Idle, JobFits, JobFields
  <2> HIDE DEF new
  <2> QED BY <1>1, <2>1, <2>2, JobsKeep
<1>3. CASE edit # "update"
  <2> DEFINE j == [Idle EXCEPT !.edit = edit]
  <2>1. job' = [job EXCEPT ![p] = Loaded(j)]
    BY <1>1, <1>3 DEF Begin
  <2>2. DOMAIN j = JobFields /\ j.edit # "update"
    BY <1>3 DEF Idle, JobFields
  <2> HIDE DEF j
  <2>3. JobFits(Loaded(j)) /\ Loaded(j).copy = Unmarshal(disk)
    BY <1>1, <2>2, LoadedFits
  <2> QED BY <1>1, <2>1, <2>3, JobsKeep
<1> QED BY <1>2, <1>3

LEMMA ReloadKeeps ==
  ASSUME EditInv, NEW p \in Procs, Reload(p)
  PROVE  EditInv'
<1>1. /\ job[p].pc = "load" /\ disk \in Manifests /\ UNCHANGED <<disk, loose>> /\ DOMAIN job = Procs
      /\ JobFits(job[p]) /\ disk # Torn
  BY DEF Reload, EditInv, ManifestTypes
<1>2. job' = [job EXCEPT ![p] = Loaded(job[p])]
  BY <1>1 DEF Reload
<1>3. JobFits(Loaded(job[p])) /\ Loaded(job[p]).copy = Unmarshal(disk)
  BY <1>1, LoadedFits DEF JobFits
<1> QED BY <1>1, <1>2, <1>3, JobsKeep

LEMMA RefuseKeeps ==
  ASSUME EditInv, NEW p \in Procs, job' = [job EXCEPT ![p] = Idle], UNCHANGED <<disk, loose>>
  PROVE  EditInv'
<1>1. DOMAIN job = Procs
  BY DEF EditInv, ManifestTypes
<1> QED BY <1>1, IdleFits, JobsKeep

\* The only place of an update is one of the source, in the list.
LEMMA TargetIs ==
  ASSUME NEW list \in Seq(Includes), NEW src, NEW from, NEW i \in Target(list, src, from)
  PROVE  i \in DOMAIN list
<1>1. At(list, src, from) \subseteq DOMAIN list /\ Matches(list, src) \subseteq DOMAIN list
  BY DEF At, Matches
<1>2. DOMAIN list \subseteq Nat
  OBVIOUS
<1>3. At(list, src, from) # {} => First(At(list, src, from)) \in At(list, src, from)
  <2> DEFINE S == At(list, src, from)
  <2>1. S \in SUBSET Nat
    BY <1>1, <1>2
  <2> HIDE DEF S
  <2>2. S # {} => \E x \in S : \A y \in S : x <= y
    BY <2>1, Smallest
  <2>3. S # {} => First(S) \in S
    BY <2>2 DEF First
  <2> QED BY <2>3 DEF S
<1> QED BY <1>1, <1>3 DEF Target

LEMMA LookKeeps ==
  ASSUME EditInv, NEW p \in Procs, NEW s \in Scopes, NEW src \in Sources, NEW from \in Paths, NEW c \in Changes,
         FindUpdateTarget(p, s, src, from, c), job[p].edit = "update"
  PROVE  EditInv'
<1>1. /\ UNCHANGED <<disk, loose>> /\ disk \in Manifests /\ There(disk, s) /\ DOMAIN job = Procs
      /\ DOMAIN job[p] = JobFields
  BY DEF FindUpdateTarget, EditInv, ManifestTypes, JobFits
<1> DEFINE list == Of(disk, s).includes
           look(i) == [ s |-> s, src |-> src, from |-> from, change |-> c, entry |-> list[i] ]
           new(i) == [job[p] EXCEPT !.pc = "load", !.look = look(i)]
<1>2. PICK i \in Target(list, src, from) : UpdatePicks(list[i], c) /\ job' = [job EXCEPT ![p] = new(i)]
  BY <1>1 DEF FindUpdateTarget
<1>3. list \in Seq(Includes)
  BY <1>1, SectionsOf DEF Sections
<1>4. list[i] \in Includes
  <2>1. i \in DOMAIN list
    BY <1>3, TargetIs
  <2> QED BY <1>3, <2>1
<1>5. look(i) \in Looks /\ look(i).entry = list[i] /\ look(i).change = c
  BY <1>4 DEF Looks
<1> HIDE DEF list, look
<1>6. /\ DOMAIN new(i) = JobFields /\ new(i).pc = "load" /\ new(i).look = look(i)
      /\ new(i).edit = job[p].edit
  BY <1>1 DEF JobFields
<1>7. JobFits(new(i)) /\ new(i).pc = "load"
  BY <1>2, <1>5, <1>6 DEF JobFits
<1> HIDE DEF new
<1> QED BY <1>1, <1>2, <1>7, JobsKeep

LEMMA CopyFits ==
  ASSUME EditInv, NEW p \in Procs, job[p].pc = "edit"
  PROVE  /\ job[p].copy \in Manifests
         /\ WrittenWell => Validates(job[p].copy)
         /\ WrittenWell /\ ~loose => Fits(job[p].copy)
BY DEF EditInv, ManifestTypes, JobFits, AllWell, EditsStayValid

LEMMA SavesKeeps ==
  ASSUME EditInv, NEW p \in Procs, job[p].pc = "edit", NEW m \in Manifests, Saves(p, m),
         Validates(job[p].copy) => Validates(m), Fits(job[p].copy) => Fits(m)
  PROVE  EditInv'
<1>1. loose' = loose /\ loose \in BOOLEAN
  BY DEF Saves, EditInv, ManifestTypes
<1> QED BY <1>1, CopyFits, SaveKeeps DEF Saves

\* A section that is saved in the place of the one that was there.
LEMMA SectionKeeps ==
  ASSUME EditInv, NEW p \in Procs, job[p].pc = "edit", NEW s \in Scopes, There(job[p].copy, s),
         NEW section \in Sections, Saves(p, With(job[p].copy, s, section)),
         ValidServers(Of(job[p].copy, s)) => ValidServers(section),
         LET list == Of(job[p].copy, s).includes
         IN \A i \in DOMAIN section.includes :
              Checked(section.includes[i]) \/ \E j \in DOMAIN list : section.includes[i] = list[j]
  PROVE  EditInv'
<1> DEFINE m == job[p].copy
<1>1. m \in Manifests
  BY CopyFits
<1>2. Validates(m) => ValidServers(Of(m, s))
  BY <1>1, ValidatesIs
<1>3. Fits(m) => \A i \in DOMAIN section.includes : Checked(section.includes[i])
  BY DEF Fits
<1>4. /\ With(m, s, section) \in Manifests
      /\ Validates(m) => Validates(With(m, s, section))
      /\ Fits(m) => Fits(With(m, s, section))
  BY <1>1, <1>2, <1>3, SectionChanges
<1> QED BY <1>4, SavesKeeps

LEMMA IncludesChange ==
  ASSUME NEW section \in Sections, NEW list \in Seq(Includes)
  PROVE  LET new == [section EXCEPT !.includes = list] IN
         new \in Sections /\ new.includes = list /\ (ValidServers(section) => ValidServers(new))
BY DEF Sections, ValidServers

LEMMA Replaced ==
  ASSUME NEW list \in Seq(Includes), NEW e \in Includes, NEW i
  PROVE  LET new == [list EXCEPT ![i] = e] IN
         new \in Seq(Includes) /\ DOMAIN new = DOMAIN list /\ \A j \in DOMAIN list : new[j] = IF j = i THEN e ELSE list[j]
<1>1. list \in [1..Len(list) -> Includes] /\ Len(list) \in Nat
  OBVIOUS
<1>2. [list EXCEPT ![i] = e] \in [1..Len(list) -> Includes]
  BY <1>1
<1> QED BY <1>1, <1>2, SeqDef

LEMMA AddIncludeKeeps ==
  ASSUME EditInv, NEW p \in Procs, NEW s \in Scopes, NEW e \in Includes, NEW replace, AddInclude(p, s, e, replace)
  PROVE  EditInv'
<1> DEFINE m == job[p].copy
           list == Of(m, s).includes
           same == At(list, e.src, e.path)
           new == IF same = {} THEN Append(list, e) ELSE [list EXCEPT ![First(same)] = e]
           section == [Of(m, s) EXCEPT !.includes = new]
<1>1. job[p].pc = "edit" /\ There(m, s) /\ Checked(e) /\ Saves(p, With(m, s, section))
  BY DEF AddInclude, Editing
<1>2. Of(m, s) \in Sections
  BY <1>1, CopyFits, SectionsOf
<1>3. list \in Seq(Includes)
  BY <1>2 DEF Sections
<1> HIDE DEF list
<1> DEFINE Mixed(l) == l \in Seq(Includes) /\ \A i \in DOMAIN l : l[i] = e \/ (i \in DOMAIN list /\ l[i] = list[i])
<1>4. Mixed(Append(list, e))
  BY <1>3
<1>5. \A i : Mixed([list EXCEPT ![i] = e])
  BY <1>3, Replaced
<1> HIDE DEF Mixed
<1>6. Mixed(new)
  BY <1>4, <1>5
<1> HIDE DEF new, same
<1>7. section \in Sections /\ section.includes = new /\ (ValidServers(Of(m, s)) => ValidServers(section))
  BY <1>2, <1>6, IncludesChange DEF Mixed
<1>8. \A i \in DOMAIN section.includes : Checked(section.includes[i]) \/ \E j \in DOMAIN list : section.includes[i] = list[j]
  BY <1>1, <1>6, <1>7 DEF Mixed
<1> HIDE DEF section
<1> QED BY <1>1, <1>7, <1>8, SectionKeeps DEF list

LEMMA RemoveIncludeKeeps ==
  ASSUME EditInv, NEW p \in Procs, NEW s \in Scopes, NEW src, NEW path, RemoveInclude(p, s, src, path)
  PROVE  EditInv'
<1> DEFINE m == job[p].copy
           list == Of(m, s).includes
           at == DOMAIN list \ (IF path = NoPath THEN Matches(list, src) ELSE At(list, src, path))
           new == KeptAt(list, at)
           section == [Of(m, s) EXCEPT !.includes = new]
<1>1. job[p].pc = "edit" /\ There(m, s) /\ Saves(p, With(m, s, section))
  BY DEF RemoveInclude, Editing, Without
<1>2. Of(m, s) \in Sections
  BY <1>1, CopyFits, SectionsOf
<1>3. list \in Seq(Includes) /\ at \in SUBSET DOMAIN list
  BY <1>2 DEF Sections
<1> HIDE DEF list, at
<1>4. new \in Seq(Includes) /\ \A k \in DOMAIN new : \E i \in at : new[k] = list[i]
  BY <1>3, KeptAtIs
<1> HIDE DEF new
<1>5. section \in Sections /\ section.includes = new /\ (ValidServers(Of(m, s)) => ValidServers(section))
  BY <1>2, <1>4, IncludesChange
<1>6. \A i \in DOMAIN section.includes : \E j \in DOMAIN list : section.includes[i] = list[j]
  BY <1>3, <1>4, <1>5
<1> HIDE DEF section
<1> QED BY <1>1, <1>5, <1>6, SectionKeeps DEF list

\* An entry that is the one that was looked at has picks that were checked where
\* it will point to, or has those it had where it points to still.
LEMMA UpdateIncludeKeeps ==
  ASSUME EditInv, NEW p \in Procs, UpdateInclude(p)
  PROVE  EditInv'
<1> DEFINE m == job[p].copy
           l == job[p].look
           list == Of(m, l.s).includes
           new(i) == [list EXCEPT ![i] = Changed(list[i], l.change)]
           section(i) == [Of(m, l.s) EXCEPT !.includes = new(i)]
<1>1. job[p].pc = "edit" /\ job[p].edit = "update" /\ There(m, l.s)
  BY DEF UpdateInclude, Editing
<1>2. PICK i \in Target(list, l.src, l.from) :
        /\ Save(p, With(m, l.s, [Of(m, l.s) EXCEPT !.includes[i] = Changed(list[i], l.change)]))
        /\ loose' = (loose \/ list[i] # l.entry \/ (l.change.path # None /\ l.change.pick = None))
  BY Zenon DEF UpdateInclude
<1>3. l \in Looks /\ UpdatePicks(l.entry, l.change) /\ m \in Manifests
  BY <1>1 DEF EditInv, ManifestTypes, JobFits
<1>4. l.s \in Scopes /\ l.change \in Changes /\ l.entry \in Includes
  BY <1>3 DEF Looks
<1>5. Of(m, l.s) \in Sections
  BY <1>1, <1>3, <1>4, SectionsOf
<1>6. list \in Seq(Includes)
  BY <1>5 DEF Sections
<1>7. i \in DOMAIN list /\ list[i] \in Includes
  <2>1. i \in DOMAIN list
    BY <1>6, TargetIs
  <2> QED BY <1>6, <2>1
<1>8. [Of(m, l.s) EXCEPT !.includes[i] = Changed(list[i], l.change)] = section(i)
  OBVIOUS
<1>9. Save(p, With(m, l.s, section(i)))
  BY <1>2, <1>8
<1> HIDE DEF list
<1>10. Changed(list[i], l.change) \in Includes
  BY <1>4, <1>7 DEF Changed, Changes, Includes
<1>11. new(i) \in Seq(Includes) /\ DOMAIN new(i) = DOMAIN list
  BY <1>6, <1>10, Replaced
<1>12. \A j \in DOMAIN list : new(i)[j] = IF j = i THEN Changed(list[i], l.change) ELSE list[j]
  BY <1>6, <1>10, Replaced
<1> HIDE DEF new
<1>13. /\ section(i) \in Sections /\ section(i).includes = new(i)
       /\ ValidServers(Of(m, l.s)) => ValidServers(section(i))
  BY <1>5, <1>11, IncludesChange
<1> HIDE DEF section
<1>14. loose' \in BOOLEAN /\ (loose => loose')
  BY <1>2 DEF EditInv, ManifestTypes
<1>15. ~loose' => ~loose /\ list[i] = l.entry /\ (l.change.path = None \/ l.change.pick # None)
  BY <1>2, <1>14
<1>16. ~loose' /\ Checked(list[i]) => Checked(Changed(list[i], l.change))
  <2>1. CASE l.change.pick # None
    BY <1>3, <1>15, <2>1 DEF UpdatePicks
  <2>2. CASE l.change.pick = None /\ l.change.path = None
    <3>1. Changed(list[i], l.change) = list[i]
      BY <1>7, <2>2 DEF Changed, Includes
    <3> QED BY <3>1
  <2> QED BY <1>15, <2>1, <2>2
<1>17. Fits(m) => \A j \in DOMAIN list : Checked(list[j])
  BY <1>1, <1>4 DEF Fits, list
<1>18. ~loose' /\ Fits(m) => \A j \in DOMAIN section(i).includes : Checked(section(i).includes[j])
  BY <1>7, <1>11, <1>12, <1>13, <1>16, <1>17
<1>19. Validates(m) => ValidServers(Of(m, l.s))
  BY <1>1, <1>3, <1>4, ValidatesIs
<1>20. /\ With(m, l.s, section(i)) \in Manifests
       /\ Validates(m) => Validates(With(m, l.s, section(i)))
       /\ ~loose' /\ Fits(m) => Fits(With(m, l.s, section(i)))
  BY <1>1, <1>3, <1>4, <1>13, <1>18, <1>19, SectionChanges
<1>21. (WrittenWell => Validates(m)) /\ (WrittenWell /\ ~loose => Fits(m))
  BY <1>1, CopyFits
<1> QED BY <1>9, <1>14, <1>15, <1>20, <1>21, SaveKeeps

LEMMA EditIncludesKeeps ==
  ASSUME EditInv, NEW p \in Procs, EditIncludes(p, job[p].edit)
  PROVE  EditInv'
<1>1. PICK s \in Scopes, src \in Sources, path \in Paths :
        \/ \E pick \in SUBSET Picks, hooks, replace \in BOOLEAN :
             AddInclude(p, s, [ src |-> src, path |-> path, pick |-> pick, hooks |-> hooks ], replace)
        \/ RemoveInclude(p, s, src, path)
        \/ job[p].edit = "update" /\ \E c \in Changes : FindUpdateTarget(p, s, src, path, c)
  BY Zenon DEF EditIncludes
<1>2. \A pick \in SUBSET Picks, hooks \in BOOLEAN : [ src |-> src, path |-> path, pick |-> pick, hooks |-> hooks ] \in Includes
  BY DEF Includes
<1> QED BY <1>1, <1>2, AddIncludeKeeps, RemoveIncludeKeeps, LookKeeps

\* An edit of what is neither a section nor a focus.
LEMMA DelegatesChange ==
  ASSUME NEW m \in Manifests, NEW list \in Seq(Delegates)
  PROVE  LET new == [m EXCEPT !.delegates = list] IN
         new \in Manifests /\ (Validates(m) => Validates(new)) /\ (Fits(m) => Fits(new))
<1> DEFINE new == [m EXCEPT !.delegates = list]
<1>1. new \in Manifests /\ new.top = m.top /\ new.profiles = m.profiles /\ new.focuses = m.focuses
  BY DEF Manifests
<1> HIDE DEF new
<1>2. \A s : Of(new, s) = Of(m, s) /\ (There(new, s) <=> There(m, s))
  BY <1>1 DEF Of, There
<1>3. (Validates(m) => Validates(new)) /\ (Fits(m) => Fits(new))
  BY <1>1, <1>2 DEF Validates, Fits
<1> QED BY <1>1, <1>3 DEF new

LEMMA DelegatesSaved ==
  ASSUME EditInv, NEW p \in Procs, job[p].pc = "edit", NEW list \in Seq(Delegates),
         Saves(p, [job[p].copy EXCEPT !.delegates = list])
  PROVE  EditInv'
BY CopyFits, DelegatesChange, SavesKeeps

LEMMA EditDelegatesKeeps ==
  ASSUME EditInv, NEW p \in Procs, EditDelegates(p)
  PROVE  EditInv'
<1> DEFINE m == job[p].copy
<1>1. ASSUME job[p].pc = "edit" PROVE m.delegates \in Seq(Delegates)
  BY <1>1, CopyFits, SectionsOf
<1>2. ASSUME NEW src \in Sources, NEW path \in Paths, NEW sel \in Selections \union {None}, AddDelegate(p, src, path, sel)
      PROVE  EditInv'
  <2>1. job[p].pc = "edit"
    BY <1>2 DEF AddDelegate, Editing
  <2>2. PICK located \in Located(src, path) :
          LET d == [ src |-> src, path |-> located, sel |-> sel ] IN
          \/ Saves(p, [m EXCEPT !.delegates = Append(@, d)])
          \/ job' = [job EXCEPT ![p] = Idle] /\ UNCHANGED <<disk, loose>>
    BY <1>2 DEF AddDelegate
  <2>3. located \in Paths
    BY DEF Located
  <2> DEFINE d == [ src |-> src, path |-> located, sel |-> sel ]
             new == Append(m.delegates, d)
  <2>4. d \in Delegates
    BY <2>3 DEF Delegates
  <2>5. [m EXCEPT !.delegates = Append(@, d)] = [m EXCEPT !.delegates = new]
    OBVIOUS
  <2> HIDE DEF d
  <2>6. new \in Seq(Delegates)
    BY <1>1, <2>1, <2>4
  <2>7. Saves(p, [m EXCEPT !.delegates = new]) \/ (job' = [job EXCEPT ![p] = Idle] /\ UNCHANGED <<disk, loose>>)
    BY <2>2, <2>5 DEF d
  <2> HIDE DEF new
  <2> QED BY <2>1, <2>6, <2>7, DelegatesSaved, RefuseKeeps
<1>3. ASSUME NEW src, NEW path, RemoveDelegate(p, src, path) PROVE EditInv'
  <2> DEFINE list == m.delegates
             at == DOMAIN list \ (IF path = NoPath THEN Matches(list, src) ELSE At(list, src, path))
             new == KeptAt(list, at)
  <2>1. job[p].pc = "edit" /\ Saves(p, [m EXCEPT !.delegates = new])
    BY <1>3 DEF RemoveDelegate, Editing, Without
  <2>2. list \in Seq(Delegates) /\ at \in SUBSET DOMAIN list
    BY <1>1, <2>1
  <2> HIDE DEF list, at
  <2>3. new \in Seq(Delegates)
    BY <2>2, KeptAtIs
  <2> HIDE DEF new
  <2> QED BY <2>1, <2>3, DelegatesSaved
<1>4. ASSUME NEW src, NEW from, NEW path \in Paths, UpdateDelegate(p, src, from, path) PROVE EditInv'
  <2>1. PICK i : job[p].pc = "edit" /\ Saves(p, [m EXCEPT !.delegates[i].path = path])
    BY <1>4 DEF UpdateDelegate, Editing
  <2> DEFINE list == m.delegates
             new == [list EXCEPT ![i].path = path]
  <2>2. list \in Seq(Delegates)
    BY <1>1, <2>1
  <2>3. [m EXCEPT !.delegates[i].path = path] = [m EXCEPT !.delegates = new]
    OBVIOUS
  <2> HIDE DEF list
  <2>4. list \in [1..Len(list) -> Delegates] /\ Len(list) \in Nat
    BY <2>2
  <2>5. i \in 1..Len(list) => [list[i] EXCEPT !.path = path] \in Delegates
    BY <2>4 DEF Delegates
  <2>6. new \in [1..Len(list) -> Delegates]
    BY <2>4, <2>5
  <2>7. new \in Seq(Delegates)
    BY <2>4, <2>6, SeqDef
  <2> HIDE DEF new
  <2> QED BY <2>1, <2>3, <2>7, DelegatesSaved
<1> QED BY <1>2, <1>3, <1>4 DEF EditDelegates

LEMMA EditFocusesKeeps ==
  ASSUME EditInv, NEW p \in Procs, EditFocuses(p)
  PROVE  EditInv'
<1> DEFINE m == job[p].copy
<1>1. PICK f \in Focuses, s \in Scopes \union {None} :
        job[p].pc = "edit" /\ (s # None => There(m, s)) /\ Saves(p, [m EXCEPT !.focuses[f] = s])
  BY DEF EditFocuses, AddFocus, UpdateFocus, RemoveFocus, Editing
<1> DEFINE new == [m EXCEPT !.focuses[f] = s]
<1>2. m \in Manifests
  BY <1>1, CopyFits
<1>3. new \in Manifests /\ new.top = m.top /\ new.profiles = m.profiles
  BY <1>2 DEF Manifests
<1>4. \A g \in Focuses : new.focuses[g] = IF g = f THEN s ELSE m.focuses[g]
  BY <1>2 DEF Manifests
<1> HIDE DEF new
<1>5. \A t : Of(new, t) = Of(m, t) /\ (There(new, t) <=> There(m, t))
  BY <1>3 DEF Of, There
<1>6. (Validates(m) => Validates(new)) /\ (Fits(m) => Fits(new))
  BY <1>1, <1>3, <1>4, <1>5 DEF Validates, Fits
<1>7. Saves(p, new)
  BY <1>1 DEF new
<1> QED BY <1>1, <1>3, <1>6, <1>7, SavesKeeps

LEMMA EmptyFits == Empty \in Sections /\ Empty # None /\ Empty.includes = <<>> /\ ValidServers(Empty)
<1>1. Empty \in Sections /\ Empty.includes = <<>> /\ ValidServers(Empty)
  BY ManifestAssumption DEF Empty, Sections, Nothing, ValidServers
<1> QED BY <1>1, ManifestAssumption

\* A profile that is added is empty; none is removed that a focus has.
LEMMA EditProfilesKeeps ==
  ASSUME EditInv, NEW p \in Procs, EditProfiles(p)
  PROVE  EditInv'
<1> DEFINE m == job[p].copy
<1>1. PICK s \in Profiles, section \in {Empty, None} :
        /\ job[p].pc = "edit" /\ Saves(p, [m EXCEPT !.profiles[s] = section])
        /\ section = None => ~Blocked(m, s)
        /\ section = Empty \/ section = None
  <2>1. PICK s \in Profiles : AddProfile(p, s) \/ RemoveProfile(p, s)
    BY DEF EditProfiles
  <2>2. AddProfile(p, s) => job[p].pc = "edit" /\ Saves(p, [m EXCEPT !.profiles[s] = Empty]) /\ Empty # None
    BY EmptyFits DEF AddProfile, Editing
  <2>3. RemoveProfile(p, s) => job[p].pc = "edit" /\ Saves(p, [m EXCEPT !.profiles[s] = None]) /\ ~Blocked(m, s)
    BY DEF RemoveProfile, Editing
  <2> QED BY <2>1, <2>2, <2>3
<1> DEFINE new == [m EXCEPT !.profiles[s] = section]
<1>2. m \in Manifests
  BY <1>1, CopyFits
<1>3. Empty \in Sections /\ Empty.includes = <<>> /\ ValidServers(Empty)
  BY EmptyFits
<1>4. new \in Manifests /\ new.top = m.top /\ new.focuses = m.focuses
  BY <1>2, <1>3 DEF Manifests
<1>5. \A t \in Profiles : new.profiles[t] = IF t = s THEN section ELSE m.profiles[t]
  BY <1>2 DEF Manifests
<1> HIDE DEF new
<1>6. Top \notin Profiles /\ None \notin Sections
  BY ManifestAssumption
<1>7. \A t \in Scopes : t # s => Of(new, t) = Of(m, t) /\ (There(new, t) <=> There(m, t))
  BY <1>4, <1>5 DEF Of, There, Scopes
<1>8. /\ section = None => ~There(new, s)
      /\ section = Empty => There(new, s) /\ Of(new, s) = Empty
  BY <1>3, <1>5, <1>6 DEF Of, There
<1>9. Validates(m) => Validates(new)
  <2> SUFFICES ASSUME Validates(m) PROVE Validates(new)
    OBVIOUS
  <2>1. \A t \in Scopes : There(new, t) => ValidServers(Of(new, t))
    BY <1>1, <1>2, <1>3, <1>7, <1>8, ValidatesIs
  <2>2. ASSUME NEW f \in Focuses, new.focuses[f] # None PROVE There(new, new.focuses[f])
    <3>1. m.focuses[f] = new.focuses[f] /\ There(m, m.focuses[f]) /\ m.focuses[f] \in Scopes
      BY <1>2, <1>4, <2>2, ValidatesIs, SectionsOf
    <3>2. section = None => m.focuses[f] # s
      BY <1>1 DEF Blocked
    <3> QED BY <1>1, <1>7, <1>8, <3>1, <3>2
  <2> QED BY <1>4, <2>1, <2>2, ValidatesIs
<1>10. Fits(m) => Fits(new)
  <2>1. DOMAIN Empty.includes = {}
    BY <1>3
  <2> QED BY <1>1, <1>7, <1>8, <2>1 DEF Fits
<1>11. Saves(p, new)
  BY <1>1 DEF new
<1> QED BY <1>1, <1>4, <1>9, <1>10, <1>11, SavesKeeps

LEMMA EditHooksKeeps ==
  ASSUME EditInv, NEW p \in Procs, EditHooks(p)
  PROVE  EditInv'
<1> DEFINE m == job[p].copy
<1>1. ASSUME NEW s \in Scopes, NEW e \in Events, NEW list \in Seq(Commands), job[p].pc = "edit", There(m, s),
             Saves(p, With(m, s, [Of(m, s) EXCEPT !.hooks[e] = list]))
      PROVE  EditInv'
  <2> DEFINE section == [Of(m, s) EXCEPT !.hooks[e] = list]
  <2>1. Of(m, s) \in Sections
    BY <1>1, CopyFits, SectionsOf
  <2>2. section \in Sections /\ section.includes = Of(m, s).includes /\ section.mcp = Of(m, s).mcp
    BY <2>1 DEF Sections
  <2>3. Saves(p, With(m, s, section))
    BY <1>1
  <2> HIDE DEF section
  <2>4. ValidServers(Of(m, s)) => ValidServers(section)
    BY <2>2 DEF ValidServers
  <2> QED BY <1>1, <2>2, <2>3, <2>4, SectionKeeps
<1>2. ASSUME NEW s \in Scopes, NEW e \in Events, job[p].pc = "edit", There(m, s)
      PROVE  Of(m, s).hooks[e] \in Seq(Commands)
  BY <1>2, CopyFits, SectionsOf DEF Sections
<1>3. ASSUME NEW s \in Scopes, NEW e \in Events, NEW c \in Commands, AddHook(p, s, e, c) PROVE EditInv'
  <2> DEFINE list == Append(Of(m, s).hooks[e], c)
  <2>1. job[p].pc = "edit" /\ There(m, s) /\ Saves(p, With(m, s, [Of(m, s) EXCEPT !.hooks[e] = list]))
    BY <1>3 DEF AddHook, Editing
  <2>2. list \in Seq(Commands)
    BY <1>2, <2>1
  <2> HIDE DEF list
  <2> QED BY <1>1, <2>1, <2>2
<1>4. ASSUME NEW s \in Scopes, NEW e \in Events, NEW i, RemoveHook(p, s, e, i) PROVE EditInv'
  <2> DEFINE old == Of(m, s).hooks[e]
             list == RemoveAt(old, i)
  <2>1. job[p].pc = "edit" /\ There(m, s) /\ i \in DOMAIN old /\ Saves(p, With(m, s, [Of(m, s) EXCEPT !.hooks[e] = list]))
    BY <1>4 DEF RemoveHook, Editing
  <2>2. old \in Seq(Commands)
    BY <1>2, <2>1
  <2> HIDE DEF old
  <2>3. list \in Seq(Commands)
    <3>1. i \in 1..Len(old) /\ Len(old) \in Nat
      BY <2>1, <2>2
    <3>2. SubSeq(old, 1, i - 1) \in Seq(Commands) /\ SubSeq(old, i + 1, Len(old)) \in Seq(Commands)
      BY <2>2, <3>1
    <3> QED BY <3>2 DEF RemoveAt
  <2> HIDE DEF list
  <2> QED BY <1>1, <2>1, <2>3 DEF old
<1> QED BY <1>3, <1>4 DEF EditHooks

\* A server that is put is valid, a removal or nothing.
LEMMA EditServersKeeps ==
  ASSUME EditInv, NEW p \in Procs, EditServers(p)
  PROVE  EditInv'
<1> DEFINE m == job[p].copy
<1>1. PICK s \in Scopes, server \in Servers, value \in {Absent, Null} \union Definitions :
        /\ job[p].pc = "edit" /\ There(m, s) /\ (value \in Definitions => Valid(value))
        /\ Saves(p, Put(m, s, server, value))
  <2>1. PICK s \in Scopes, server \in Servers :
          \/ \E value \in Definitions \union {Null} : AddMCP(p, s, server, value)
          \/ RemoveMCP(p, s, server)
          \/ \E def \in Definitions : UpdateMCP(p, s, server, def)
    BY DEF EditServers
  <2>2. {Absent, Null} \intersect Definitions = {}
    BY ManifestAssumption
  <2> QED BY <2>1, <2>2 DEF AddMCP, RemoveMCP, UpdateMCP, Editing, StillValid
<1> DEFINE section == [Of(m, s) EXCEPT !.mcp[server] = value]
<1>2. Of(m, s) \in Sections
  BY <1>1, CopyFits, SectionsOf
<1>3. section \in Sections /\ section.includes = Of(m, s).includes
  BY <1>2 DEF Sections
<1>4. \A n \in Servers : section.mcp[n] = IF n = server THEN value ELSE Of(m, s).mcp[n]
  BY <1>2 DEF Sections
<1>5. Saves(p, With(m, s, section))
  BY <1>1 DEF Put
<1> HIDE DEF section
<1>6. ValidServers(Of(m, s)) => ValidServers(section)
  BY <1>1, <1>4 DEF ValidServers
<1> QED BY <1>1, <1>3, <1>5, <1>6, SectionKeeps

LEMMA HandEditKeeps == ASSUME EditInv, HandEdit PROVE EditInv'
<1>1. disk' \in Written /\ disk' \in Manifests /\ UNCHANGED <<job, loose>>
  BY ManifestAssumption DEF HandEdit
<1>2. ManifestTypes'
  BY <1>1 DEF EditInv, ManifestTypes
<1>3. AllWell'
  BY <1>1 DEF EditInv, AllWell, EditsStayValid, WrittenWell
<1> QED BY <1>2, <1>3 DEF EditInv

LEMMA ManifestBegins == ManifestInit => EditInv
<1> SUFFICES ASSUME ManifestInit PROVE EditInv
  OBVIOUS
<1>1. disk \in Written /\ disk \in Manifests /\ job = [p \in Procs |-> Idle] /\ loose = FALSE
  BY ManifestAssumption DEF ManifestInit
<1>2. ManifestTypes
  BY <1>1, IdleFits DEF ManifestTypes
<1>3. AllWell
  BY <1>1, IdleFits DEF AllWell, EditsStayValid, WrittenWell
<1> QED BY <1>2, <1>3 DEF EditInv

\* What commands that edit one manifest at once hold and leave behind: the
\* inductive invariant of internal/harness/editor.go.
THEOREM ManifestInvariant == ManifestSpec => []EditInv
<1>1. ASSUME EditInv, [ManifestNext]_manifestVars PROVE EditInv'
  <2>1. CASE UNCHANGED manifestVars
    <3>1. UNCHANGED <<disk, job, loose>>
      BY <2>1 DEF manifestVars
    <3> QED BY <1>1, <3>1 DEF EditInv, ManifestTypes, AllWell, EditsStayValid, WrittenWell
  <2>2. CASE HandEdit
    BY <1>1, <2>2, HandEditKeeps
  <2>3. ASSUME NEW p \in Procs, Command(p) PROVE EditInv'
    <3>1. CASE \E edit \in Edits : Begin(p, edit)
      BY <1>1, <3>1, BeginKeeps
    <3>2. CASE Reload(p) \/ UpdateInclude(p)
      BY <1>1, <3>2, ReloadKeeps, UpdateIncludeKeeps
    <3>3. CASE RefuseEdit(p)
      BY <1>1, <3>3, RefuseKeeps DEF RefuseEdit
    <3>4. CASE EditIncludes(p, job[p].edit)
      BY <1>1, <3>4, EditIncludesKeeps
    <3>5. CASE EditDelegates(p) \/ EditFocuses(p) \/ EditProfiles(p)
      BY <1>1, <3>5, EditDelegatesKeeps, EditFocusesKeeps, EditProfilesKeeps
    <3>6. CASE EditHooks(p) \/ EditServers(p)
      BY <1>1, <3>6, EditHooksKeeps, EditServersKeeps
    <3> QED BY <2>3, <3>1, <3>2, <3>3, <3>4, <3>5, <3>6 DEF Command
  <2> QED BY <1>1, <2>1, <2>2, <2>3 DEF ManifestNext
<1> QED BY <1>1, ManifestBegins, PTL DEF ManifestSpec
-----------------------------------------------------------------------------
(* The session                                                                *)

LEMMA SessionEdits == SessionSpec => ManifestSpec
<1>1. SessionInit => ManifestInit
  BY DEF SessionInit
<1>2. [SessionNext]_sessionVars => [ManifestNext]_manifestVars
  BY DEF SessionNext, sessionVars, manifestVars, TrustAccept, Fetch
<1> QED BY <1>1, <1>2, PTL DEF SessionSpec, ManifestSpec

\* If the manifests users write are valid, with picks that are where their entries
\* point to, so is every manifest the commands write over each other's, and every
\* copy (editor.go, without a lock).
THEOREM EditsAreHeld == ASSUME WrittenWell PROVE SessionSpec => []EditsHold
<1>1. EditInv => EditsHold
  BY DEF EditInv, AllWell, Fits, EditsHold, PicksAreChecked
<1> QED BY <1>1, ManifestInvariant, SessionEdits, PTL

\* A server that a view sets to null is in no session of it, whichever include
\* brings it (harness.ResolveProfile and composeMCP).
THEOREM NulledIsOut == SessionSpec => []NulledStaysOut
<1>1. ASSUME NEW v \in Views(disk), NEW s \in Servers,
             LET declared == IF v = Top THEN Absent ELSE disk.profiles[v].mcp[s]
             IN declared = Null \/ (declared = Absent /\ disk.top.mcp[s] = Null)
      PROVE  Carries(disk, v).mcp = Failed \/ Carries(disk, v).mcp[s] = Absent
  <2> DEFINE view == View(disk, v)
  <2>1. Absent # Null
    BY ManifestAssumption
  <2>2. v = Top => view.removals = Removals(disk)
    BY DEF View, Base
  <2>3. v # Top => view.removals = ProfileRemovals(Base(disk), disk.profiles[v].mcp)
    BY DEF View, ResolveProfile
  <2>4. Base(disk).removals = Removals(disk)
    BY DEF Base
  <2>5. s \in view.removals
    BY <1>1, <2>1, <2>2, <2>3, <2>4 DEF Removals, ProfileRemovals
  <2> HIDE DEF view
  <2>6. ComposeMCP(view)[s] = Absent
    BY <2>5 DEF ComposeMCP
  <2>7. Carries(disk, v).mcp = Failed \/ Carries(disk, v).mcp = ComposeMCP(view)
    BY DEF Carries, view
  <2> QED BY <2>6, <2>7
<1>2. NulledStaysOut
  BY <1>1, Zenon DEF NulledStaysOut
<1> QED BY <1>2, PTL

CacheTypes == cached \in [Sources -> {None} \union Versions]

LEMMA CacheKeeps == SessionSpec => []CacheTypes
<1>1. SessionInit => CacheTypes
  BY DEF SessionInit, CacheTypes
<1>2. CacheTypes /\ [SessionNext]_sessionVars => CacheTypes'
  BY DEF SessionNext, sessionVars, TrustAccept, Fetch, CacheTypes
<1> QED BY <1>1, <1>2, PTL DEF SessionSpec

Numbered(list) == \E n \in Nat : DOMAIN list = 1..n

\* Lists that are joined are a list.
LEMMA JoinedIs ==
  ASSUME NEW lists, Numbered(lists), \A i \in DOMAIN lists : Numbered(lists[i])
  PROVE  Numbered(Joined(lists))
<1> DEFINE at == UNION { {i} \X DOMAIN lists[i] : i \in DOMAIN lists }
           S == DOMAIN lists
           T == { {i} \X DOMAIN lists[i] : i \in DOMAIN lists }
           f == [i \in S |-> {i} \X DOMAIN lists[i]]
<1>1. IsFiniteSet(S)
  BY FS_Interval DEF Numbered
<1>2. f \in Surjection(S, T)
  BY DEF Surjection
<1>3. \A i \in S : IsFiniteSet({i} \X DOMAIN lists[i])
  <2> SUFFICES ASSUME NEW i \in S PROVE IsFiniteSet({i} \X DOMAIN lists[i])
    OBVIOUS
  <2>1. IsFiniteSet({i})
    BY FS_Singleton
  <2>2. IsFiniteSet(DOMAIN lists[i])
    BY FS_Interval DEF Numbered
  <2> QED BY <2>1, <2>2, FS_Product
<1>4. \A t \in T : IsFiniteSet(t)
  BY <1>3
<1> HIDE DEF f, S, T
<1>5. IsFiniteSet(T)
  BY <1>1, <1>2, FS_Surjection
<1>6. IsFiniteSet(UNION T)
  BY <1>4, <1>5, FS_UNION
<1>7. Cardinality(at) \in Nat
  BY <1>6, FS_CardinalityType DEF T
<1>8. DOMAIN Joined(lists) = 1..Cardinality(at)
  BY DEF Joined
<1> QED BY <1>7, <1>8 DEF Numbered

Hook == [ cmd : Commands, src : Sources \union {Top} ]
Hooks == Seq(Hook)

LEMMA ViewIs ==
  ASSUME NEW m \in Manifests, NEW s \in Views(m)
  PROVE  View(m, s).includes \in Seq(Includes) /\ View(m, s).hooks \in [Events -> Seq(Commands)]
<1>1. m.top.includes \in Seq(Includes) /\ m.top.hooks \in [Events -> Seq(Commands)]
  BY SectionsOf DEF Sections
<1>2. CASE s = Top
  BY <1>1, <1>2 DEF View, Base
<1>3. CASE s # Top
  <2> DEFINE prof == m.profiles[s]  base == Base(m)
  <2>1. s \in Profiles /\ prof # None
    BY <1>3 DEF Views
  <2>2. prof \in Sections
    BY <2>1, SectionsOf
  <2>3. prof.includes \in Seq(Includes) /\ prof.hooks \in [Events -> Seq(Commands)]
    BY <2>2 DEF Sections
  <2>4. base.includes = m.top.includes /\ base.hooks = m.top.hooks
    BY DEF Base
  <2>5. View(m, s) = ResolveProfile(base, prof)
    BY <1>3 DEF View
  <2> HIDE DEF prof, base
  <2>6. ResolveProfile(base, prof).includes = base.includes \o prof.includes
    BY DEF ResolveProfile
  <2>7. ResolveProfile(base, prof).hooks = [e \in Events |-> IF prof.hooks[e] = <<>> THEN base.hooks[e] ELSE prof.hooks[e]]
    BY DEF ResolveProfile
  <2>8. ResolveProfile(base, prof).includes \in Seq(Includes)
    BY <1>1, <2>3, <2>4, <2>6
  <2>9. ResolveProfile(base, prof).hooks \in [Events -> Seq(Commands)]
    BY <1>1, <2>3, <2>4, <2>7
  <2> QED BY <2>5, <2>8, <2>9
<1> QED BY <1>2, <1>3

\* What a view carries is a list for each event.
LEMMA CarriedIs ==
  ASSUME CacheTypes, NEW m \in Manifests, NEW s \in Views(m), Readable(View(m, s)), NEW e \in Events
  PROVE  Numbered(ComposeHooks(View(m, s))[e])
<1> DEFINE view == View(m, s)
           R == { i \in Includes : cached[i.src] # None }
           read == { src \in Sources : cached[src] # None }
           all == Included(view)
           carried == Active(view)
           brought == [i \in DOMAIN carried |-> Tagged(carried[i], Brought(carried[i]).hooks[e])]
           own == Tagged(Top, view.hooks[e])
<1>1. view.includes \in Seq(Includes) /\ view.hooks \in [Events -> Seq(Commands)]
  BY ViewIs
<1>2. view.includes \in Seq(R)
  <2>1. view.includes \in [1..Len(view.includes) -> Includes] /\ Len(view.includes) \in Nat
    BY <1>1
  <2>2. \A i \in 1..Len(view.includes) : view.includes[i] \in R
    BY <2>1 DEF Readable
  <2>3. view.includes \in [1..Len(view.includes) -> R]
    BY <2>1, <2>2
  <2> QED BY <2>1, <2>3, SeqDef
<1> HIDE DEF R
<1>3. Roots(view) \in Seq(R)
  <2> DEFINE list == view.includes
             at == { i \in DOMAIN list : list[i].path = NoPath }
  <2>1. at \in SUBSET DOMAIN list /\ Roots(view) = KeptAt(list, at)
    BY DEF Roots
  <2> HIDE DEF list, at
  <2> QED BY <1>2, <2>1, KeptAtIs DEF list
<1>4. all \in Seq(read)
  <2> DEFINE roots == Roots(view)
             at == { i \in DOMAIN roots : \A j \in DOMAIN roots : roots[j].src = roots[i].src => i <= j }
             firsts == KeptAt(roots, at)
  <2>1. at \in SUBSET DOMAIN roots /\ all = [i \in DOMAIN firsts |-> firsts[i].src]
    BY DEF Included
  <2> HIDE DEF roots, at, all
  <2>2. firsts \in Seq(R)
    BY <1>3, <2>1, KeptAtIs DEF roots
  <2> HIDE DEF firsts
  <2>3. firsts \in [1..Len(firsts) -> R] /\ Len(firsts) \in Nat
    BY <2>2
  <2>4. \A i \in R : i.src \in read
    BY DEF R, Includes
  <2>5. all \in [1..Len(firsts) -> read]
    BY <2>1, <2>3, <2>4
  <2> QED BY <2>3, <2>5, SeqDef
<1>5. carried \in Seq(read)
  <2> DEFINE at == { i \in DOMAIN all : Consents(view, all[i]) }
  <2>1. at \in SUBSET DOMAIN all /\ carried = KeptAt(all, at)
    BY DEF Active
  <2> HIDE DEF at, all, carried, read
  <2> QED BY <1>4, <2>1, KeptAtIs
<1>6. ASSUME NEW src \in Sources \union {Top}, NEW hooks \in Seq(Commands) PROVE Tagged(src, hooks) \in Hooks
  <2>1. hooks \in [1..Len(hooks) -> Commands] /\ Len(hooks) \in Nat
    OBVIOUS
  <2>2. Tagged(src, hooks) \in [1..Len(hooks) -> Hook]
    BY <2>1 DEF Tagged, Hook
  <2> QED BY <2>1, <2>2, SeqDef DEF Hooks
<1>7. \A src \in read : src \in Sources /\ Brought(src).hooks[e] \in Seq(Commands)
  <2> SUFFICES ASSUME NEW src \in read PROVE src \in Sources /\ Brought(src).hooks[e] \in Seq(Commands)
    OBVIOUS
  <2>1. src \in Sources /\ cached[src] \in Versions
    BY DEF CacheTypes
  <2>2. Brings[src][cached[src]] \in [ hooks : [Events -> Seq(Commands)], mcp : [Servers -> {Absent} \union Definitions] ]
    BY <2>1, BringsAssumption
  <2> QED BY <2>1, <2>2 DEF Brought
<1> HIDE DEF all, carried, read
<1>8. brought \in Seq(Hooks)
  <2>1. carried \in [1..Len(carried) -> read] /\ Len(carried) \in Nat
    BY <1>5
  <2>2. \A i \in 1..Len(carried) : Tagged(carried[i], Brought(carried[i]).hooks[e]) \in Hooks
    BY <1>6, <1>7, <2>1
  <2>3. brought \in [1..Len(carried) -> Hooks]
    BY <2>1, <2>2
  <2> QED BY <2>1, <2>3, SeqDef
<1>9. own \in Hooks
  BY <1>1, <1>6
<1>10. HooksOf(view, e) = Append(brought, own)
  BY DEF HooksOf, carried
<1> HIDE DEF brought, own
<1>11. HooksOf(view, e) \in Seq(Hooks)
  BY <1>8, <1>9, <1>10
<1>12. \A S, list : list \in Seq(S) => Numbered(list)
  BY DEF Numbered
<1>13. Numbered(HooksOf(view, e)) /\ \A i \in DOMAIN HooksOf(view, e) : Numbered(HooksOf(view, e)[i])
  <2> DEFINE lists == HooksOf(view, e)
  <2>1. lists \in Seq(Hooks)
    BY <1>11
  <2> HIDE DEF lists
  <2>2. \A i \in DOMAIN lists : lists[i] \in Hooks
    BY <2>1
  <2>3. \A i \in DOMAIN lists : Numbered(lists[i])
    BY <1>12, <2>2 DEF Hooks
  <2> QED BY <1>12, <2>1, <2>3 DEF lists
<1>14. ComposeHooks(view)[e] = Joined(HooksOf(view, e))
  BY DEF ComposeHooks
<1> QED BY <1>13, <1>14, JoinedIs

\* The hooks of a list, one by one.
LEMMA HooksAre ==
  ASSUME NEW list, NEW x
  PROVE  x \in UNION { { <<e, list.hooks[e][i].cmd>> : i \in DOMAIN list.hooks[e] } : e \in Events }
        <=> \E e \in Events : \E i \in DOMAIN list.hooks[e] : x = <<e, list.hooks[e][i].cmd>>
<1> DEFINE of(e) == { <<e, list.hooks[e][i].cmd>> : i \in DOMAIN list.hooks[e] }
<1>1. \A e : x \in of(e) <=> \E i \in DOMAIN list.hooks[e] : x = <<e, list.hooks[e][i].cmd>>
  BY SMT
<1> HIDE DEF of
<1>2. x \in UNION { of(e) : e \in Events } <=> \E e \in Events : x \in of(e)
  BY SMT
<1>3. QED BY <1>1, <1>2 DEF of

\* The servers of a list, one by one.
LEMMA ServersAre ==
  ASSUME NEW list, NEW x
  PROVE  x \in { <<s, list.mcp[s]>> : s \in { n \in Servers : list.mcp[n] # Absent } }
        <=> \E n \in Servers : list.mcp[n] # Absent /\ x = <<n, list.mcp[n]>>
<1> DEFINE S == { n \in Servers : list.mcp[n] # Absent }
<1>1. \A n : n \in S <=> n \in Servers /\ list.mcp[n] # Absent
  OBVIOUS
<1> HIDE DEF S
<1>2. x \in { <<s, list.mcp[s]>> : s \in S } <=> \E n \in S : x = <<n, list.mcp[n]>>
  BY SMT
<1> QED BY <1>1, <1>2 DEF S

LEMMA ItemsAre ==
  ASSUME NEW list, NEW x
  PROVE  x \in ItemsOf(list) <=>
           \/ \E e \in Events : \E i \in DOMAIN list.hooks[e] : x = <<e, list.hooks[e][i].cmd>>
           \/ \E n \in Servers : list.mcp[n] # Absent /\ x = <<n, list.mcp[n]>>
<1> DEFINE hooks == UNION { { <<e, list.hooks[e][i].cmd>> : i \in DOMAIN list.hooks[e] } : e \in Events }
           servers == { <<s, list.mcp[s]>> : s \in { n \in Servers : list.mcp[n] # Absent } }
<1>1. x \in hooks <=> \E e \in Events : \E i \in DOMAIN list.hooks[e] : x = <<e, list.hooks[e][i].cmd>>
  BY HooksAre
<1>2. x \in servers <=> \E n \in Servers : list.mcp[n] # Absent /\ x = <<n, list.mcp[n]>>
  BY ServersAre
<1>3. ItemsOf(list) = hooks \union servers
  BY DEF ItemsOf
<1> HIDE DEF hooks, servers
<1> QED BY <1>1, <1>2, <1>3

\* What a profile's list leaves out is on the harness's.
LEMMA BesideIs ==
  ASSUME NEW base, NEW carried, \A e \in Events : Numbered(carried.hooks[e])
  PROVE  ItemsOf(carried) \subseteq ItemsOf(base) \union ItemsOf(ListedBeside(base, carried))
<1> DEFINE beside == ListedBeside(base, carried)
<1>1. ASSUME NEW e \in Events, NEW i \in DOMAIN carried.hooks[e]
      PROVE  <<e, carried.hooks[e][i].cmd>> \in ItemsOf(base) \union ItemsOf(beside)
  <2> DEFINE list == carried.hooks[e]
             at == { j \in DOMAIN list : HookKey(e, list[j]) \notin BaseKeys(base) }
  <2>1. CASE HookKey(e, list[i]) \in BaseKeys(base)
    <3>1. PICK e2 \in Events : HookKey(e, list[i]) \in { HookKey(e2, base.hooks[e2][j]) : j \in DOMAIN base.hooks[e2] }
      BY <2>1 DEF BaseKeys
    <3>2. PICK j \in DOMAIN base.hooks[e2] : HookKey(e, list[i]) = HookKey(e2, base.hooks[e2][j])
      BY <3>1
    <3>3. <<e, list[i].cmd>> = <<e2, base.hooks[e2][j].cmd>>
      BY <3>2 DEF HookKey
    <3> QED BY <3>3, ItemsAre
  <2>2. CASE HookKey(e, list[i]) \notin BaseKeys(base)
    <3>1. PICK n \in Nat : DOMAIN list = 1..n
      BY DEF Numbered
    <3>2. at \in SUBSET (1..n) /\ i \in at
      BY <2>2, <3>1
    <3>3. beside.hooks[e] = KeptAt(list, at)
      BY DEF ListedBeside
    <3> HIDE DEF at, list, beside
    <3>4. \E k \in DOMAIN beside.hooks[e] : beside.hooks[e][k] = list[i]
      <4>1. \E k \in DOMAIN KeptAt(list, at) : KeptAt(list, at)[k] = list[i]
        BY <3>1, <3>2, AllAreKept
      <4> QED BY <3>3, <4>1, Zenon
    <3>5. <<e, list[i].cmd>> \in ItemsOf(beside)
      BY <3>4, ItemsAre
    <3> QED BY <3>5 DEF list, beside
  <2> QED BY <2>1, <2>2
<1>2. ASSUME NEW n \in Servers, carried.mcp[n] # Absent
      PROVE  <<n, carried.mcp[n]>> \in ItemsOf(base) \union ItemsOf(beside)
  <2>1. CASE carried.mcp[n] = base.mcp[n]
    BY <1>2, <2>1, ItemsAre
  <2>2. CASE carried.mcp[n] # base.mcp[n]
    <3>1. beside.mcp[n] = carried.mcp[n]
      BY <2>2 DEF ListedBeside
    <3> HIDE DEF beside
    <3> QED BY <1>2, <3>1, ItemsAre
  <2> QED BY <2>1, <2>2
<1> HIDE DEF beside
<1>3. \A x \in ItemsOf(carried) : x \in ItemsOf(base) \union ItemsOf(beside)
  BY <1>1, <1>2, ItemsAre
<1> QED BY <1>3 DEF beside

\* Once the operator's record is what is read now, every hook and server a run may
\* carry, in whichever profile, is on the list that was accepted (cmd/ynh/trust.go).
THEOREM AcceptedCovers == SessionSpec => []AcceptedCoversRuns
<1>1. ASSUME EditInv, CacheTypes, Accepted, NEW s \in Views(disk)
      PROVE  ItemsOf(Carries(disk, s)) \subseteq UNION { ItemsOf(record[v]) : v \in Scopes }
  <2> DEFINE carried == [v \in Views(disk) |-> Carries(disk, v)]
             listed == UNION { ItemsOf(record[v]) : v \in Scopes }
  <2>1. disk \in Manifests /\ record # None /\ record = HarnessExecutables(disk)
    BY <1>1 DEF Accepted, EditInv, ManifestTypes
  <2>2. ~\E v \in Views(disk) : carried[v].hooks = Failed
    BY <2>1, Zenon DEF HarnessExecutables
  <2>3. record = [v \in Scopes |-> IF v \notin Views(disk) \/ ~InView(v) THEN NothingListed
                                   ELSE IF v = Top THEN carried[Top] ELSE ListedBeside(carried[Top], carried[v])]
    BY <2>1, <2>2, Zenon DEF HarnessExecutables
  <2>4. Top \in Views(disk) /\ Views(disk) \subseteq Scopes /\ \A v \in Views(disk) : InView(v)
    BY DEF Views, Scopes, InView
  <2>5. record[Top] = Carries(disk, Top) /\ (s # Top => record[s] = ListedBeside(Carries(disk, Top), Carries(disk, s)))
    BY <2>3, <2>4
  <2>6. ItemsOf(record[Top]) \subseteq listed /\ ItemsOf(record[s]) \subseteq listed
    BY <2>4
  <2>7. Carries(disk, s).hooks # Failed
    BY <2>2
  <2>8. Readable(View(disk, s)) /\ Carries(disk, s).hooks = ComposeHooks(View(disk, s))
    BY <2>7 DEF Carries
  <2>9. \A e \in Events : Numbered(Carries(disk, s).hooks[e])
    BY <1>1, <2>1, <2>8, CarriedIs
  <2> HIDE DEF listed
  <2>10. CASE s = Top
    BY <2>5, <2>6, <2>10 DEF listed
  <2>11. CASE s # Top
    <3>1. ItemsOf(Carries(disk, s)) \subseteq ItemsOf(record[Top]) \union ItemsOf(record[s])
      BY <2>5, <2>9, <2>11, BesideIs
    <3> QED BY <2>6, <3>1 DEF listed
  <2> QED BY <2>10, <2>11
<1>2. EditInv /\ CacheTypes => AcceptedCoversRuns
  BY <1>1, Zenon DEF AcceptedCoversRuns
<1> QED BY <1>2, ManifestInvariant, SessionEdits, CacheKeeps, PTL

------------------------------------------------------------------------------
(* The routes that are recorded                                               *)

\* Include k of harness p has been read, and is a route.
IsRead(p, k) == Whole(p) \in done \/ \E i \in 1..Depth : chain[i].id = p /\ k < chain[i].next
IsRoute(p, e) == e.pick \/ <<p, e.to>> \notin notes
RouteRead(p, k) == IsRead(p, k) /\ IsRoute(p, includes[p][k])

\* What is noted of a harness on the chain leads back along the chain, and what
\* leads back is noted.
NotesLeadBack ==
  /\ \A n \in notes : n[1] \in Met
  /\ \A i \in 1..Depth : \A q \in Harnesses :
       <<chain[i].id, q>> \in notes => \E j \in 1..i : chain[j].id = q
  /\ \A i \in 1..Depth : \A k \in 1..Len(includes[chain[i].id]) :
       LET e == includes[chain[i].id][k]
       IN (k < chain[i].next /\ ~e.pick /\ \E j \in 1..i : chain[j].id = e.to)
            => <<chain[i].id, e.to>> \in notes

\* A link says hooks of h, and h is reached through p.
LinkFrom(h, p, b) == \E k \in 1..Len(hookLinks[h]) : hookLinks[h][k].parent = p /\ hookLinks[h][k].hooks = b
ParentIs(n, p) == \E k \in 1..Len(parents[n]) : parents[n][k] = p

LinksRecorded ==
  \A h \in Harnesses, p \in Harnesses, b \in BOOLEAN :
    LinkFrom(h, p, b) <=> \E k \in 1..Len(includes[p]) :
      RouteRead(p, k) /\ includes[p][k].to = h /\ includes[p][k].hooks = b

ParentsRecorded ==
  \A n \in Nodes, p \in Harnesses : n.id \in Harnesses =>
    (ParentIs(n, p) <=> \E k \in 1..Len(includes[p]) :
      RouteRead(p, k) /\ includes[p][k].to = n.id /\ includes[p][k].pick = n.pick)

HaveRoutes ==
  /\ \A i \in 1..Depth : i > 1 => Len(parents[Whole(chain[i].id)]) > 0
  /\ \A n \in done : Len(parents[n]) > 0

RoutePart == NotesLeadBack /\ LinksRecorded /\ ParentsRecorded /\ HaveRoutes

\* Nothing is recorded and no include becomes a route, or stops being one.
LEMMA NothingRecorded ==
  ASSUME LinksRecorded, ParentsRecorded, UNCHANGED <<includes, parents, hookLinks>>,
         \A p \in Harnesses : \A k \in 1..Len(includes[p]) :
           includes[p][k].to \in Harnesses => (RouteRead(p, k)' <=> RouteRead(p, k))
  PROVE  LinksRecorded' /\ ParentsRecorded'
<1>1. LinksRecorded'
  BY DEF LinksRecorded, LinkFrom
<1>2. ParentsRecorded'
  BY DEF ParentsRecorded, ParentIs
<1> QED BY <1>1, <1>2

\* The include being read is recorded, and is the one route more.
LEMMA OneRecorded ==
  ASSUME TypeOK, LinksRecorded, ParentsRecorded, Listed, includes' = includes,
         Inc.to \in Harnesses, NEW node \in Nodes, node = [id |-> Inc.to, pick |-> Inc.pick],
         Record(node),
         \A p \in Harnesses : \A k \in 1..Len(includes[p]) :
           includes[p][k].to \in Harnesses =>
             (RouteRead(p, k)' <=> RouteRead(p, k) \/ (p = Parent /\ k = chain[Depth].next))
  PROVE  LinksRecorded' /\ ParentsRecorded' /\ Len(parents'[node]) > 0
         /\ \A n \in Nodes : Len(parents[n]) > 0 => Len(parents'[n]) > 0
<1> DEFINE at == chain[Depth].next
           link == [parent |-> Parent, hooks |-> Inc.hooks]
<1>1. /\ at \in 1..Len(includes[Parent]) /\ Inc = includes[Parent][at] /\ Parent \in Harnesses
      /\ Inc \in Entries /\ Inc.hooks \in BOOLEAN /\ Inc.pick \in BOOLEAN /\ node.id = Inc.to /\ node.pick = Inc.pick
  BY Graph, IncIsEntry DEF Listed, Inc
<1>2. /\ \A h \in Harnesses : h \in Targets /\ hookLinks[h] \in Seq(Links) /\ Len(hookLinks[h]) \in Nat
      /\ \A n \in Nodes : parents[n] \in Seq(Harnesses) /\ Len(parents[n]) \in Nat
      /\ link \in Links
  <2>1. link \in Links
    BY <1>1 DEF Links
  <2>2. \A h \in Harnesses : h \in Targets /\ hookLinks[h] \in Seq(Links)
    BY DEF TypeOK, Targets
  <2>3. \A n \in Nodes : parents[n] \in Seq(Harnesses)
    BY DEF TypeOK
  <2> QED BY <2>1, <2>2, <2>3
<1>3. /\ hookLinks' = [hookLinks EXCEPT ![node.id] = Append(@, link)]
      /\ parents' = [parents EXCEPT ![node] = Append(@, Parent)]
      /\ hookLinks \in [Targets -> Seq(Links)] /\ parents \in [Nodes -> Seq(Harnesses)]
  BY DEF Record, TypeOK
<1>4. ASSUME NEW h \in Harnesses, NEW p \in Harnesses, NEW b \in BOOLEAN
      PROVE  LinkFrom(h, p, b)' <=> LinkFrom(h, p, b) \/ (h = Inc.to /\ p = Parent /\ b = Inc.hooks)
  <2>1. CASE h # Inc.to
    <3>1. hookLinks'[h] = hookLinks[h]
      BY <1>1, <1>2, <1>3, <2>1
    <3> QED BY <3>1, <2>1 DEF LinkFrom
  <2>2. CASE h = Inc.to
    <3>1. hookLinks'[h] = Append(hookLinks[h], link)
      BY <1>1, <1>2, <1>3, <2>2
    <3>2. /\ Len(hookLinks'[h]) = Len(hookLinks[h]) + 1 /\ Len(hookLinks[h]) \in Nat
          /\ \A k \in 1..Len(hookLinks[h]) : hookLinks'[h][k] = hookLinks[h][k]
          /\ hookLinks'[h][Len(hookLinks[h]) + 1] = link
      BY <1>2, <3>1, Appended
    <3>3. 1..Len(hookLinks'[h]) = 1..Len(hookLinks[h]) \union {Len(hookLinks[h]) + 1}
      BY <3>2
    <3>4. LinkFrom(h, p, b)' <=> LinkFrom(h, p, b) \/ (link.parent = p /\ link.hooks = b)
      BY <3>2, <3>3 DEF LinkFrom
    <3> QED BY <2>2, <3>4
  <2> QED BY <2>1, <2>2
<1>5. ASSUME NEW n \in Nodes
      PROVE  /\ \A p \in Harnesses : ParentIs(n, p)' <=> ParentIs(n, p) \/ (n = node /\ p = Parent)
             /\ n = node => Len(parents'[n]) > 0
             /\ Len(parents[n]) > 0 => Len(parents'[n]) > 0
  <2>1. CASE n # node
    <3>1. parents'[n] = parents[n]
      BY <1>3, <2>1
    <3> QED BY <3>1, <2>1 DEF ParentIs
  <2>2. CASE n = node
    <3>1. parents'[n] = Append(parents[n], Parent)
      BY <1>3, <2>2
    <3>2. /\ Len(parents'[n]) = Len(parents[n]) + 1 /\ Len(parents[n]) \in Nat
          /\ \A k \in 1..Len(parents[n]) : parents'[n][k] = parents[n][k]
          /\ parents'[n][Len(parents[n]) + 1] = Parent
      BY <1>1, <1>2, <3>1, Appended
    <3>3. 1..Len(parents'[n]) = 1..Len(parents[n]) \union {Len(parents[n]) + 1}
      BY <3>2
    <3>4. \A p \in Harnesses : ParentIs(n, p)' <=> ParentIs(n, p) \/ Parent = p
      BY <3>2, <3>3 DEF ParentIs
    <3> QED BY <2>2, <3>2, <3>4
  <2> QED BY <2>1, <2>2
<1>6. LinksRecorded'
  <2> SUFFICES ASSUME NEW h \in Harnesses, NEW p \in Harnesses, NEW b \in BOOLEAN
               PROVE  LinkFrom(h, p, b)' <=> \E k \in 1..Len(includes[p]) :
                        RouteRead(p, k)' /\ includes[p][k].to = h /\ includes[p][k].hooks = b
    BY DEF LinksRecorded
  <2>1. LinkFrom(h, p, b) <=> \E k \in 1..Len(includes[p]) :
          RouteRead(p, k) /\ includes[p][k].to = h /\ includes[p][k].hooks = b
    BY DEF LinksRecorded
  <2> QED BY <1>1, <1>4, <2>1
<1>7. ParentsRecorded'
  <2> SUFFICES ASSUME NEW n \in Nodes, NEW p \in Harnesses, n.id \in Harnesses
               PROVE  ParentIs(n, p)' <=> \E k \in 1..Len(includes[p]) :
                        RouteRead(p, k)' /\ includes[p][k].to = n.id /\ includes[p][k].pick = n.pick
    BY DEF ParentsRecorded
  <2>1. ParentIs(n, p) <=> \E k \in 1..Len(includes[p]) :
          RouteRead(p, k) /\ includes[p][k].to = n.id /\ includes[p][k].pick = n.pick
    BY DEF ParentsRecorded
  <2>2. n = node <=> n.id = Inc.to /\ n.pick = Inc.pick
    BY <1>1 DEF Nodes
  <2> QED BY <1>1, <1>5, <2>1, <2>2
<1> QED BY <1>5, <1>6, <1>7

\* One include more is read.
LEMMA OneRead ==
  ASSUME TypeOK, ChainPart, Listed, includes' = includes,
         chain' = Advanced \/ (chain' = Append(Advanced, [id |-> Inc.to, next |-> 1]) /\ Inc.to \in Harnesses),
         \A h \in Harnesses : Whole(h) \in done' <=> Whole(h) \in done
  PROVE  \A p \in Harnesses : \A k \in 1..Len(includes[p]) :
           IsRead(p, k)' <=> IsRead(p, k) \/ (p = Parent /\ k = chain[Depth].next)
<1> SUFFICES ASSUME NEW p \in Harnesses, NEW k \in 1..Len(includes[p])
             PROVE  IsRead(p, k)' <=> IsRead(p, k) \/ (p = Parent /\ k = chain[Depth].next)
  OBVIOUS
<1>1. /\ Advanced \in Seq(Frames) /\ Len(Advanced) = Depth /\ Depth \in Nat /\ Depth > 0
      /\ \A i \in 1..Depth : Advanced[i].id = chain[i].id /\ (i # Depth => Advanced[i].next = chain[i].next)
      /\ Advanced[Depth].next = chain[Depth].next + 1
      /\ chain[Depth].next \in Nat /\ chain[Depth].id = Parent /\ k \in Nat /\ k > 0
  BY AdvancedChain, Graph DEF Parent
<1>2. /\ Depth' \in Nat /\ Depth' >= Depth
      /\ \A i \in 1..Depth : chain'[i] = Advanced[i]
      /\ \A i \in 1..Depth' : i \in 1..Depth \/ chain'[i].next = 1
      /\ \A i \in 1..Depth : i \in 1..Depth'
  <2>1. CASE chain' = Advanced
    BY <1>1, <2>1 DEF Depth
  <2>2. CASE chain' = Append(Advanced, [id |-> Inc.to, next |-> 1]) /\ Inc.to \in Harnesses
    <3>1. [id |-> Inc.to, next |-> 1] \in Frames
      BY <2>2 DEF Frames
    <3>2. /\ Len(chain') = Depth + 1 /\ \A i \in 1..Depth : chain'[i] = Advanced[i]
          /\ chain'[Depth + 1].next = 1
      BY <1>1, <2>2, <3>1, Appended
    <3> QED BY <1>1, <3>2 DEF Depth
  <2> QED BY <2>1, <2>2
<1>3. (\E i \in 1..Depth' : chain'[i].id = p /\ k < chain'[i].next)
        <=> \E i \in 1..Depth : chain'[i].id = p /\ k < chain'[i].next
  BY <1>1, <1>2
<1>4. (\E i \in 1..Depth : chain'[i].id = p /\ k < chain'[i].next)
        <=> (\E i \in 1..Depth : chain[i].id = p /\ k < chain[i].next) \/ (p = Parent /\ k = chain[Depth].next)
  <2>1. \A i \in 1..Depth : i # Depth => (chain'[i].id = p /\ k < chain'[i].next <=> chain[i].id = p /\ k < chain[i].next)
    BY <1>1, <1>2
  <2>2. chain'[Depth].id = Parent /\ (k < chain'[Depth].next <=> k < chain[Depth].next \/ k = chain[Depth].next)
    BY <1>1, <1>2
  <2> QED BY <1>1, <2>1, <2>2
<1> QED BY <1>3, <1>4 DEF IsRead


\* An include is read, and noted if it leads back.
LEMMA NotesReadOn ==
  ASSUME TypeOK, ChainPart, NotesLeadBack, Listed, includes' = includes, chain' = Advanced,
         \A h \in Harnesses : Whole(h) \in done' <=> Whole(h) \in done,
         IF ClosesCycle THEN notes' = notes \union {<<Parent, Inc.to>>} ELSE notes' = notes
  PROVE  NotesLeadBack'
<1>1. /\ Depth' = Depth /\ Depth \in Nat /\ Depth > 0
      /\ \A i \in 1..Depth : chain'[i].id = chain[i].id /\ (i # Depth => chain'[i].next = chain[i].next)
      /\ chain'[Depth].next = chain[Depth].next + 1
      /\ \A i \in 1..Depth : chain[i].id \in Harnesses /\ chain[i].next \in Nat
      /\ chain[Depth].id = Parent /\ Parent \in Harnesses
  BY AdvancedChain, Graph DEF Depth, Parent
<1>2. Met' = Met /\ Parent \in Met /\ OnChain' = OnChain
  BY <1>1 DEF Met, OnChain
<1>3. \A n \in notes' : n \in notes \/ (n = <<Parent, Inc.to>> /\ Inc.to \in OnChain /\ n[1] = Parent)
  BY DEF ClosesCycle
<1>4. \A n \in notes' : n[1] \in Met'
  BY <1>2, <1>3 DEF NotesLeadBack
<1>5. ASSUME NEW i \in 1..Depth, NEW q \in Harnesses, <<chain[i].id, q>> \in notes'
      PROVE  \E j \in 1..i : chain[j].id = q
  <2>1. CASE <<chain[i].id, q>> \in notes
    BY <2>1 DEF NotesLeadBack
  <2>2. CASE <<chain[i].id, q>> \notin notes
    <3>1. chain[i].id = Parent /\ q = Inc.to /\ Inc.to \in OnChain
      BY <1>3, <1>5, <2>2
    <3>2. i = Depth
      BY <1>1, <3>1 DEF ChainPart, ChainIsSimple
    <3> QED BY <3>1, <3>2 DEF OnChain
  <2> QED BY <2>1, <2>2
<1>6. ASSUME NEW i \in 1..Depth, NEW k \in 1..Len(includes[chain[i].id]), k < chain'[i].next,
             ~includes[chain[i].id][k].pick, NEW j \in 1..i, chain[j].id = includes[chain[i].id][k].to
      PROVE  <<chain[i].id, includes[chain[i].id][k].to>> \in notes'
  <2>1. CASE k < chain[i].next
    <3>1. <<chain[i].id, includes[chain[i].id][k].to>> \in notes
      BY <1>6, <2>1 DEF NotesLeadBack
    <3> QED BY <3>1
  <2>2. CASE ~(k < chain[i].next)
    <3>1. i = Depth /\ k = chain[i].next
      <4>1. k \in Nat
        BY <1>1, Graph
      <4> QED BY <1>1, <1>6, <2>2, <4>1
    <3>2. includes[chain[i].id][k] = Inc
      BY <3>1 DEF Inc, Parent
    <3>3. ClosesCycle
      BY <1>1, <1>6, <3>1, <3>2 DEF ClosesCycle, OnChain
    <3> QED BY <1>1, <3>1, <3>2, <3>3
  <2> QED BY <2>1, <2>2
<1>7. \A i \in 1..Depth' : \A q \in Harnesses : <<chain'[i].id, q>> \in notes' => \E j \in 1..i : chain'[j].id = q
  <2> SUFFICES ASSUME NEW i \in 1..Depth, NEW q \in Harnesses, <<chain[i].id, q>> \in notes'
               PROVE  \E j \in 1..i : chain'[j].id = q
    BY <1>1
  <2>1. PICK j \in 1..i : chain[j].id = q
    BY <1>5
  <2> QED BY <1>1, <2>1
<1>8. \A i \in 1..Depth' : \A k \in 1..Len(includes'[chain'[i].id]) :
        LET e == includes'[chain'[i].id][k]
        IN (k < chain'[i].next /\ ~e.pick /\ \E j \in 1..i : chain'[j].id = e.to)
             => <<chain'[i].id, e.to>> \in notes'
  <2> SUFFICES ASSUME NEW i \in 1..Depth, NEW k \in 1..Len(includes[chain[i].id]), k < chain'[i].next,
                      ~includes[chain[i].id][k].pick, NEW j \in 1..i, chain'[j].id = includes[chain[i].id][k].to
               PROVE  <<chain[i].id, includes[chain[i].id][k].to>> \in notes'
    BY <1>1
  <2>1. chain[j].id = includes[chain[i].id][k].to
    BY <1>1
  <2> QED BY <1>6, <2>1
<1> QED BY <1>4, <1>7, <1>8 DEF NotesLeadBack

LEMMA NotesDescend ==
  ASSUME TypeOK, ChainPart, NotesLeadBack, Descend
  PROVE  NotesLeadBack'
<1>1. /\ includes' = includes /\ notes' = notes /\ done' = done /\ Listed /\ Inc.to \in Harnesses
      /\ chain' = Append(Advanced, [id |-> Inc.to, next |-> 1])
      /\ Inc.to \notin OnChain /\ Whole(Inc.to) \notin done /\ ~Inc.pick
  BY DEF Descend, Read, graph, ClosesCycle, ContributedWhole
<1>2. /\ Depth \in Nat /\ Depth > 0 /\ Depth' = Depth + 1
      /\ \A i \in 1..Depth : chain'[i].id = chain[i].id /\ (i # Depth => chain'[i].next = chain[i].next)
      /\ chain'[Depth].next = chain[Depth].next + 1
      /\ chain'[Depth + 1].id = Inc.to /\ chain'[Depth + 1].next = 1
      /\ \A i \in 1..Depth : chain[i].id \in Harnesses /\ chain[i].next \in Nat
  <2>1. [id |-> Inc.to, next |-> 1] \in Frames
    BY <1>1 DEF Frames
  <2>2. /\ Advanced \in Seq(Frames) /\ Len(Advanced) = Depth
        /\ \A i \in 1..Depth : Advanced[i].id = chain[i].id /\ (i # Depth => Advanced[i].next = chain[i].next)
        /\ Advanced[Depth].next = chain[Depth].next + 1
    BY AdvancedChain
  <2>3. /\ Len(chain') = Depth + 1 /\ \A i \in 1..Depth : chain'[i] = Advanced[i]
        /\ chain'[Depth + 1] = [id |-> Inc.to, next |-> 1]
    BY <1>1, <2>1, <2>2, Appended
  <2>4. /\ Depth \in Nat /\ Depth > 0 /\ Depth \in 1..Depth
        /\ \A i \in 1..Depth : chain[i].id \in Harnesses /\ chain[i].next \in Nat
    BY Graph
  <2>5. Depth' = Depth + 1
    BY <2>3 DEF Depth
  <2> QED BY <2>2, <2>3, <2>4, <2>5
<1>3. 1..Depth' = 1..Depth \union {Depth + 1}
  BY <1>2
<1>4. Met \subseteq Met' /\ Inc.to \notin Met
  BY <1>1, <1>2, <1>3 DEF Met, OnChain, Whole
<1>5. \A n \in notes' : n[1] \in Met'
  BY <1>1, <1>4 DEF NotesLeadBack
<1>6. \A i \in 1..Depth' : \A q \in Harnesses : <<chain'[i].id, q>> \in notes' => \E j \in 1..i : chain'[j].id = q
  <2> SUFFICES ASSUME NEW i \in 1..Depth', NEW q \in Harnesses, <<chain'[i].id, q>> \in notes
               PROVE  \E j \in 1..i : chain'[j].id = q
    BY <1>1
  <2>1. CASE i \in 1..Depth
    <3>1. PICK j \in 1..i : chain[j].id = q
      BY <1>2, <2>1 DEF NotesLeadBack
    <3>2. j \in 1..Depth
      BY <1>2, <2>1
    <3> QED BY <1>2, <3>1, <3>2
  <2>2. CASE i = Depth + 1
    BY <1>2, <1>4, <2>2 DEF NotesLeadBack
  <2> QED BY <1>3, <2>1, <2>2
<1>7. \A i \in 1..Depth' : \A k \in 1..Len(includes'[chain'[i].id]) :
        LET e == includes'[chain'[i].id][k]
        IN (k < chain'[i].next /\ ~e.pick /\ \E j \in 1..i : chain'[j].id = e.to)
             => <<chain'[i].id, e.to>> \in notes'
  <2> SUFFICES ASSUME NEW i \in 1..Depth', NEW k \in 1..Len(includes[chain'[i].id]), k < chain'[i].next,
                      ~includes[chain'[i].id][k].pick, NEW j \in 1..i, chain'[j].id = includes[chain'[i].id][k].to
               PROVE  <<chain'[i].id, includes[chain'[i].id][k].to>> \in notes
    BY <1>1
  <2>1. CASE i = Depth + 1
    <3>1. Inc.to \in Harnesses /\ k \in Nat /\ k > 0
      BY <1>1, <1>2, <2>1, Graph
    <3> QED BY <1>2, <2>1, <3>1
  <2>2. CASE i \in 1..Depth
    <3>1. /\ chain'[i].id = chain[i].id /\ j \in 1..Depth /\ chain[j].id = includes[chain[i].id][k].to
          /\ k \in 1..Len(includes[chain[i].id]) /\ k \in Nat
      BY <1>2, <2>2, Graph
    <3>2. CASE k < chain[i].next
      BY <2>2, <3>1, <3>2 DEF NotesLeadBack
    <3>3. CASE ~(k < chain[i].next)
      <4>1. i = Depth /\ k = chain[i].next
        BY <1>2, <2>2, <3>1, <3>3
      <4>2. includes[chain[i].id][k] = Inc
        BY <4>1 DEF Inc, Parent
      <4> QED BY <1>1, <3>1, <4>2 DEF OnChain
    <3> QED BY <3>2, <3>3
  <2> QED BY <1>3, <2>1, <2>2
<1> QED BY <1>5, <1>6, <1>7 DEF NotesLeadBack

LEMMA ShorterChain ==
  ASSUME TypeOK, Return
  PROVE  /\ Depth > 1 /\ Depth \in Nat /\ Depth' = Depth - 1 /\ \A i \in 1..(Depth - 1) : chain'[i] = chain[i]
         /\ Parent \in Harnesses /\ chain[Depth].id = Parent /\ done' = done \union {Whole(Parent)}
         /\ \A k \in 1..Len(includes[Parent]) : k < chain[Depth].next
         /\ UNCHANGED <<includes, notes, parents, hookLinks, status>>
<1>1. /\ Depth > 1 /\ chain' = SubSeq(chain, 1, Depth - 1) /\ ~Listed /\ done' = done \union {Whole(Parent)}
      /\ UNCHANGED <<includes, notes, parents, hookLinks, status>>
  BY DEF Return, graph
<1>2. chain \in Seq(Frames) /\ Depth \in Nat /\ Parent \in Harnesses /\ chain[Depth].next \in Nat
      /\ chain[Depth].next > 0 /\ Len(includes[Parent]) \in Nat
  BY Graph DEF TypeOK
<1>3. Depth' = Depth - 1 /\ \A i \in 1..(Depth - 1) : chain'[i] = chain[i]
  BY <1>1, <1>2, Shortened DEF Depth
<1>4. \A k \in 1..Len(includes[Parent]) : k < chain[Depth].next
  BY <1>1, <1>2 DEF Listed
<1> QED BY <1>1, <1>2, <1>3, <1>4 DEF Parent

LEMMA NotesReturn ==
  ASSUME TypeOK, ChainPart, NotesLeadBack, Return
  PROVE  NotesLeadBack'
<1>1. /\ Depth \in Nat /\ Depth' = Depth - 1 /\ \A i \in 1..(Depth - 1) : i \in 1..Depth /\ chain'[i] = chain[i]
      /\ chain[Depth].id = Parent /\ done' = done \union {Whole(Parent)} /\ UNCHANGED <<includes, notes>>
  BY ShorterChain
<1>2. Met \subseteq Met'
  <2> SUFFICES ASSUME NEW h \in Met PROVE h \in Met'
    OBVIOUS
  <2>1. CASE Whole(h) \in done
    BY <1>1, <2>1 DEF Met, Whole
  <2>2. CASE h \in OnChain
    <3>1. PICK i \in 1..Depth : chain[i].id = h
      BY <2>2 DEF OnChain
    <3>2. CASE i = Depth
      BY <1>1, <3>1, <3>2 DEF Met, Whole
    <3>3. CASE i # Depth
      <4>1. i \in 1..Depth' /\ chain'[i].id = h
        BY <1>1, <3>1, <3>3
      <4> QED BY <4>1 DEF Met, OnChain
    <3> QED BY <3>2, <3>3
  <2> QED BY <2>1, <2>2 DEF Met
<1>3. \A i \in 1..Depth' : \A j \in 1..i : chain'[j] = chain[j] /\ i \in 1..Depth
  BY <1>1
<1>4. \A i \in 1..Depth' : chain'[i] = chain[i] /\ i \in 1..Depth
  BY <1>1
<1>5. \A n \in notes' : n[1] \in Met'
  BY <1>1, <1>2 DEF NotesLeadBack
<1>6. \A i \in 1..Depth' : \A q \in Harnesses : <<chain'[i].id, q>> \in notes' => \E j \in 1..i : chain'[j].id = q
  BY <1>1, <1>3, <1>4 DEF NotesLeadBack
<1>7. \A i \in 1..Depth' : \A k \in 1..Len(includes'[chain'[i].id]) :
        LET e == includes'[chain'[i].id][k]
        IN (k < chain'[i].next /\ ~e.pick /\ \E j \in 1..i : chain'[j].id = e.to)
             => <<chain'[i].id, e.to>> \in notes'
  <2> SUFFICES ASSUME NEW i \in 1..Depth', NEW k \in 1..Len(includes[chain'[i].id]), k < chain'[i].next,
                      ~includes[chain'[i].id][k].pick, NEW j \in 1..i, chain'[j].id = includes[chain'[i].id][k].to
               PROVE  <<chain'[i].id, includes[chain'[i].id][k].to>> \in notes
    BY <1>1
  <2>1. chain'[i] = chain[i] /\ i \in 1..Depth /\ chain[j].id = includes[chain[i].id][k].to
    BY <1>3, <1>4
  <2> QED BY <2>1 DEF NotesLeadBack
<1> QED BY <1>5, <1>6, <1>7 DEF NotesLeadBack

\* The include being read that is no cycle's is not noted already.
LEMMA NewIsRoute ==
  ASSUME TypeOK, ChainPart, NotesLeadBack, Listed, Inc.to \in Harnesses, ~ClosesCycle
  PROVE  IsRoute(Parent, Inc)
<1>1. Depth \in 1..Depth /\ chain[Depth].id = Parent
  BY Graph DEF Parent
<1>2. <<Parent, Inc.to>> \in notes => Inc.to \in OnChain
  BY <1>1 DEF NotesLeadBack, OnChain
<1>3. Inc.pick \in BOOLEAN
  BY IncIsEntry
<1> QED BY <1>2, <1>3 DEF IsRoute, ClosesCycle


\* No include becomes a route, or stops being one, when a harness is contributed.
LEMMA ReturnReads ==
  ASSUME TypeOK, ChainPart, Return
  PROVE  \A p \in Harnesses : \A k \in 1..Len(includes[p]) : RouteRead(p, k)' <=> RouteRead(p, k)
<1> SUFFICES ASSUME NEW p \in Harnesses, NEW k \in 1..Len(includes[p])
             PROVE  RouteRead(p, k)' <=> RouteRead(p, k)
  OBVIOUS
<1>1. /\ Depth > 1 /\ Depth \in Nat /\ Depth' = Depth - 1 /\ \A i \in 1..(Depth - 1) : chain'[i] = chain[i]
      /\ chain[Depth].id = Parent /\ done' = done \union {Whole(Parent)} /\ UNCHANGED <<includes, notes>>
      /\ \A j \in 1..Len(includes[Parent]) : j < chain[Depth].next
  BY ShorterChain
<1>2. 1..Depth = 1..Depth' \union {Depth} /\ \A i \in 1..Depth' : chain'[i] = chain[i]
  BY <1>1
<1>3. Whole(p) \in done' <=> Whole(p) \in done \/ p = Parent
  BY <1>1 DEF Whole
<1>4. p = Parent => IsRead(p, k) /\ IsRead(p, k)'
  BY <1>1, <1>2, <1>3 DEF IsRead
<1>5. p # Parent => (IsRead(p, k)' <=> IsRead(p, k))
  BY <1>1, <1>2, <1>3 DEF IsRead
<1> QED BY <1>1, <1>4, <1>5 DEF RouteRead, IsRoute

LEMMA RoutesNext ==
  ASSUME TypeOK, TypeOK', ChainPart, RoutePart, [Next]_vars
  PROVE  RoutePart'
<1> USE DEF RoutePart
<1>1. CASE CannotLoad \/ TwoVersions \/ IncludesItself \/ Finish \/ UNCHANGED vars
  <2>1. UNCHANGED <<includes, chain, done, notes, parents, hookLinks>>
    BY <1>1 DEF CannotLoad, TwoVersions, IncludesItself, Refuse, Finish, vars, found, graph
  <2>2. UNCHANGED <<Met, Depth>>
    BY <2>1 DEF Met, OnChain, Depth, Whole
  <2>3. NotesLeadBack' /\ HaveRoutes'
    BY <2>1, <2>2 DEF NotesLeadBack, HaveRoutes, Whole
  <2>4. \A p \in Harnesses : \A k \in 1..Len(includes[p]) : RouteRead(p, k)' <=> RouteRead(p, k)
    BY <2>1, <2>2 DEF RouteRead, IsRead, IsRoute, Whole
  <2> QED BY <2>1, <2>3, <2>4, NothingRecorded
<1>2. ASSUME Listed, includes' = includes, \A h \in Harnesses : Whole(h) \in done' <=> Whole(h) \in done,
             chain' = Advanced \/ (chain' = Append(Advanced, [id |-> Inc.to, next |-> 1]) /\ Inc.to \in Harnesses)
      PROVE  /\ \A p \in Harnesses : \A k \in 1..Len(includes[p]) :
                  IsRead(p, k)' <=> IsRead(p, k) \/ (p = Parent /\ k = chain[Depth].next)
             /\ Inc = includes[Parent][chain[Depth].next] /\ Parent \in Harnesses
             /\ chain[Depth].next \in 1..Len(includes[Parent])
  BY <1>2, OneRead, Graph DEF Inc, Listed
\* A route more, which the include is.
<1>3. ASSUME Listed, includes' = includes, \A h \in Harnesses : Whole(h) \in done' <=> Whole(h) \in done,
             chain' = Advanced \/ (chain' = Append(Advanced, [id |-> Inc.to, next |-> 1]) /\ Inc.to \in Harnesses),
             Inc.to \in Harnesses, ~ClosesCycle, notes' = notes,
             NEW node \in Nodes, node = [id |-> Inc.to, pick |-> Inc.pick], Record(node)
      PROVE  LinksRecorded' /\ ParentsRecorded' /\ Len(parents'[node]) > 0
             /\ \A n \in Nodes : Len(parents[n]) > 0 => Len(parents'[n]) > 0
  <2>1. IsRoute(Parent, Inc)
    BY <1>3, NewIsRoute
  <2>2. \A p \in Harnesses : \A k \in 1..Len(includes[p]) :
           includes[p][k].to \in Harnesses =>
             (RouteRead(p, k)' <=> RouteRead(p, k) \/ (p = Parent /\ k = chain[Depth].next))
    <3> SUFFICES ASSUME NEW p \in Harnesses, NEW k \in 1..Len(includes[p])
                 PROVE  RouteRead(p, k)' <=> RouteRead(p, k) \/ (p = Parent /\ k = chain[Depth].next)
      OBVIOUS
    <3>1. IsRead(p, k)' <=> IsRead(p, k) \/ (p = Parent /\ k = chain[Depth].next)
      BY <1>2, <1>3
    <3>2. IsRoute(p, includes[p][k])' <=> IsRoute(p, includes[p][k])
      BY <1>3 DEF IsRoute
    <3>3. (p = Parent /\ k = chain[Depth].next) => IsRoute(p, includes[p][k])
      BY <2>1 DEF Inc
    <3> QED BY <3>1, <3>2, <3>3 DEF RouteRead
  <2> QED BY <1>3, <2>2, OneRecorded
<1>4. ASSUME NEW n \in done PROVE n \in Nodes
  BY DEF TypeOK
<1>5. ASSUME NEW i \in 1..Depth PROVE Whole(chain[i].id) \in Nodes
  BY Graph, NodeTypes DEF Whole, Targets
<1>6. ASSUME chain' = Advanced
      PROVE  Depth' = Depth /\ \A i \in 1..Depth : chain'[i].id = chain[i].id
  BY <1>6, AdvancedChain DEF Depth
<1>7. CASE TakePackage
  <2>1. /\ Listed /\ includes' = includes /\ chain' = Advanced /\ UNCHANGED <<done, parents, hookLinks, notes>>
        /\ Inc.to \notin Harnesses
    BY <1>7, GraphAssumption DEF TakePackage, Read, graph, GraphAssumption
  <2>2. ~ClosesCycle
    BY <2>1, Graph DEF ClosesCycle, OnChain
  <2>3. NotesLeadBack'
    BY <2>1, <2>2, NotesReadOn
  <2>4. \A p \in Harnesses : \A k \in 1..Len(includes[p]) :
           includes[p][k].to \in Harnesses => (RouteRead(p, k)' <=> RouteRead(p, k))
    <3> SUFFICES ASSUME NEW p \in Harnesses, NEW k \in 1..Len(includes[p]), includes[p][k].to \in Harnesses
                 PROVE  RouteRead(p, k)' <=> RouteRead(p, k)
      OBVIOUS
    <3>1. IsRead(p, k)' <=> IsRead(p, k)
      BY <1>2, <2>1
    <3> QED BY <2>1, <3>1 DEF RouteRead, IsRoute
  <2>5. HaveRoutes'
    BY <1>6, <2>1 DEF HaveRoutes, Whole
  <2> QED BY <2>1, <2>3, <2>4, <2>5, NothingRecorded
<1>8. CASE SkipCycle
  <2>1. /\ Listed /\ includes' = includes /\ chain' = Advanced /\ UNCHANGED <<done, parents, hookLinks>>
        /\ notes' = notes \union {<<Parent, Inc.to>>} /\ ClosesCycle
    BY <1>8 DEF SkipCycle, Read, graph, found
  <2>2. NotesLeadBack'
    BY <2>1, NotesReadOn
  <2>3. \A p \in Harnesses : \A k \in 1..Len(includes[p]) : RouteRead(p, k)' <=> RouteRead(p, k)
    <3> SUFFICES ASSUME NEW p \in Harnesses, NEW k \in 1..Len(includes[p])
                 PROVE  RouteRead(p, k)' <=> RouteRead(p, k)
      OBVIOUS
    <3>1. IsRead(p, k)' <=> IsRead(p, k) \/ (p = Parent /\ k = chain[Depth].next)
      BY <1>2, <2>1
    <3>2. (p = Parent /\ k = chain[Depth].next) => ~IsRoute(p, includes[p][k])'
      BY <2>1 DEF Inc, ClosesCycle, IsRoute
    <3>3. IsRoute(p, includes[p][k])' => IsRoute(p, includes[p][k])
      BY <2>1 DEF IsRoute
    <3>4. ASSUME RouteRead(p, k), ~IsRoute(p, includes[p][k])' PROVE FALSE
      <4>1. ~includes[p][k].pick /\ p = Parent /\ includes[p][k].to = Inc.to /\ <<p, Inc.to>> \notin notes
        BY <2>1, <3>4 DEF RouteRead, IsRoute
      <4>2. Whole(Parent) \notin done /\ Depth \in 1..Depth /\ chain[Depth].id = Parent /\ Depth \in Nat
        BY Graph DEF ChainPart, OpenNotDone, Parent
      <4>3. k < chain[Depth].next
        <5>1. PICK i \in 1..Depth : chain[i].id = p /\ k < chain[i].next
          BY <3>4, <4>1, <4>2 DEF RouteRead, IsRead
        <5> QED BY <4>1, <4>2, <5>1 DEF ChainPart, ChainIsSimple
      <4>4. \E j \in 1..Depth : chain[j].id = Inc.to
        BY <2>1 DEF ClosesCycle, OnChain
      <4> QED BY <4>1, <4>2, <4>3, <4>4 DEF NotesLeadBack
    <3> QED BY <3>1, <3>2, <3>3, <3>4 DEF RouteRead
  <2>4. HaveRoutes'
    BY <1>6, <2>1 DEF HaveRoutes, Whole
  <2> QED BY <2>1, <2>2, <2>3, <2>4, NothingRecorded
<1>9. CASE TakePick
  <2>1. /\ Listed /\ includes' = includes /\ chain' = Advanced /\ notes' = notes
        /\ Inc.to \in Harnesses /\ Inc.pick /\ Record(Picked(Inc.to)) /\ done' = done \union {Picked(Inc.to)}
    BY <1>9 DEF TakePick, Read, graph
  <2>2. ~ClosesCycle /\ Picked(Inc.to) \in Nodes /\ Inc.pick \in BOOLEAN
    BY <2>1, IncIsEntry, NodeTypes DEF ClosesCycle, Picked, Targets
  <2>3. Picked(Inc.to) = [id |-> Inc.to, pick |-> Inc.pick]
    BY <2>1, <2>2 DEF Picked
  <2>4. \A h \in Harnesses : Whole(h) \in done' <=> Whole(h) \in done
    BY <2>1 DEF Whole, Picked
  <2>5. NotesLeadBack'
    BY <2>1, <2>2, <2>4, NotesReadOn
  <2>6. LinksRecorded' /\ ParentsRecorded' /\ Len(parents'[Picked(Inc.to)]) > 0
        /\ \A n \in Nodes : Len(parents[n]) > 0 => Len(parents'[n]) > 0
    BY <1>3, <2>1, <2>2, <2>3, <2>4
  <2>7. HaveRoutes'
    BY <1>4, <1>5, <1>6, <2>1, <2>6 DEF HaveRoutes, Whole
  <2> QED BY <2>5, <2>6, <2>7
<1>10. CASE MeetAgain \/ Descend
  <2>1. /\ Listed /\ includes' = includes /\ notes' = notes /\ done' = done
        /\ chain' = Advanced \/ (chain' = Append(Advanced, [id |-> Inc.to, next |-> 1]) /\ Inc.to \in Harnesses)
        /\ Inc.to \in Harnesses /\ ~Inc.pick /\ ~ClosesCycle /\ Record(Whole(Inc.to))
    BY <1>10 DEF MeetAgain, Descend, Read, graph
  <2>2. Whole(Inc.to) \in Nodes /\ Inc.pick \in BOOLEAN
    BY <2>1, IncIsEntry, NodeTypes DEF Whole, Targets
  <2>3. Whole(Inc.to) = [id |-> Inc.to, pick |-> Inc.pick]
    BY <2>1, <2>2 DEF Whole
  <2>4. \A h \in Harnesses : Whole(h) \in done' <=> Whole(h) \in done
    BY <2>1 DEF Whole
  <2>5. NotesLeadBack'
    <3>1. CASE MeetAgain
      BY <2>1, <2>4, <3>1, NotesReadOn DEF MeetAgain
    <3> QED BY <1>10, <3>1, NotesDescend
  <2>6. LinksRecorded' /\ ParentsRecorded' /\ Len(parents'[Whole(Inc.to)]) > 0
        /\ \A n \in Nodes : Len(parents[n]) > 0 => Len(parents'[n]) > 0
    BY <1>3, <2>1, <2>2, <2>3, <2>4
  <2>7. HaveRoutes'
    <3>1. \A n \in done' : Len(parents'[n]) > 0
      BY <1>4, <2>1, <2>6 DEF HaveRoutes
    <3>2. CASE chain' = Advanced
      BY <1>5, <1>6, <2>6, <3>1, <3>2 DEF HaveRoutes, Whole
    <3>3. CASE chain' = Append(Advanced, [id |-> Inc.to, next |-> 1])
      <4>1. /\ Advanced \in Seq(Frames) /\ Len(Advanced) = Depth /\ Depth \in Nat
            /\ \A i \in 1..Depth : Advanced[i].id = chain[i].id
        BY AdvancedChain, Graph
      <4>2. [id |-> Inc.to, next |-> 1] \in Frames
        BY <2>1 DEF Frames
      <4>3. /\ Depth' = Depth + 1 /\ \A i \in 1..Depth : chain'[i].id = chain[i].id
            /\ chain'[Depth + 1].id = Inc.to
        BY <3>3, <4>1, <4>2, Appended DEF Depth
      <4>4. \A i \in 1..Depth' : i \in 1..Depth \/ i = Depth + 1
        BY <4>1, <4>3
      <4>5. \A i \in 1..Depth' : i > 1 => Len(parents'[Whole(chain'[i].id)]) > 0
        BY <1>5, <2>6, <4>3, <4>4 DEF HaveRoutes, Whole
      <4> QED BY <3>1, <4>5 DEF HaveRoutes, Whole
    <3> QED BY <2>1, <3>2, <3>3
  <2> QED BY <2>5, <2>6, <2>7
<1>11. CASE Return
  <2>1. /\ Depth > 1 /\ Depth \in Nat /\ Depth' = Depth - 1 /\ \A i \in 1..(Depth - 1) : chain'[i] = chain[i]
        /\ chain[Depth].id = Parent /\ done' = done \union {Whole(Parent)}
        /\ UNCHANGED <<includes, notes, parents, hookLinks>>
    BY <1>11, ShorterChain
  <2>2. Depth \in 1..Depth /\ \A i \in 1..Depth' : i \in 1..Depth /\ chain'[i] = chain[i]
    BY <2>1
  <2>3. Len(parents[Whole(Parent)]) > 0
    BY <2>1, <2>2 DEF HaveRoutes
  <2>4. HaveRoutes'
    BY <2>1, <2>2, <2>3 DEF HaveRoutes, Whole
  <2> QED BY <1>11, <2>1, <2>4, NotesReturn, ReturnReads, NothingRecorded
<1> QED BY <1>1, <1>7, <1>8, <1>9, <1>10, <1>11 DEF Next

LEMMA RoutesInit == Init => RoutePart
<1> SUFFICES ASSUME Init PROVE RoutePart
  OBVIOUS
<1>0. TypeOK
  BY WalkTypesInit
<1>1. /\ Depth = 1 /\ chain[1].next = 1 /\ done = {} /\ notes = {}
      /\ \A n \in Nodes : Len(parents[n]) = 0 /\ \A h \in Targets : Len(hookLinks[h]) = 0
  BY DEF Init, Depth
<1>2. \A p \in Harnesses : \A k \in 1..Len(includes[p]) : ~(k < 1)
  BY <1>0, Graph
<1>3. \A p \in Harnesses : \A k \in 1..Len(includes[p]) : ~IsRead(p, k)
  <2>1. \A i \in 1..Depth : chain[i].next = 1
    BY <1>1
  <2> QED BY <1>1, <1>2, <2>1 DEF IsRead
<1>4. NotesLeadBack
  <2>1. \A i \in 1..Depth : chain[i].id \in Harnesses /\ chain[i].next = 1
    BY <1>0, <1>1, Graph
  <2>2. \A i \in 1..Depth : \A k \in 1..Len(includes[chain[i].id]) : ~(k < chain[i].next)
    BY <1>2, <2>1
  <2> QED BY <1>1, <2>2 DEF NotesLeadBack
<1>5. HaveRoutes
  BY <1>1 DEF HaveRoutes
<1>6. LinksRecorded
  <2>1. \A h \in Harnesses : Len(hookLinks[h]) = 0
    BY <1>1 DEF Init, Targets
  <2> QED BY <1>3, <2>1 DEF LinksRecorded, LinkFrom, RouteRead
<1>7. ParentsRecorded
  <2>1. \A n \in Nodes : Len(parents[n]) = 0
    BY <1>1
  <2> QED BY <1>3, <2>1 DEF ParentsRecorded, ParentIs, RouteRead
<1> QED BY <1>4, <1>5, <1>6, <1>7 DEF RoutePart

------------------------------------------------------------------------------
(* The routes of a resolved graph                                             *)

AtRest == WalkInv /\ RoutePart /\ status = "resolved"

LEMMA RoutesRead ==
  ASSUME AtRest, NEW p \in Harnesses, NEW k \in 1..Len(includes[p])
  PROVE  RouteRead(p, k) <=> Reaches(Root, p) /\ IsRoute(p, includes[p][k])
<1>0. TypeOK /\ ChainPart /\ ResultPart
  BY DEF AtRest, WalkInv
<1>1. /\ Depth = 1 /\ ~Listed /\ Parent = Root /\ chain[1].id = Root /\ Root \in Harnesses
      /\ chain[1].next \in Nat /\ chain[1].next > 0 /\ Len(includes[Root]) \in Nat
  BY <1>0, Graph, GraphAssumption DEF ChainPart, AtTheEnd, OpenNotDone, Parent, GraphAssumption, AtRest
<1>2. CASE p = Root
  <2>1. Reaches(Root, p)
    BY <1>2, ReachesItself
  <2>2. k < chain[1].next
    BY <1>1, <1>2 DEF Listed
  <2>3. IsRead(p, k)
    BY <1>1, <1>2, <2>2 DEF IsRead
  <2> QED BY <2>1, <2>3 DEF RouteRead
<1>3. CASE p # Root
  <2>1. Whole(p) \in Nodes /\ Whole(p).id = p
    BY NodeTypes DEF Whole, Targets
  <2>2. Whole(p) \in done <=> Reaches(Root, p)
    BY <1>0, <1>3, <2>1, ReachedAll DEF AllReached, AtRest, ResultPart, DoneIsContributed
  <2>3. \A i \in 1..Depth : chain[i].id # p
    BY <1>1, <1>3
  <2> QED BY <2>2, <2>3 DEF RouteRead, IsRead
<1> QED BY <1>2, <1>3

LEMMA RoutesAre ==
  ASSUME AtRest
  PROVE  /\ \A r \in Routes : \E p \in Harnesses : \E k \in 1..Len(includes[p]) :
              /\ Reaches(Root, p) /\ r = <<p, includes[p][k]>> /\ RouteRead(p, k) /\ includes[p][k] \in Entries
         /\ \A p \in Harnesses : \A k \in 1..Len(includes[p]) :
              RouteRead(p, k) => <<p, includes[p][k]>> \in Routes
<1>1. \A p \in Harnesses : \A k \in 1..Len(includes[p]) : includes[p][k] \in Entries
  BY Graph DEF AtRest, WalkInv
<1>2. ASSUME NEW r \in Routes
      PROVE  \E p \in Harnesses : \E k \in 1..Len(includes[p]) :
               Reaches(Root, p) /\ r = <<p, includes[p][k]>> /\ RouteRead(p, k) /\ includes[p][k] \in Entries
  <2>1. PICK p \in Harnesses : Reaches(Root, p) /\ r \in { <<p, includes[p][i]>> : i \in 1..Len(includes[p]) }
    BY DEF Routes
  <2>2. PICK k \in 1..Len(includes[p]) : r = <<p, includes[p][k]>>
    BY <2>1
  <2>3. IsRoute(p, includes[p][k])
    BY <2>2 DEF Routes, IsRoute
  <2> QED BY <1>1, <2>1, <2>2, <2>3, RoutesRead
<1>3. ASSUME NEW p \in Harnesses, NEW k \in 1..Len(includes[p]), RouteRead(p, k)
      PROVE  <<p, includes[p][k]>> \in Routes
  <2>1. Reaches(Root, p) /\ IsRoute(p, includes[p][k])
    BY <1>3, RoutesRead
  <2> QED BY <2>1 DEF Routes, IsRoute
<1> QED BY <1>2, <1>3

\* Who an include was reached from, and what was said of its hooks, are its routes.
LEMMA LinksAreRoutes ==
  ASSUME AtRest, NEW h \in Harnesses, NEW p \in Harnesses, NEW b \in BOOLEAN
  PROVE  LinkFrom(h, p, b) <=> \E r \in Routes : r[1] = p /\ r[2].to = h /\ r[2].hooks = b
<1>1. LinkFrom(h, p, b) <=> \E k \in 1..Len(includes[p]) :
        RouteRead(p, k) /\ includes[p][k].to = h /\ includes[p][k].hooks = b
  BY DEF AtRest, RoutePart, LinksRecorded
<1>2. ASSUME NEW k \in 1..Len(includes[p]), RouteRead(p, k), includes[p][k].to = h, includes[p][k].hooks = b
      PROVE  \E r \in Routes : r[1] = p /\ r[2].to = h /\ r[2].hooks = b
  BY <1>2, RoutesAre
<1>3. ASSUME NEW r \in Routes, r[1] = p, r[2].to = h, r[2].hooks = b
      PROVE  \E k \in 1..Len(includes[p]) : RouteRead(p, k) /\ includes[p][k].to = h /\ includes[p][k].hooks = b
  BY <1>3, RoutesAre
<1> QED BY <1>1, <1>2, <1>3

LEMMA ParentsAreRoutes ==
  ASSUME AtRest, NEW n \in Nodes, n.id \in Harnesses, NEW p \in Harnesses
  PROVE  ParentIs(n, p) <=> \E r \in Routes : r[1] = p /\ r[2].to = n.id /\ r[2].pick = n.pick
<1>1. ParentIs(n, p) <=> \E k \in 1..Len(includes[p]) :
        RouteRead(p, k) /\ includes[p][k].to = n.id /\ includes[p][k].pick = n.pick
  BY DEF AtRest, RoutePart, ParentsRecorded
<1>2. ASSUME NEW k \in 1..Len(includes[p]), RouteRead(p, k), includes[p][k].to = n.id, includes[p][k].pick = n.pick
      PROVE  \E r \in Routes : r[1] = p /\ r[2].to = n.id /\ r[2].pick = n.pick
  BY <1>2, RoutesAre
<1>3. ASSUME NEW r \in Routes, r[1] = p, r[2].to = n.id, r[2].pick = n.pick
      PROVE  \E k \in 1..Len(includes[p]) :
               RouteRead(p, k) /\ includes[p][k].to = n.id /\ includes[p][k].pick = n.pick
  BY <1>3, RoutesAre
<1> QED BY <1>1, <1>2, <1>3

LEMMA RouteTypes ==
  ASSUME AtRest
  PROVE  /\ \A r \in Routes : /\ r[1] \in Harnesses /\ Reaches(Root, r[1]) /\ r[2].hooks \in BOOLEAN
                              /\ r[2].pick \in BOOLEAN /\ r[2].to \in Targets
         /\ \A h \in Harnesses : \A k \in DOMAIN hookLinks[h] :
              /\ hookLinks[h][k].parent \in Harnesses /\ hookLinks[h][k].hooks \in BOOLEAN
              /\ k \in Nat /\ LinkFrom(h, hookLinks[h][k].parent, hookLinks[h][k].hooks)
         /\ \A n \in Nodes : \A k \in DOMAIN parents[n] :
              parents[n][k] \in Harnesses /\ k \in Nat /\ ParentIs(n, parents[n][k])
         /\ \A h \in Harnesses : DOMAIN hookLinks[h] = 1..Len(hookLinks[h])
         /\ \A n \in Nodes : DOMAIN parents[n] = 1..Len(parents[n]) /\ Len(parents[n]) \in Nat
<1>1. TypeOK
  BY DEF AtRest, WalkInv
<1>2. \A r \in Routes : /\ r[1] \in Harnesses /\ Reaches(Root, r[1]) /\ r[2].hooks \in BOOLEAN
                        /\ r[2].pick \in BOOLEAN /\ r[2].to \in Targets
  BY RoutesAre DEF Entries
<1>3. ASSUME NEW h \in Harnesses
      PROVE  /\ DOMAIN hookLinks[h] = 1..Len(hookLinks[h])
             /\ \A k \in DOMAIN hookLinks[h] :
                  /\ hookLinks[h][k].parent \in Harnesses /\ hookLinks[h][k].hooks \in BOOLEAN
                  /\ k \in Nat /\ LinkFrom(h, hookLinks[h][k].parent, hookLinks[h][k].hooks)
  <2>1. hookLinks[h] \in Seq(Links)
    BY <1>1 DEF TypeOK, Targets
  <2>2. DOMAIN hookLinks[h] = 1..Len(hookLinks[h]) /\ \A k \in DOMAIN hookLinks[h] : hookLinks[h][k] \in Links /\ k \in Nat
    BY <2>1
  <2> QED BY <2>2 DEF Links, LinkFrom
<1>4. ASSUME NEW n \in Nodes
      PROVE  /\ DOMAIN parents[n] = 1..Len(parents[n]) /\ Len(parents[n]) \in Nat
             /\ \A k \in DOMAIN parents[n] : parents[n][k] \in Harnesses /\ k \in Nat /\ ParentIs(n, parents[n][k])
  <2>1. parents[n] \in Seq(Harnesses)
    BY <1>1 DEF TypeOK
  <2> QED BY <2>1 DEF ParentIs
<1> QED BY <1>2, <1>3, <1>4

\* A contribution of a harness has a route, and so has every harness that is one.
LEMMA ContributedHaveRoutes ==
  ASSUME AtRest
  PROVE  /\ \A n \in Contributed : n.id \in Harnesses =>
              /\ n \in Nodes /\ Len(parents[n]) > 0 /\ n # Whole(Root)
              /\ \E r \in Routes : r[2].to = n.id /\ r[2].pick = n.pick
         /\ \A r \in Routes : r[1] # Root =>
              /\ Whole(r[1]) \in Contributed /\ Whole(r[1]) \in Nodes
<1>0. TypeOK /\ ResultPart /\ ChainPart
  BY DEF AtRest, WalkInv
<1>1. ASSUME NEW n \in Contributed, n.id \in Harnesses
      PROVE  /\ n \in Nodes /\ Len(parents[n]) > 0 /\ n # Whole(Root)
             /\ \E r \in Routes : r[2].to = n.id /\ r[2].pick = n.pick
  <2>1. n \in Nodes
    BY <1>0 DEF Contributed, TypeOK
  <2>2. n \in done
    BY <1>0, <1>1, <2>1 DEF ResultPart, DoneIsContributed
  <2>3. Len(parents[n]) > 0 /\ Len(parents[n]) \in Nat
    BY <2>1, <2>2, RouteTypes DEF AtRest, RoutePart, HaveRoutes
  <2>4. n # Whole(Root)
    <3>1. 1 \in 1..Depth
      BY <1>0, Graph
    <3> QED BY <1>0, <2>2, <3>1 DEF ChainPart, OpenNotDone
  <2>5. 1 \in DOMAIN parents[n]
    BY <2>1, <2>3, RouteTypes
  <2>6. parents[n][1] \in Harnesses /\ ParentIs(n, parents[n][1])
    BY <2>1, <2>5, RouteTypes
  <2> QED BY <1>1, <2>1, <2>3, <2>4, <2>6, ParentsAreRoutes
<1>2. ASSUME NEW r \in Routes, r[1] # Root
      PROVE  Whole(r[1]) \in Contributed /\ Whole(r[1]) \in Nodes
  <2>1. r[1] \in Harnesses /\ Reaches(Root, r[1])
    BY RouteTypes
  <2> QED BY <1>2, <2>1, ReachedAll, NodeTypes DEF AtRest, AllReached, Whole, Targets
<1> QED BY <1>1, <1>2

\* What includes a harness whole is contributed after it.
Earlier(n, m) == \E i, j \in 1..Len(results) : i < j /\ results[i] = n /\ results[j] = m

LEMMA EarlierIs ==
  ASSUME AtRest
  PROVE  /\ \A n \in Nodes : n.id \in Harnesses => ~Earlier(n, n)
         /\ \A n \in Nodes, m \in Nodes, o \in Nodes :
              (m.id \in Harnesses /\ Earlier(n, m) /\ Earlier(m, o)) => Earlier(n, o)
         /\ \A r \in Routes : (r[1] # Root /\ r[2].to \in Harnesses /\ ~r[2].pick)
              => Earlier(Whole(r[2].to), Whole(r[1]))
<1>0. NoneTwice /\ AllFollow /\ Len(results) \in Nat /\ TypeOK
  BY DEF AtRest, WalkInv, ResultPart, OrderPart, TypeOK
<1>1. ASSUME NEW n \in Nodes, n.id \in Harnesses, Earlier(n, n) PROVE FALSE
  BY <1>0, <1>1 DEF NoneTwice, Earlier
<1>2. ASSUME NEW n \in Nodes, NEW m \in Nodes, NEW o \in Nodes,
             m.id \in Harnesses, Earlier(n, m), Earlier(m, o)
      PROVE  Earlier(n, o)
  <2>1. PICK i, j \in 1..Len(results) : i < j /\ results[i] = n /\ results[j] = m
    BY <1>2 DEF Earlier
  <2>2. PICK k, l \in 1..Len(results) : k < l /\ results[k] = m /\ results[l] = o
    BY <1>2 DEF Earlier
  <2>3. j = k
    BY <1>0, <1>2, <2>1, <2>2 DEF NoneTwice
  <2>4. i < l
    BY <1>0, <2>1, <2>2, <2>3
  <2> QED BY <2>1, <2>2, <2>4 DEF Earlier
<1>3. ASSUME NEW r \in Routes, r[1] # Root, r[2].to \in Harnesses, ~r[2].pick
      PROVE  Earlier(Whole(r[2].to), Whole(r[1]))
  <2>0. PICK p \in Harnesses : \E k \in 1..Len(includes[p]) : r = <<p, includes[p][k]>> /\ RouteRead(p, k)
    BY RoutesAre
  <2>1. PICK k \in 1..Len(includes[p]) : r = <<p, includes[p][k]>> /\ RouteRead(p, k)
    BY <2>0
  <2>2. Whole(p) \in Contributed
    BY <1>3, <2>1, ContributedHaveRoutes
  <2>3. PICK i \in 1..Len(results) : results[i] = Whole(p)
    BY <2>2 DEF Contributed
  <2>4. /\ includes[p][k].to \in WholeIncludes(p) /\ <<p, includes[p][k].to>> \notin notes
        /\ includes[p][k].to \in Harnesses
    BY <1>3, <2>1 DEF WholeIncludes, RouteRead, IsRoute
  <2>5. results[i].id = p /\ ~results[i].pick
    BY <2>3 DEF Whole
  <2>6. PICK j \in 1..(i - 1) : results[j] = Whole(includes[p][k].to)
    BY <1>0, <2>3, <2>4, <2>5 DEF AllFollow, Follows
  <2>7. j \in 1..Len(results) /\ j < i
    BY <1>0, <2>3, <2>6
  <2> QED BY <2>1, <2>3, <2>6, <2>7 DEF Earlier
<1> QED BY <1>1, <1>2, <1>3

------------------------------------------------------------------------------
(* What the routes come to, said without an order                             *)

\* The least set of harnesses that the links let run: of a harness that is
\* linked to, every deciding link says so, and comes from the root or from one
\* that may run.
MayRunBy(S) ==
  { h \in Harnesses \ {Root} :
      /\ DOMAIN hookLinks[h] # {}
      /\ \A k \in DecidingLinks(h) :
           hookLinks[h][k].hooks /\ (hookLinks[h][k].parent = Root \/ hookLinks[h][k].parent \in S) }

MayRun == { h \in Harnesses : \A S \in SUBSET Harnesses : MayRunBy(S) \subseteq S => h \in S }

LEMMA MayRunIsLeast ==
  /\ MayRunBy(MayRun) = MayRun
  /\ \A S \in SUBSET Harnesses : MayRunBy(S) \subseteq S => MayRun \subseteq S
<1>1. ASSUME NEW S \in SUBSET Harnesses, MayRunBy(S) \subseteq S PROVE MayRun \subseteq S
  BY <1>1 DEF MayRun
<1>2. ASSUME NEW S \in SUBSET Harnesses, NEW T \in SUBSET Harnesses, S \subseteq T
      PROVE  MayRunBy(S) \subseteq MayRunBy(T)
  BY <1>2 DEF MayRunBy
<1>3. MayRunBy(MayRun) \subseteq MayRun
  <2> SUFFICES ASSUME NEW h \in MayRunBy(MayRun), NEW S \in SUBSET Harnesses, MayRunBy(S) \subseteq S
               PROVE  h \in S
    BY DEF MayRun, MayRunBy
  <2>1. MayRun \subseteq S /\ MayRun \in SUBSET Harnesses
    BY <1>1 DEF MayRun
  <2>2. MayRunBy(MayRun) \subseteq MayRunBy(S)
    BY <1>2, <2>1
  <2> QED BY <2>2 DEF MayRunBy
<1>4. MayRun \subseteq MayRunBy(MayRun)
  <2>1. MayRunBy(MayRun) \in SUBSET Harnesses
    BY DEF MayRunBy
  <2>2. MayRun \in SUBSET Harnesses
    BY DEF MayRun
  <2>3. MayRunBy(MayRunBy(MayRun)) \subseteq MayRunBy(MayRun)
    BY <1>2, <1>3, <2>1, <2>2
  <2> QED BY <1>1, <2>1, <2>3
<1> QED BY <1>1, <1>3, <1>4

\* A set is let run whose deciding links never come all from outside it: the
\* harnesses that vouch for each other are none of them let run.
LEMMA NotOfThemselves ==
  ASSUME NEW C \in SUBSET Harnesses,
         \A h \in C : h # Root /\ \E k \in DecidingLinks(h) :
           hookLinks[h][k].parent # Root /\ hookLinks[h][k].parent \in C
  PROVE  \A h \in C : h \notin MayRun
<1> DEFINE S == MayRun \ C
<1>1. MayRun \in SUBSET Harnesses /\ S \in SUBSET Harnesses
  BY DEF MayRun
<1>2. MayRunBy(S) \subseteq S
  <2> SUFFICES ASSUME NEW h \in MayRunBy(S) PROVE h \in MayRun /\ h \notin C
    OBVIOUS
  <2>1. h \in MayRunBy(MayRun)
    BY DEF MayRunBy
  <2>2. h \in C => FALSE
    BY DEF MayRunBy
  <2> QED BY <2>1, <2>2, MayRunIsLeast
<1>3. MayRun \subseteq S
  BY <1>1, <1>2, MayRunIsLeast
<1> QED BY <1>3

\* Refused and Keepers are least sets too.
Refuses(S) ==
  { h \in Harnesses \ {Root} :
      \E r \in Routes : r[2].to = h /\ Decides(Routes, r) /\ (~r[2].hooks \/ r[1] \in S) }
KeptThrough(S) ==
  { h \in Harnesses : \E r \in Routes : r[2].to = h /\ ~r[2].pick /\ Keeps(r[1], S) }

LEMMA RefusedIsLeast ==
  /\ Refuses(Refused(Routes)) \subseteq Refused(Routes)
  /\ \A S \in SUBSET Harnesses : Refuses(S) \subseteq S => Refused(Routes) \subseteq S
<1> DEFINE R == { h \in Harnesses : \A S \in SUBSET Harnesses : Refuses(S) \subseteq S => h \in S }
<1>1. Refused(Routes) = R
  BY DEF Refused, Least, Refuses
<1>2. ASSUME NEW S \in SUBSET Harnesses, Refuses(S) \subseteq S PROVE R \subseteq S
  BY <1>2
<1>3. Refuses(R) \subseteq R
  <2> SUFFICES ASSUME NEW h \in Refuses(R), NEW S \in SUBSET Harnesses, Refuses(S) \subseteq S
               PROVE  h \in S
    BY DEF Refuses
  <2>1. R \subseteq S
    BY <1>2
  <2>2. h \in Refuses(S)
    BY <2>1 DEF Refuses
  <2> QED BY <2>2
<1> QED BY <1>1, <1>2, <1>3

LEMMA KeepersAreLeast ==
  Keepers(Routes) \in SUBSET Harnesses /\ KeptThrough(Keepers(Routes)) = Keepers(Routes)
<1> DEFINE K == { h \in Harnesses : \A S \in SUBSET Harnesses : KeptThrough(S) \subseteq S => h \in S }
<1>1. Keepers(Routes) = K
  BY DEF Keepers, Least, KeptThrough
<1>2. ASSUME NEW S \in SUBSET Harnesses, NEW T \in SUBSET Harnesses, S \subseteq T
      PROVE  KeptThrough(S) \subseteq KeptThrough(T)
  BY <1>2 DEF KeptThrough, Keeps
<1>3. ASSUME NEW S \in SUBSET Harnesses, KeptThrough(S) \subseteq S PROVE K \subseteq S
  BY <1>3
<1>4. KeptThrough(K) \subseteq K
  <2> SUFFICES ASSUME NEW h \in KeptThrough(K), NEW S \in SUBSET Harnesses, KeptThrough(S) \subseteq S
               PROVE  h \in S
    BY DEF KeptThrough
  <2>1. K \subseteq S /\ K \in SUBSET Harnesses
    BY <1>3
  <2>2. KeptThrough(K) \subseteq KeptThrough(S)
    BY <1>2, <2>1
  <2> QED BY <2>2
<1>5. KeptThrough(K) \in SUBSET Harnesses /\ K \in SUBSET Harnesses
  BY DEF KeptThrough
<1>6. KeptThrough(KeptThrough(K)) \subseteq KeptThrough(K)
  BY <1>2, <1>4, <1>5
<1>7. K \subseteq KeptThrough(K)
  BY <1>3, <1>5, <1>6
<1> QED BY <1>1, <1>4, <1>5, <1>7

\* What is removed from n: every way to it removes.
Lost(n) ==
  /\ DOMAIN parents[n] # {}
  /\ \A k \in DOMAIN parents[n] :
       parents[n][k] # Root /\ (parents[n][k] \in nulls \/ parents[n][k] \notin Keepers(Routes))

\* The answer to a question, and what a route says given the answers.
Answer(q) == IF about = "hooks" THEN q.id \in MayRun ELSE Lost(q)
AnswerFrom(q) == IF q = Whole(Root) THEN about = "hooks" ELSE Answer(q)
Agrees(q, k) == Says(q, k, AnswerFrom(Whole(ParentAt(q, k))))

\* What may be asked about.
Asking(q) == q \in Nodes /\ q.id \in Harnesses /\ q # Whole(Root) /\ (about = "hooks" => ~q.pick)

\* A harness loses the server where nothing on its routes keeps it.
LEMMA LostIs ==
  ASSUME AtRest, NEW r \in Routes, r[1] # Root
  PROVE  Lost(Whole(r[1])) <=> r[1] \notin Keepers(Routes)
<1> DEFINE p == r[1]
<1>1. Whole(p) \in Contributed /\ Whole(p) \in Nodes /\ p \in Harnesses /\ Whole(p).id = p /\ Whole(p).pick = FALSE
  BY ContributedHaveRoutes, RouteTypes DEF Whole
<1>2. DOMAIN parents[Whole(p)] # {}
  <2>1. Len(parents[Whole(p)]) > 0
    BY <1>1, ContributedHaveRoutes
  <2>2. 1 \in DOMAIN parents[Whole(p)]
    BY <1>1, <2>1, RouteTypes
  <2> QED BY <2>2
<1>3. p \in Keepers(Routes) <=> \E q \in Routes : q[2].to = p /\ ~q[2].pick /\ Keeps(q[1], Keepers(Routes))
  BY <1>1, KeepersAreLeast DEF KeptThrough
<1>4. ASSUME NEW q \in Routes, q[2].to = p, ~q[2].pick, Keeps(q[1], Keepers(Routes))
      PROVE  ~Lost(Whole(p))
  <2>0. q[1] \in Harnesses /\ q[2].pick = FALSE
    BY <1>4, RouteTypes
  <2>5. \E o \in Routes : o[1] = q[1] /\ o[2].to = Whole(p).id /\ o[2].pick = Whole(p).pick
    BY <1>1, <1>4, <2>0
  <2>6. Whole(p).id \in Harnesses
    BY <1>1
  <2>1. ParentIs(Whole(p), q[1])
    BY <1>1, <2>0, <2>5, <2>6, ParentsAreRoutes
  <2>2. PICK k \in 1..Len(parents[Whole(p)]) : parents[Whole(p)][k] = q[1]
    BY <2>1 DEF ParentIs
  <2>3. k \in DOMAIN parents[Whole(p)]
    BY <1>1, <2>2, RouteTypes
  <2> QED BY <1>4, <2>2, <2>3 DEF Lost, Keeps
<1>5. ASSUME ~Lost(Whole(p))
      PROVE  \E q \in Routes : q[2].to = p /\ ~q[2].pick /\ Keeps(q[1], Keepers(Routes))
  <2>1. PICK k \in DOMAIN parents[Whole(p)] :
          parents[Whole(p)][k] = Root \/ (parents[Whole(p)][k] \notin nulls /\ parents[Whole(p)][k] \in Keepers(Routes))
    BY <1>2, <1>5 DEF Lost
  <2>2. Keeps(parents[Whole(p)][k], Keepers(Routes))
    BY <2>1 DEF Keeps
  <2>3. parents[Whole(p)][k] \in Harnesses /\ ParentIs(Whole(p), parents[Whole(p)][k])
    BY <1>1, RouteTypes
  <2>4. PICK q \in Routes : q[1] = parents[Whole(p)][k] /\ q[2].to = p /\ q[2].pick = FALSE
    BY <1>1, <2>3, ParentsAreRoutes
  <2> QED BY <2>2, <2>4
<1> QED BY <1>3, <1>4, <1>5

LEMMA WaysAre ==
  ASSUME AtRest, NEW q, Asking(q)
  PROVE  /\ Ways(q) \in SUBSET Nat
         /\ \A k \in Ways(q) : /\ ParentAt(q, k) \in Harnesses /\ Whole(ParentAt(q, k)) \in Nodes
                               /\ about = "hooks" => k \in DOMAIN hookLinks[q.id] /\ hookLinks[q.id][k].hooks \in BOOLEAN
                               /\ about # "hooks" => k \in DOMAIN parents[q]
                               /\ Whole(ParentAt(q, k)) # Whole(Root) => Asking(Whole(ParentAt(q, k)))
<1>1. q \in Nodes /\ q.id \in Harnesses
  BY DEF Asking
<1>2. \A h \in Harnesses : Whole(h) \in Nodes /\ Whole(h).id = h /\ ~Whole(h).pick
  BY NodeTypes DEF Whole, Targets
<1>3. ASSUME about = "hooks", NEW k \in Ways(q)
      PROVE  k \in DOMAIN hookLinks[q.id] /\ ParentAt(q, k) = hookLinks[q.id][k].parent
  BY <1>3 DEF Ways, ParentAt, DecidingLinks
<1>4. ASSUME about # "hooks", NEW k \in Ways(q)
      PROVE  k \in DOMAIN parents[q] /\ ParentAt(q, k) = parents[q][k]
  BY <1>4 DEF Ways, ParentAt
<1>5. ASSUME NEW k \in Ways(q)
      PROVE  ParentAt(q, k) \in Harnesses /\ k \in Nat
  BY <1>1, <1>3, <1>4, RouteTypes
<1> QED BY <1>1, <1>2, <1>3, <1>4, <1>5, RouteTypes DEF Asking

\* The answer is what all the routes that decide agree on.
LEMMA AnswerIs ==
  ASSUME AtRest, NEW q, Asking(q)
  PROVE  Answer(q) <=> Ways(q) # {} /\ \A k \in Ways(q) : Agrees(q, k)
<1>1. q \in Nodes /\ q.id \in Harnesses /\ q # Whole(Root)
  BY DEF Asking
<1>2. CASE about = "hooks"
  <2>1. ~q.pick /\ q = Whole(q.id) /\ q.id # Root
    <3>1. q = [id |-> q.id, pick |-> q.pick] /\ q.pick \in BOOLEAN
      BY <1>1 DEF Nodes
    <3> QED BY <1>1, <1>2, <3>1 DEF Asking, Whole
  <2>2. Ways(q) = DecidingLinks(q.id) /\ (Ways(q) # {} <=> DOMAIN hookLinks[q.id] # {})
    BY <1>2 DEF Ways, DecidingLinks
  <2>3. ASSUME NEW k \in DecidingLinks(q.id)
        PROVE  Agrees(q, k) <=> hookLinks[q.id][k].hooks
                                  /\ (hookLinks[q.id][k].parent = Root \/ hookLinks[q.id][k].parent \in MayRun)
    <3>1. ParentAt(q, k) = hookLinks[q.id][k].parent
      BY <1>2 DEF ParentAt
    <3>2. AnswerFrom(Whole(hookLinks[q.id][k].parent))
            <=> hookLinks[q.id][k].parent = Root \/ hookLinks[q.id][k].parent \in MayRun
      BY <1>2 DEF AnswerFrom, Answer, Whole
    <3> QED BY <1>2, <3>1, <3>2 DEF Agrees, Says
  <2>4. q.id \in MayRun <=> q.id \in MayRunBy(MayRun)
    BY MayRunIsLeast
  <2>5. q.id \in MayRunBy(MayRun) <=> DOMAIN hookLinks[q.id] # {} /\ \A k \in DecidingLinks(q.id) : Agrees(q, k)
    BY <1>1, <2>1, <2>3 DEF MayRunBy
  <2> QED BY <1>2, <2>2, <2>4, <2>5 DEF Answer
<1>3. CASE about # "hooks"
  <2>1. Ways(q) = DOMAIN parents[q]
    BY <1>3 DEF Ways
  <2>2. ASSUME NEW k \in DOMAIN parents[q]
        PROVE  Agrees(q, k) <=> parents[q][k] # Root
                                  /\ (parents[q][k] \in nulls \/ parents[q][k] \notin Keepers(Routes))
    <3>1. ParentAt(q, k) = parents[q][k] /\ parents[q][k] \in Harnesses /\ ParentIs(q, parents[q][k])
      BY <1>1, <1>3, RouteTypes DEF ParentAt
    <3>2. PICK r \in Routes : r[1] = parents[q][k]
      BY <1>1, <3>1, ParentsAreRoutes
    <3>3. AnswerFrom(Whole(parents[q][k]))
            <=> parents[q][k] # Root /\ parents[q][k] \notin Keepers(Routes)
      <4>1. Whole(parents[q][k]) = Whole(Root) <=> parents[q][k] = Root
        BY DEF Whole
      <4> QED BY <1>3, <3>2, <4>1, LostIs DEF AnswerFrom, Answer
    <3> QED BY <1>3, <3>1, <3>3 DEF Agrees, Says
  <2> QED BY <1>3, <2>1, <2>2 DEF Answer, Lost
<1> QED BY <1>2, <1>3

------------------------------------------------------------------------------
(* What is asked, and what the memo holds                                     *)

Callings == [of : Nodes, left : SUBSET Nat, common : BOOLEAN]

AnswerTypes ==
  /\ about \in {"servers", "hooks", "done"} /\ item \in Nat \ {0}
  /\ calls \in Seq(Callings) /\ asked \subseteq Nodes /\ granted \subseteq asked

\* What the memo holds of a question that no call is about is the answer.
MemoRight ==
  \A q \in asked :
    /\ Asking(q)
    /\ (\A i \in 1..Len(calls) : calls[i].of # q) => (q \in granted <=> Answer(q))

\* A call has heard what the routes it has been through come to, and until it
\* returns the memo says no.
CallRight(c) ==
  /\ c.of \in asked /\ c.of \notin granted /\ c.left \subseteq Ways(c.of)
  /\ c.common <=> Ways(c.of) # {} /\ \A k \in Ways(c.of) \ c.left : Agrees(c.of, k)

CallsRight == \A i \in 1..Len(calls) : CallRight(calls[i])

CallsDiffer == \A i, j \in 1..Len(calls) : calls[i].of = calls[j].of => i = j

\* A call asks on behalf of the one before it; asked about servers, of a
\* harness that is contributed later.
CallsClimb ==
  /\ \A i \in 1..Len(calls) : i < Len(calls) =>
       \E k \in calls[i].left : calls[i + 1].of = Whole(ParentAt(calls[i].of, k))
  /\ about = "servers" => \A i, j \in 1..Len(calls) : i < j =>
       ~calls[j].of.pick /\ (~calls[i].of.pick => Earlier(calls[i].of, calls[j].of))

\* What has been applied so far.
Applied ==
  /\ \A n : n \in removed <=> \E i \in 1..Len(results) :
       (about = "servers" => i < item) /\ results[i] = n /\ n.id \in Harnesses /\ Lost(n)
  /\ \A h : h \in active <=> about # "servers" /\ \E i \in 1..Len(results) :
       (about = "hooks" => i < item) /\ results[i].id = h /\ h \in Harnesses /\ (h = Root \/ h \in MayRun)

AnswerPart == AnswerTypes /\ MemoRight /\ CallsRight /\ CallsDiffer /\ CallsClimb /\ Applied

\* Nothing is asked before the graph is resolved.
Quiet ==
  /\ about = "servers" /\ item = 1 /\ calls = <<>> /\ asked = {} /\ granted = {}
  /\ active = {} /\ removed = {}

LEMMA QuietIsRight ==
  ASSUME Quiet PROVE AnswerPart
<1>1. Len(calls) = 0 /\ \A i \in 1..Len(calls) : FALSE
  BY DEF Quiet
<1>2. AnswerTypes
  BY DEF Quiet, AnswerTypes
<1>3. MemoRight /\ CallsRight /\ CallsDiffer /\ CallsClimb
  BY <1>1 DEF Quiet, MemoRight, CallsRight, CallsDiffer, CallsClimb
<1>4. Applied
  BY DEF Quiet, Applied
<1> QED BY <1>2, <1>3, <1>4 DEF AnswerPart

LEMMA QuietStays ==
  ASSUME Quiet, UNCHANGED <<answering, active, removed>> PROVE Quiet' /\ AnswerPart'
<1>1. Quiet'
  BY DEF Quiet, answering
<1>2. Len(calls') = 0 /\ \A i \in 1..Len(calls') : FALSE
  BY <1>1 DEF Quiet
<1>3. AnswerTypes'
  BY <1>1 DEF Quiet, AnswerTypes
<1>4. MemoRight' /\ CallsRight' /\ CallsDiffer' /\ CallsClimb'
  BY <1>1, <1>2 DEF Quiet, MemoRight, CallsRight, CallsDiffer, CallsClimb
<1>5. Applied'
  BY <1>1 DEF Quiet, Applied
<1> QED BY <1>1, <1>3, <1>4, <1>5 DEF AnswerPart

LEMMA SameRoutes ==
  ASSUME UNCHANGED <<vars, nulls>>
  PROVE  /\ Routes' = Routes /\ MayRun' = MayRun /\ results' = results /\ status' = status
         /\ \A n : Lost(n)' <=> Lost(n)
         /\ \A n, m : Earlier(n, m)' <=> Earlier(n, m)
<1>1. UNCHANGED <<includes, notes, parents, hookLinks, results, status, nulls>>
  BY DEF vars, graph, found
<1>2. \A q, h : Reaches(q, h)' <=> Reaches(q, h)
  BY <1>1, SameGraphAll
<1>3. Routes' = Routes
  BY <1>1, <1>2 DEF Routes
<1>4. MayRun' = MayRun
  BY <1>1 DEF MayRun, MayRunBy, DecidingLinks
<1>5. Keepers(Routes)' = Keepers(Routes)
  <2>1. \A p, S : Keeps(p, S)' <=> Keeps(p, S)
    BY <1>1 DEF Keeps
  <2>2. Keepers(Routes)' = { h \in Harnesses : \A S \in SUBSET Harnesses :
            { g \in Harnesses : \E r \in Routes' : r[2].to = g /\ ~r[2].pick /\ Keeps(r[1], S)' } \subseteq S => h \in S }
    BY DEF Keepers, Least
  <2>3. Keepers(Routes) = { h \in Harnesses : \A S \in SUBSET Harnesses :
            { g \in Harnesses : \E r \in Routes : r[2].to = g /\ ~r[2].pick /\ Keeps(r[1], S) } \subseteq S => h \in S }
    BY DEF Keepers, Least
  <2> QED BY <1>3, <2>1, <2>2, <2>3
<1>6. \A n : Lost(n)' <=> Lost(n)
  BY <1>1, <1>5 DEF Lost
<1>7. \A n, m : Earlier(n, m)' <=> Earlier(n, m)
  BY <1>1 DEF Earlier
<1> QED BY <1>1, <1>3, <1>4, <1>6, <1>7

LEMMA SameAnswers ==
  ASSUME UNCHANGED <<vars, nulls, about>>
  PROVE  /\ \A q : Answer(q)' <=> Answer(q)
         /\ \A q : Ways(q)' = Ways(q)
         /\ \A q : Asking(q)' <=> Asking(q)
         /\ \A q, k : ParentAt(q, k)' = ParentAt(q, k)
         /\ \A q, k : Agrees(q, k)' <=> Agrees(q, k)
<1>1. UNCHANGED <<parents, hookLinks, nulls, about>>
  BY DEF vars, found
<1>2. \A q : Answer(q)' <=> Answer(q)
  BY <1>1, SameRoutes DEF Answer
<1>3. \A q : Ways(q)' = Ways(q)
  BY <1>1 DEF Ways, DecidingLinks
<1>4. \A q, k : ParentAt(q, k)' = ParentAt(q, k)
  BY <1>1 DEF ParentAt
<1>5. \A q : AnswerFrom(q)' <=> AnswerFrom(q)
  BY <1>1, <1>2 DEF AnswerFrom, Whole
<1>6. \A q, k : Agrees(q, k)' <=> Agrees(q, k)
  BY <1>1, <1>4, <1>5 DEF Agrees, Says, Whole
<1>7. \A q : Asking(q)' <=> Asking(q)
  BY <1>1 DEF Asking, Whole
<1> QED BY <1>2, <1>3, <1>4, <1>6, <1>7

\* The call under way.
LEMMA CurrentIs ==
  ASSUME AnswerTypes, calls # <<>>
  PROVE  /\ Len(calls) \in Nat /\ Len(calls) > 0 /\ Len(calls) \in 1..Len(calls)
         /\ Current = calls[Len(calls)] /\ Current \in Callings
         /\ Current.of \in Nodes /\ Current.left \in SUBSET Nat /\ Current.common \in BOOLEAN
<1>1. calls \in Seq(Callings)
  BY DEF AnswerTypes
<1>2. Len(calls) \in Nat /\ Len(calls) > 0 /\ Len(calls) \in 1..Len(calls)
  BY <1>1
<1>3. calls[Len(calls)] \in Callings
  BY <1>1, <1>2
<1> QED BY <1>2, <1>3 DEF Current, Callings

LEMMA WayIs ==
  ASSUME AtRest, AnswerPart, calls # <<>>
  PROVE  /\ Asking(Current.of) /\ CallRight(Current)
         /\ Current.left # {} => Way \in Current.left
         /\ \A k \in Current.left : k \in Ways(Current.of)
         /\ From = Whole(ParentAt(Current.of, Way))
<1>1. Current = calls[Len(calls)] /\ Len(calls) \in 1..Len(calls) /\ Current.left \in SUBSET Nat
  BY CurrentIs DEF AnswerPart
<1>2. CallRight(Current)
  BY <1>1 DEF AnswerPart, CallsRight
<1>3. Asking(Current.of)
  BY <1>2 DEF AnswerPart, MemoRight, CallRight
<1>4. Current.left # {} => Way \in Current.left
  <2> SUFFICES ASSUME Current.left # {} PROVE Way \in Current.left
    OBVIOUS
  <2>1. \E k \in Current.left : \A j \in Current.left : k <= j
    BY <1>1, Smallest
  <2> QED BY <2>1 DEF Way
<1> QED BY <1>2, <1>3, <1>4 DEF CallRight, From

\* Asked about servers, the harness a route comes from is contributed later
\* than all that are being asked about: it is none of them.
LEMMA ClimbOn ==
  ASSUME AtRest, AnswerPart, calls # <<>>, about = "servers", NEW k \in Current.left,
         NEW q, q = Whole(ParentAt(Current.of, k)), q # Whole(Root)
  PROVE  ~q.pick /\ \A i \in 1..Len(calls) : ~calls[i].of.pick => Earlier(calls[i].of, q)
<1>1. /\ Len(calls) \in Nat /\ Len(calls) \in 1..Len(calls) /\ Current = calls[Len(calls)]
      /\ \A i \in 1..Len(calls) : i = Len(calls) \/ i < Len(calls)
  BY CurrentIs DEF AnswerPart
<1>2. Asking(Current.of) /\ k \in Ways(Current.of)
  BY WayIs
<1>3. q \in Nodes /\ Asking(q) /\ k \in DOMAIN parents[Current.of] /\ ~q.pick
  BY <1>2, WaysAre DEF Whole
<1>4. Current.of \in Nodes /\ Current.of.id \in Harnesses
  BY <1>2 DEF Asking
<1>5. ParentAt(Current.of, k) = parents[Current.of][k] /\ parents[Current.of][k] \in Harnesses
      /\ ParentIs(Current.of, parents[Current.of][k])
  BY <1>3, <1>4, RouteTypes DEF ParentAt
<1>6. ~Current.of.pick => Earlier(Current.of, q)
  <2> SUFFICES ASSUME ~Current.of.pick PROVE Earlier(Current.of, q)
    OBVIOUS
  <2>1. PICK r \in Routes : r[1] = parents[Current.of][k] /\ r[2].to = Current.of.id /\ r[2].pick = Current.of.pick
    BY <1>4, <1>5, ParentsAreRoutes
  <2>2. q = Whole(r[1]) /\ r[1] # Root
    BY <1>5, <2>1
  <2>3. Current.of = Whole(r[2].to)
    BY <1>4, <2>1 DEF Nodes, Whole
  <2> QED BY <1>4, <2>1, <2>2, <2>3, EarlierIs
<1>7. ASSUME NEW i \in 1..Len(calls), i < Len(calls), ~calls[i].of.pick
      PROVE  Earlier(calls[i].of, q)
  <2>1. ~Current.of.pick /\ Earlier(calls[i].of, Current.of)
    BY <1>1, <1>7 DEF AnswerPart, CallsClimb
  <2>2. calls[i].of \in Nodes
    BY DEF AnswerPart, CallsRight, CallRight, AnswerTypes
  <2> QED BY <1>3, <1>4, <1>6, <2>1, <2>2, EarlierIs
<1> QED BY <1>1, <1>3, <1>6, <1>7

\* What the memo says of where a route comes from is right, also where it is
\* being asked about: then the harnesses asked about vouch for each other.
LEMMA MemoAnswers ==
  ASSUME AtRest, AnswerPart, calls # <<>>, about # "done", NEW k \in Current.left,
         NEW q, q = Whole(ParentAt(Current.of, k)), Known(q)
  PROVE  Granted(q) <=> AnswerFrom(q)
<1>1. CASE q = Whole(Root)
  BY <1>1 DEF Granted, AnswerFrom
<1>2. CASE q # Whole(Root) /\ \A i \in 1..Len(calls) : calls[i].of # q
  BY <1>2 DEF Known, Granted, AnswerFrom, AnswerPart, MemoRight
<1>3. ASSUME q # Whole(Root), NEW j \in 1..Len(calls), calls[j].of = q
      PROVE  ~Granted(q) /\ ~AnswerFrom(q)
  <2>1. q \in asked /\ q \notin granted /\ Asking(q) /\ q \in Nodes /\ q.id \in Harnesses
    BY <1>3 DEF AnswerPart, CallsRight, CallRight, MemoRight, Asking
  <2>2. CASE about = "servers"
    <3>1. Earlier(q, q)
      BY <1>3, <2>2, ClimbOn
    <3> QED BY <2>1, <3>1, EarlierIs
  <2>3. CASE about = "hooks"
    <3> DEFINE C == { calls[i].of.id : i \in j..Len(calls) }
    <3>1. /\ Len(calls) \in Nat /\ j \in Nat /\ j > 0 /\ Current = calls[Len(calls)]
          /\ \A i \in j..Len(calls) : i \in 1..Len(calls) /\ (i = Len(calls) \/ (i < Len(calls) /\ i + 1 \in j..Len(calls)))
      BY CurrentIs DEF AnswerPart
    <3>2. ASSUME NEW i \in 1..Len(calls)
          PROVE  Asking(calls[i].of) /\ calls[i].of = Whole(calls[i].of.id) /\ calls[i].of.id \in Harnesses
                 /\ calls[i].of.id # Root /\ calls[i].left \subseteq Ways(calls[i].of)
      <4>1. Asking(calls[i].of) /\ calls[i].left \subseteq Ways(calls[i].of)
        BY DEF AnswerPart, CallsRight, CallRight, MemoRight
      <4>2. calls[i].of \in Nodes /\ ~calls[i].of.pick /\ calls[i].of.id \in Harnesses /\ calls[i].of # Whole(Root)
        BY <2>3, <4>1 DEF Asking
      <4>3. calls[i].of = [id |-> calls[i].of.id, pick |-> FALSE]
        BY <4>2 DEF Nodes
      <4> QED BY <4>1, <4>2, <4>3 DEF Whole
    <3>3. ASSUME NEW i \in j..Len(calls)
          PROVE  \E l \in DecidingLinks(calls[i].of.id) :
                   /\ hookLinks[calls[i].of.id][l].parent # Root
                   /\ hookLinks[calls[i].of.id][l].parent \in C
      <4>1. PICK l \in calls[i].left : \E m \in j..Len(calls) : Whole(ParentAt(calls[i].of, l)) = calls[m].of
        <5>1. CASE i = Len(calls)
          BY <1>3, <3>1, <5>1
        <5>2. CASE i < Len(calls)
          BY <3>1, <5>2 DEF AnswerPart, CallsClimb
        <5> QED BY <3>1, <5>1, <5>2
      <4>2. PICK m \in j..Len(calls) : Whole(ParentAt(calls[i].of, l)) = calls[m].of
        BY <4>1
      <4>3. /\ l \in DecidingLinks(calls[i].of.id)
            /\ ParentAt(calls[i].of, l) = hookLinks[calls[i].of.id][l].parent
        BY <2>3, <3>1, <3>2 DEF Ways, ParentAt
      <4>4. calls[m].of.id # Root /\ calls[m].of.id = ParentAt(calls[i].of, l)
        BY <3>1, <3>2, <4>2 DEF Whole
      <4> QED BY <4>3, <4>4
    <3>4. C \in SUBSET Harnesses /\ \A h \in C : h # Root /\ \E l \in DecidingLinks(h) :
            hookLinks[h][l].parent # Root /\ hookLinks[h][l].parent \in C
      BY <3>1, <3>2, <3>3
    <3>5. q.id \in C
      BY <1>3, <3>1
    <3> HIDE DEF C
    <3>6. q.id \notin MayRun
      BY <3>4, <3>5, NotOfThemselves
    <3> QED BY <1>3, <2>1, <2>3, <3>6 DEF Granted, AnswerFrom, Answer
  <2> QED BY <2>2, <2>3 DEF AnswerPart, AnswerTypes
<1> QED BY <1>1, <1>2, <1>3

------------------------------------------------------------------------------
(* What every step keeps                                                      *)

LEMMA AppliedOn ==
  ASSUME AnswerPart, UNCHANGED <<vars, nulls, about, item, active, removed>>
  PROVE  Applied'
<1>1. /\ results' = results /\ MayRun' = MayRun /\ (\A n : Lost(n)' <=> Lost(n))
  BY SameRoutes
<1>2. /\ (\A n : n \in removed <=> \E i \in 1..Len(results) :
            (about = "servers" => i < item) /\ results[i] = n /\ n.id \in Harnesses /\ Lost(n))
      /\ (\A h : h \in active <=> about # "servers" /\ \E i \in 1..Len(results) :
            (about = "hooks" => i < item) /\ results[i].id = h /\ h \in Harnesses /\ (h = Root \/ h \in MayRun))
  BY DEF AnswerPart, Applied
<1> QED BY <1>1, <1>2 DEF Applied

LEMMA AskKeeps ==
  ASSUME AtRest, AnswerPart, NEW q, Asking(q), Ask(q),
         calls # <<>> => \E k \in Current.left : q = Whole(ParentAt(Current.of, k))
  PROVE  AnswerPart'
<1>1. /\ ~Known(q) /\ calls' = Append(calls, Call(q)) /\ asked' = asked \union {q}
      /\ UNCHANGED <<vars, nulls, about, item, granted, active, removed>>
  BY DEF Ask
<1>2. q \in Nodes /\ q \notin asked /\ q # Whole(Root) /\ Ways(q) \in SUBSET Nat
  BY <1>1, WaysAre DEF Known, Asking
<1>3. Call(q) \in Callings /\ Call(q).of = q /\ Call(q).left = Ways(q) /\ (Call(q).common <=> Ways(q) # {})
  BY <1>2 DEF Call, Callings
<1>4. AnswerTypes
  BY DEF AnswerPart
<1>5. /\ Len(calls) \in Nat /\ Len(calls') = Len(calls) + 1 /\ calls' \in Seq(Callings)
      /\ \A i \in 1..Len(calls) : calls'[i] = calls[i]
      /\ calls'[Len(calls) + 1] = Call(q)
  BY <1>1, <1>3, <1>4, Appended DEF AnswerTypes
<1>6. /\ \A i \in 1..Len(calls') : i \in 1..Len(calls) \/ i = Len(calls) + 1
      /\ \A i \in 1..Len(calls) : i \in 1..Len(calls')
      /\ Len(calls) + 1 \in 1..Len(calls')
  BY <1>5
<1>7. /\ \A p : Answer(p)' <=> Answer(p)
      /\ \A p : Ways(p)' = Ways(p)
      /\ \A p : Asking(p)' <=> Asking(p)
      /\ \A p, k : ParentAt(p, k)' = ParentAt(p, k)
      /\ \A p, k : Agrees(p, k)' <=> Agrees(p, k)
  BY <1>1, SameAnswers
<1>8. AnswerTypes'
  BY <1>1, <1>2, <1>4, <1>5 DEF AnswerTypes
<1>9. MemoRight'
  <2> SUFFICES ASSUME NEW p \in asked'
               PROVE  /\ Asking(p)
                      /\ (\A i \in 1..Len(calls') : calls'[i].of # p) => (p \in granted <=> Answer(p))
    BY <1>1, <1>7 DEF MemoRight
  <2>1. CASE p = q
    BY <1>3, <1>5, <1>6, <2>1
  <2>2. CASE p # q
    <3>1. p \in asked
      BY <1>1, <2>2
    <3>2. Asking(p) /\ ((\A i \in 1..Len(calls) : calls[i].of # p) => (p \in granted <=> Answer(p)))
      BY <3>1 DEF AnswerPart, MemoRight
    <3>3. (\A i \in 1..Len(calls') : calls'[i].of # p) => (\A i \in 1..Len(calls) : calls[i].of # p)
      BY <1>5, <1>6
    <3> QED BY <3>2, <3>3
  <2> QED BY <2>1, <2>2
<1>10. CallsRight'
  <2>0. SUFFICES ASSUME NEW i \in 1..Len(calls')
        PROVE  /\ calls'[i].of \in asked' /\ calls'[i].of \notin granted' /\ calls'[i].left \subseteq Ways(calls'[i].of)
               /\ calls'[i].common <=> Ways(calls'[i].of) # {}
                    /\ \A k \in Ways(calls'[i].of) \ calls'[i].left : Agrees(calls'[i].of, k)
    BY <1>7 DEF CallsRight, CallRight
  <2>1. CASE i \in 1..Len(calls)
    <3>1. CallRight(calls[i])
      BY <2>1 DEF AnswerPart, CallsRight
    <3> QED BY <1>1, <1>2, <1>5, <2>1, <3>1 DEF CallRight
  <2>2. CASE i = Len(calls) + 1
    <3>1. q \notin granted
      BY <1>2, <1>4 DEF AnswerTypes
    <3> QED BY <1>1, <1>3, <1>5, <2>2, <3>1
  <2> QED BY <1>6, <2>1, <2>2
<1>11. CallsDiffer'
  <2>1. \A i \in 1..Len(calls) : calls[i].of # q
    BY <1>2 DEF AnswerPart, CallsRight, CallRight
  <2>2. \A i, j \in 1..Len(calls) : calls[i].of = calls[j].of => i = j
    BY DEF AnswerPart, CallsDiffer
  <2> QED BY <1>3, <1>5, <1>6, <2>1, <2>2 DEF CallsDiffer
<1>12. \A i \in 1..Len(calls') : i < Len(calls') =>
         \E k \in calls'[i].left : calls'[i + 1].of = Whole(ParentAt(calls'[i].of, k))
  <2> SUFFICES ASSUME NEW i \in 1..Len(calls'), i < Len(calls')
               PROVE  \E k \in calls'[i].left : calls'[i + 1].of = Whole(ParentAt(calls'[i].of, k))
    OBVIOUS
  <2>1. i \in 1..Len(calls) /\ (i = Len(calls) \/ (i < Len(calls) /\ i + 1 \in 1..Len(calls)))
    BY <1>5
  <2>2. CASE i = Len(calls)
    <3>1. calls # <<>>
      BY <2>1
    <3>2. Current = calls[i]
      BY <2>2 DEF Current
    <3> QED BY <1>3, <1>5, <2>1, <2>2, <3>1, <3>2
  <2>3. CASE i < Len(calls)
    BY <1>5, <2>1, <2>3 DEF AnswerPart, CallsClimb
  <2> QED BY <2>1, <2>2, <2>3
<1>13. about = "servers" => \A i, j \in 1..Len(calls') : i < j =>
         ~calls'[j].of.pick /\ (~calls'[i].of.pick => Earlier(calls'[i].of, calls'[j].of))
  <2> SUFFICES ASSUME about = "servers", NEW i \in 1..Len(calls'), NEW j \in 1..Len(calls'), i < j
               PROVE  ~calls'[j].of.pick /\ (~calls'[i].of.pick => Earlier(calls'[i].of, calls'[j].of))
    OBVIOUS
  <2>1. i \in 1..Len(calls) /\ (j \in 1..Len(calls) \/ j = Len(calls) + 1)
    BY <1>5
  <2>2. CASE j \in 1..Len(calls)
    BY <1>5, <2>1, <2>2 DEF AnswerPart, CallsClimb
  <2>3. CASE j = Len(calls) + 1
    <3>1. calls # <<>>
      BY <2>1
    <3>2. ~q.pick /\ \A m \in 1..Len(calls) : ~calls[m].of.pick => Earlier(calls[m].of, q)
      BY <1>2, <3>1, ClimbOn
    <3> QED BY <1>3, <1>5, <2>1, <2>3, <3>2
  <2> QED BY <2>1, <2>2, <2>3
<1>14. CallsClimb'
  <2>1. \A n, m : Earlier(n, m)' <=> Earlier(n, m)
    BY <1>1, SameRoutes
  <2> QED BY <1>1, <1>7, <1>12, <1>13, <2>1 DEF CallsClimb, Whole
<1> QED BY <1>1, <1>8, <1>9, <1>10, <1>11, <1>14, AppliedOn DEF AnswerPart

LEMMA HearKeeps ==
  ASSUME AtRest, AnswerPart, Hear
  PROVE  AnswerPart'
<1> DEFINE top == Len(calls)
           said == Narrow(Current.common, Says(Current.of, Way, Granted(From)))
           next == [Current EXCEPT !.left = @ \ {Way}, !.common = said]
<1>1. /\ calls # <<>> /\ about # "done" /\ ~Decided /\ (Withheld \/ Known(From))
      /\ calls' = [calls EXCEPT ![top] = next]
      /\ UNCHANGED <<vars, nulls, about, item, asked, granted, active, removed>>
  BY DEF Hear, Heard, Calling
<1>2. /\ top \in Nat /\ top > 0 /\ top \in 1..top /\ Current = calls[top] /\ Current \in Callings
      /\ calls \in Seq(Callings) /\ Current.left \in SUBSET Nat /\ Current.common \in BOOLEAN
  BY <1>1, CurrentIs DEF AnswerPart, AnswerTypes
<1>3. /\ Way \in Current.left /\ Way \in Ways(Current.of) /\ Asking(Current.of) /\ CallRight(Current)
      /\ From = Whole(ParentAt(Current.of, Way))
  BY <1>1, WayIs DEF Decided
<1>4. Says(Current.of, Way, Granted(From)) <=> Agrees(Current.of, Way)
  <2>1. CASE Withheld
    BY <2>1 DEF Withheld, Says, Agrees
  <2>2. CASE Known(From)
    <3>1. Granted(From) <=> AnswerFrom(From)
      BY <1>1, <1>3, <2>2, MemoAnswers
    <3> QED BY <1>3, <3>1 DEF Agrees, Says
  <2> QED BY <1>1, <2>1, <2>2
<1>5. said \in BOOLEAN /\ (said <=> Current.common /\ Agrees(Current.of, Way))
  <2>1. said \in BOOLEAN
    BY <1>2 DEF Narrow
  <2>2. said <=> Current.common /\ Says(Current.of, Way, Granted(From))
    BY DEF Narrow
  <2> QED BY <1>4, <2>1, <2>2
<1> HIDE DEF said
<1>6. /\ next \in Callings /\ next.of = Current.of /\ next.left = Current.left \ {Way}
      /\ next.common = said
  BY <1>2, <1>5 DEF Callings
<1> HIDE DEF next
<1>7. /\ calls' \in Seq(Callings) /\ Len(calls') = top /\ calls'[top] = next
      /\ \A i \in 1..top : i # top => calls'[i] = calls[i]
      /\ \A i \in 1..top : calls'[i].of = calls[i].of
  <2>1. calls' \in Seq(Callings) /\ Len(calls') = top /\ calls'[top] = next
        /\ \A i \in 1..top : i # top => calls'[i] = calls[i]
    BY <1>1, <1>2, <1>6
  <2> QED BY <1>2, <1>6, <2>1
<1>8. /\ \A p : Answer(p)' <=> Answer(p)
      /\ \A p : Ways(p)' = Ways(p)
      /\ \A p : Asking(p)' <=> Asking(p)
      /\ \A p, k : ParentAt(p, k)' = ParentAt(p, k)
      /\ \A p, k : Agrees(p, k)' <=> Agrees(p, k)
      /\ \A n, m : Earlier(n, m)' <=> Earlier(n, m)
  BY <1>1, SameAnswers, SameRoutes
<1>9. AnswerTypes'
  BY <1>1, <1>7 DEF AnswerPart, AnswerTypes
<1>10. MemoRight'
  BY <1>1, <1>7, <1>8 DEF AnswerPart, MemoRight
<1>11. CallsRight'
  <2>0. SUFFICES ASSUME NEW i \in 1..top
        PROVE  /\ calls'[i].of \in asked' /\ calls'[i].of \notin granted' /\ calls'[i].left \subseteq Ways(calls'[i].of)
               /\ calls'[i].common <=> Ways(calls'[i].of) # {}
                    /\ \A k \in Ways(calls'[i].of) \ calls'[i].left : Agrees(calls'[i].of, k)
    BY <1>7, <1>8 DEF CallsRight, CallRight
  <2>1. CASE i # top
    <3>1. CallRight(calls[i])
      BY DEF AnswerPart, CallsRight
    <3>2. calls'[i] = calls[i] /\ asked' = asked /\ granted' = granted
      BY <1>1, <1>7, <2>1
    <3> QED BY <3>1, <3>2 DEF CallRight
  <2>2. CASE i = top
    <3>1. /\ Current.of \in asked /\ Current.of \notin granted /\ Current.left \subseteq Ways(Current.of)
          /\ Current.common <=> Ways(Current.of) # {} /\ \A k \in Ways(Current.of) \ Current.left : Agrees(Current.of, k)
      BY <1>3 DEF CallRight
    <3>2. next.common <=> Ways(Current.of) # {} /\ \A k \in Ways(Current.of) \ next.left : Agrees(Current.of, k)
      BY <1>3, <1>5, <1>6, <3>1
    <3>3. calls'[i] = next /\ asked' = asked /\ granted' = granted
      BY <1>1, <1>7, <2>2
    <3> QED BY <1>6, <3>1, <3>2, <3>3
  <2> QED BY <2>1, <2>2
<1>12. CallsDiffer'
  BY <1>7 DEF AnswerPart, CallsDiffer
<1>13. CallsClimb'
  <2>1. ASSUME NEW i \in 1..top, i < top
        PROVE  \E k \in calls'[i].left : calls'[i + 1].of = Whole(ParentAt(calls'[i].of, k))
    <3>1. i + 1 \in 1..top /\ i # top
      BY <1>2, <2>1
    <3>2. PICK k \in calls[i].left : calls[i + 1].of = Whole(ParentAt(calls[i].of, k))
      BY <2>1 DEF AnswerPart, CallsClimb
    <3> QED BY <1>7, <3>1, <3>2
  <2>2. about = "servers" => \A i, j \in 1..top : i < j =>
         ~calls'[j].of.pick /\ (~calls'[i].of.pick => Earlier(calls'[i].of, calls'[j].of))
    BY <1>7 DEF AnswerPart, CallsClimb
  <2> QED BY <1>1, <1>7, <1>8, <2>1, <2>2 DEF CallsClimb, Whole
<1> QED BY <1>1, <1>9, <1>10, <1>11, <1>12, <1>13, AppliedOn DEF AnswerPart

LEMMA ReplyKeeps ==
  ASSUME AtRest, AnswerPart, Reply
  PROVE  AnswerPart'
<1> DEFINE top == Len(calls)
<1>1. /\ calls # <<>> /\ about # "done" /\ Decided
      /\ granted' = granted \union (IF Current.common THEN {Current.of} ELSE {})
      /\ calls' = SubSeq(calls, 1, top - 1)
      /\ UNCHANGED <<vars, nulls, about, item, asked, active, removed>>
  BY DEF Reply, Calling
<1>0. top \in Nat /\ (top = 1 \/ top > 1)
  <2>1. Len(calls) \in Nat /\ Len(calls) > 0
    BY <1>1, CurrentIs DEF AnswerPart
  <2>2. \A n \in Nat : n > 0 => n = 1 \/ n > 1
    OBVIOUS
  <2> QED BY <2>1, <2>2
<1>2. /\ top \in Nat /\ top > 0 /\ top \in 1..top /\ Current = calls[top]
      /\ calls \in Seq(Callings) /\ Current.common \in BOOLEAN
  BY <1>1, CurrentIs DEF AnswerPart, AnswerTypes
<1>3. Asking(Current.of) /\ CallRight(Current)
  BY <1>1, WayIs
<1>4. Current.common <=> Answer(Current.of)
  <2>1. Current.common <=> Ways(Current.of) # {} /\ \A k \in Ways(Current.of) \ Current.left : Agrees(Current.of, k)
    BY <1>3 DEF CallRight
  <2>2. Answer(Current.of) <=> Ways(Current.of) # {} /\ \A k \in Ways(Current.of) : Agrees(Current.of, k)
    BY <1>3, AnswerIs
  <2>3. Current.left = {} \/ ~Current.common
    BY <1>1 DEF Decided
  <2> QED BY <2>1, <2>2, <2>3
<1>5. /\ calls' \in Seq(Callings) /\ Len(calls') = top - 1
      /\ \A i \in 1..(top - 1) : calls'[i] = calls[i]
  <2>1. CASE top = 1
    <3>1. calls' = << >>
      BY <1>1, <1>2, <2>1
    <3>2. Len(calls') = 0 /\ calls' \in Seq(Callings)
      BY <3>1
    <3> QED BY <2>1, <3>2
  <2>2. CASE top > 1
    <3>1. calls # <<>> /\ Len(calls) > 1
      BY <1>1, <2>2
    <3> QED BY <1>1, <1>2, <3>1, Shortened
  <2> QED BY <1>0, <2>1, <2>2
<1>6. /\ \A i \in 1..Len(calls') : i \in 1..top /\ i # top /\ calls'[i] = calls[i]
      /\ \A i \in 1..top : i = top \/ i \in 1..Len(calls')
      /\ \A i \in 1..Len(calls') : i < Len(calls') => i < top /\ i + 1 \in 1..Len(calls')
  BY <1>2, <1>5
<1>7. /\ \A p : Answer(p)' <=> Answer(p)
      /\ \A p : Ways(p)' = Ways(p)
      /\ \A p : Asking(p)' <=> Asking(p)
      /\ \A p, k : ParentAt(p, k)' = ParentAt(p, k)
      /\ \A p, k : Agrees(p, k)' <=> Agrees(p, k)
      /\ \A n, m : Earlier(n, m)' <=> Earlier(n, m)
  BY <1>1, SameAnswers, SameRoutes
<1>8. \A i \in 1..Len(calls') : calls[i].of # Current.of
  BY <1>2, <1>6 DEF AnswerPart, CallsDiffer
<1>9. Current.of \in asked /\ \A p : p # Current.of => (p \in granted' <=> p \in granted)
  BY <1>1, <1>3 DEF CallRight
<1>10. AnswerTypes'
  BY <1>1, <1>5, <1>9 DEF AnswerPart, AnswerTypes
<1>11. MemoRight'
  <2> SUFFICES ASSUME NEW p \in asked
               PROVE  /\ Asking(p)
                      /\ (\A i \in 1..Len(calls') : calls'[i].of # p) => (p \in granted' <=> Answer(p))
    BY <1>1, <1>7 DEF MemoRight
  <2>1. Asking(p) /\ ((\A i \in 1..top : calls[i].of # p) => (p \in granted <=> Answer(p)))
    BY DEF AnswerPart, MemoRight
  <2>2. CASE p = Current.of
    <3>1. p \notin granted
      BY <1>3, <2>2 DEF CallRight
    <3>2. p \in granted' <=> Current.common
      BY <1>1, <2>2, <3>1
    <3> QED BY <1>4, <2>1, <2>2, <3>2
  <2>3. CASE p # Current.of
    <3>1. (\A i \in 1..Len(calls') : calls'[i].of # p) => (\A i \in 1..top : calls[i].of # p)
      BY <1>2, <1>6, <2>3
    <3> QED BY <1>9, <2>1, <2>3, <3>1
  <2> QED BY <2>2, <2>3
<1>12. CallsRight'
  <2>0. SUFFICES ASSUME NEW i \in 1..Len(calls')
        PROVE  /\ calls'[i].of \in asked' /\ calls'[i].of \notin granted' /\ calls'[i].left \subseteq Ways(calls'[i].of)
               /\ calls'[i].common <=> Ways(calls'[i].of) # {}
                    /\ \A k \in Ways(calls'[i].of) \ calls'[i].left : Agrees(calls'[i].of, k)
    BY <1>7 DEF CallsRight, CallRight
  <2>1. CallRight(calls[i]) /\ calls'[i] = calls[i] /\ calls[i].of # Current.of
    BY <1>6, <1>8 DEF AnswerPart, CallsRight
  <2> QED BY <1>1, <1>9, <2>1 DEF CallRight
<1>13. CallsDiffer'
  BY <1>6 DEF AnswerPart, CallsDiffer
<1>14. CallsClimb'
  <2>1. ASSUME NEW i \in 1..Len(calls'), i < Len(calls')
        PROVE  \E k \in calls'[i].left : calls'[i + 1].of = Whole(ParentAt(calls'[i].of, k))
    <3>1. i \in 1..top /\ i < top /\ calls'[i] = calls[i] /\ calls'[i + 1] = calls[i + 1]
      BY <1>6, <2>1
    <3>2. PICK k \in calls[i].left : calls[i + 1].of = Whole(ParentAt(calls[i].of, k))
      BY <3>1 DEF AnswerPart, CallsClimb
    <3> QED BY <3>1, <3>2
  <2>2. about = "servers" => \A i, j \in 1..Len(calls') : i < j =>
         ~calls'[j].of.pick /\ (~calls'[i].of.pick => Earlier(calls'[i].of, calls'[j].of))
    BY <1>6 DEF AnswerPart, CallsClimb
  <2> QED BY <1>1, <1>7, <2>1, <2>2 DEF CallsClimb, Whole
<1> QED BY <1>1, <1>10, <1>11, <1>12, <1>13, <1>14, AppliedOn DEF AnswerPart

------------------------------------------------------------------------------
(* The walk over the contributions, and the whole of it                       *)

LEMMA AskItemKeeps ==
  ASSUME AtRest, AnswerPart, AskItem
  PROVE  AnswerPart'
<1> DEFINE n == results[item]
           q == Question(n)
<1>1. /\ calls = <<>> /\ about # "done" /\ item <= Len(results) /\ n.id \in Harnesses
      /\ Ask(q) /\ ~Known(q)
  BY DEF AskItem, Between, OfHarness, Ask
<1>2. item \in Nat \ {0} /\ Len(results) \in Nat
  BY DEF AnswerPart, AnswerTypes, AtRest, WalkInv, TypeOK
<1>3. n \in Contributed
  <2>1. item \in 1..Len(results)
    BY <1>1, <1>2
  <2> QED BY <2>1 DEF Contributed
<1>4. n \in Nodes /\ n # Whole(Root)
  BY <1>1, <1>3, ContributedHaveRoutes
<1>5. Whole(n.id) \in Nodes /\ Whole(n.id).id = n.id /\ ~Whole(n.id).pick
  BY <1>1, NodeTypes DEF Whole, Targets
<1>6. q # Whole(Root)
  BY <1>1 DEF Known
<1>7. Asking(q)
  BY <1>1, <1>4, <1>5, <1>6 DEF Asking, Question
<1> HIDE DEF q, n
<1> QED BY <1>1, <1>7, AskKeeps

LEMMA AskParentKeeps ==
  ASSUME AtRest, AnswerPart, AskParent
  PROVE  AnswerPart'
<1>1. calls # <<>> /\ about # "done" /\ ~Decided /\ Ask(From) /\ ~Known(From)
  BY DEF AskParent, Calling, Ask
<1>2. /\ Way \in Current.left /\ Way \in Ways(Current.of) /\ Asking(Current.of)
      /\ From = Whole(ParentAt(Current.of, Way))
  BY <1>1, WayIs DEF Decided
<1>3. Asking(From)
  BY <1>1, <1>2, WaysAre DEF Known
<1> QED BY <1>1, <1>2, <1>3, AskKeeps

\* Between two questions nothing is being asked about.
LEMMA NoCalls ==
  ASSUME calls' = <<>>
  PROVE  CallsRight' /\ CallsDiffer' /\ CallsClimb' /\ \A i \in 1..Len(calls') : FALSE
<1>1. Len(calls') = 0 /\ \A i \in 1..Len(calls') : FALSE
  OBVIOUS
<1> QED BY <1>1 DEF CallsRight, CallsDiffer, CallsClimb

\* What is applied to a contribution is the answer.
LEMMA ItemAnswered ==
  ASSUME AtRest, AnswerPart, ApplyItem, OfHarness
  PROVE  /\ about = "servers" => (Granted(Question(results[item])) <=> Lost(results[item]))
         /\ about = "hooks" => (Granted(Question(results[item]))
                                  <=> results[item].id = Root \/ results[item].id \in MayRun)
<1> DEFINE n == results[item]
           q == Question(n)
<1>1. calls = <<>> /\ item <= Len(results) /\ n.id \in Harnesses /\ Known(q)
  BY DEF ApplyItem, Between, OfHarness
<1>2. item \in Nat \ {0} /\ Len(results) \in Nat
  BY DEF AnswerPart, AnswerTypes, AtRest, WalkInv, TypeOK
<1>3. n \in Contributed
  <2>1. item \in 1..Len(results)
    BY <1>1, <1>2
  <2> QED BY <2>1 DEF Contributed
<1>4. n \in Nodes /\ n # Whole(Root)
  BY <1>1, <1>3, ContributedHaveRoutes
<1>5. ASSUME q # Whole(Root) PROVE Granted(q) <=> Answer(q)
  <2>1. q \in asked /\ (Granted(q) <=> q \in granted)
    BY <1>1, <1>5 DEF Known, Granted
  <2>2. \A i \in 1..Len(calls) : calls[i].of # q
    BY <1>1
  <2> QED BY <2>1, <2>2 DEF AnswerPart, MemoRight
<1>6. CASE about = "servers"
  <2>1. q = n
    BY <1>6 DEF Question
  <2> QED BY <1>4, <1>5, <1>6, <2>1 DEF Answer
<1>7. CASE about = "hooks"
  <2>1. q = Whole(n.id) /\ q.id = n.id
    BY <1>7 DEF Question, Whole
  <2>2. q = Whole(Root) <=> n.id = Root
    <3>1. \A p : Whole(p).id = p
      BY DEF Whole
    <3> HIDE DEF q
    <3> QED BY <2>1, <3>1
  <2>3. Root \notin MayRun
    BY MayRunIsLeast DEF MayRunBy
  <2>4. CASE n.id = Root
    BY <1>7, <2>2, <2>4 DEF Granted
  <2>5. CASE n.id # Root
    BY <1>5, <1>7, <2>1, <2>2, <2>5 DEF Answer
  <2> QED BY <1>7, <2>4, <2>5
<1> QED BY <1>6, <1>7

LEMMA ApplyItemKeeps ==
  ASSUME AtRest, AnswerPart, ApplyItem
  PROVE  AnswerPart'
<1> DEFINE n == results[item]
           yes == OfHarness /\ Granted(Question(n))
<1>1. /\ calls = <<>> /\ about # "done" /\ item <= Len(results) /\ item' = item + 1
      /\ removed' = IF about = "servers" /\ yes THEN removed \union {n} ELSE removed
      /\ active'  = IF about = "hooks" /\ yes THEN active \union {n.id} ELSE active
      /\ UNCHANGED <<vars, nulls, about, calls, asked, granted>>
  BY DEF ApplyItem, Between
<1>2. /\ item \in Nat \ {0} /\ Len(results) \in Nat /\ item' \in Nat \ {0}
      /\ about \in {"servers", "hooks", "done"}
  BY <1>1 DEF AnswerPart, AnswerTypes, AtRest, WalkInv, TypeOK
<1>3. /\ item \in 1..Len(results)
      /\ \A i \in 1..Len(results) : i < item' <=> i < item \/ i = item
  BY <1>1, <1>2
<1>4. /\ about = "servers" => (yes <=> n.id \in Harnesses /\ Lost(n))
      /\ about = "hooks" => (yes <=> n.id \in Harnesses /\ (n.id = Root \/ n.id \in MayRun))
  BY ItemAnswered DEF OfHarness
<1> HIDE DEF yes
<1>5. /\ \A q : Answer(q)' <=> Answer(q)
      /\ \A q : Asking(q)' <=> Asking(q)
      /\ results' = results /\ MayRun' = MayRun /\ \A m : Lost(m)' <=> Lost(m)
  BY <1>1, SameAnswers, SameRoutes
<1>6. AnswerTypes'
  BY <1>1, <1>2 DEF AnswerPart, AnswerTypes
<1>7. CallsRight' /\ CallsDiffer' /\ CallsClimb'
  BY <1>1, NoCalls
<1>8. MemoRight'
  BY <1>1, <1>5 DEF AnswerPart, MemoRight
<1>9. /\ \A m : m \in removed <=> \E i \in 1..Len(results) :
            (about = "servers" => i < item) /\ results[i] = m /\ m.id \in Harnesses /\ Lost(m)
      /\ \A h : h \in active <=> about # "servers" /\ \E i \in 1..Len(results) :
            (about = "hooks" => i < item) /\ results[i].id = h /\ h \in Harnesses /\ (h = Root \/ h \in MayRun)
  BY DEF AnswerPart, Applied
<1>10. ASSUME NEW m
       PROVE  m \in removed' <=> \E i \in 1..Len(results) :
                (about = "servers" => i < item') /\ results[i] = m /\ m.id \in Harnesses /\ Lost(m)
  <2>1. CASE about = "servers"
    <3>1. m \in removed' <=> m \in removed \/ (m = n /\ n.id \in Harnesses /\ Lost(n))
      BY <1>1, <1>4, <2>1
    <3>2. (\E i \in 1..Len(results) : i < item' /\ results[i] = m /\ m.id \in Harnesses /\ Lost(m))
            <=> (\E i \in 1..Len(results) : i < item /\ results[i] = m /\ m.id \in Harnesses /\ Lost(m))
                \/ (m = n /\ n.id \in Harnesses /\ Lost(n))
      BY <1>3
    <3> QED BY <1>9, <2>1, <3>1, <3>2
  <2>2. CASE about # "servers"
    BY <1>1, <1>9, <2>2
  <2> QED BY <2>1, <2>2
<1>11. ASSUME NEW h
       PROVE  h \in active' <=> about # "servers" /\ \E i \in 1..Len(results) :
                (about = "hooks" => i < item') /\ results[i].id = h /\ h \in Harnesses /\ (h = Root \/ h \in MayRun)
  <2>1. CASE about = "hooks"
    <3>1. h \in active' <=> h \in active \/ (h = n.id /\ h \in Harnesses /\ (h = Root \/ h \in MayRun))
      BY <1>1, <1>4, <2>1
    <3>2. (\E i \in 1..Len(results) : i < item' /\ results[i].id = h /\ h \in Harnesses /\ (h = Root \/ h \in MayRun))
            <=> (\E i \in 1..Len(results) : i < item /\ results[i].id = h /\ h \in Harnesses /\ (h = Root \/ h \in MayRun))
                \/ (h = n.id /\ h \in Harnesses /\ (h = Root \/ h \in MayRun))
      BY <1>3
    <3> QED BY <1>9, <2>1, <3>1, <3>2
  <2>2. CASE about # "hooks"
    BY <1>1, <1>9, <2>2
  <2> QED BY <2>1, <2>2
<1>12. Applied'
  BY <1>1, <1>5, <1>10, <1>11 DEF Applied
<1> QED BY <1>6, <1>7, <1>8, <1>12 DEF AnswerPart

LEMMA AppliedAllKeeps ==
  ASSUME AtRest, AnswerPart, AppliedAll
  PROVE  AnswerPart'
<1>1. /\ calls = <<>> /\ about # "done" /\ item > Len(results)
      /\ about' = IF about = "servers" THEN "hooks" ELSE "done"
      /\ item' = 1 /\ asked' = {} /\ granted' = {}
      /\ UNCHANGED <<vars, nulls, calls, active, removed>>
  BY DEF AppliedAll, Between
<1>2. item \in Nat \ {0} /\ Len(results) \in Nat /\ about \in {"servers", "hooks"}
  BY <1>1 DEF AnswerPart, AnswerTypes, AtRest, WalkInv, TypeOK
<1>3. \A i \in 1..Len(results) : i < item /\ ~(i < 1)
  BY <1>1, <1>2
<1>4. results' = results /\ MayRun' = MayRun /\ \A m : Lost(m)' <=> Lost(m)
  BY <1>1, SameRoutes
<1>5. AnswerTypes' /\ MemoRight'
  BY <1>1, <1>2 DEF AnswerPart, AnswerTypes, MemoRight
<1>6. CallsRight' /\ CallsDiffer' /\ CallsClimb'
  BY <1>1, NoCalls
<1>7. /\ \A m : m \in removed <=> \E i \in 1..Len(results) :
            (about = "servers" => i < item) /\ results[i] = m /\ m.id \in Harnesses /\ Lost(m)
      /\ \A h : h \in active <=> about # "servers" /\ \E i \in 1..Len(results) :
            (about = "hooks" => i < item) /\ results[i].id = h /\ h \in Harnesses /\ (h = Root \/ h \in MayRun)
  BY DEF AnswerPart, Applied
<1>8. \A m : m \in removed <=> \E i \in 1..Len(results) :
            (about' = "servers" => i < item') /\ results[i] = m /\ m.id \in Harnesses /\ Lost(m)
  BY <1>1, <1>3, <1>7
<1>9. \A h : h \in active <=> about' # "servers" /\ \E i \in 1..Len(results) :
            (about' = "hooks" => i < item') /\ results[i].id = h /\ h \in Harnesses /\ (h = Root \/ h \in MayRun)
  BY <1>1, <1>2, <1>3, <1>7
<1>10. Applied'
  BY <1>1, <1>4, <1>8, <1>9 DEF Applied
<1> QED BY <1>5, <1>6, <1>10 DEF AnswerPart

LEMMA NothingAsked ==
  ASSUME AnswerPart, UNCHANGED consentVars
  PROVE  AnswerPart'
<1>1. UNCHANGED <<vars, nulls, about, item, calls, asked, granted, active, removed>>
  BY DEF consentVars, answering
<1>2. /\ \A p : Answer(p)' <=> Answer(p)
      /\ \A p : Ways(p)' = Ways(p)
      /\ \A p : Asking(p)' <=> Asking(p)
      /\ \A p, k : ParentAt(p, k)' = ParentAt(p, k)
      /\ \A p, k : Agrees(p, k)' <=> Agrees(p, k)
      /\ \A n, m : Earlier(n, m)' <=> Earlier(n, m)
  BY <1>1, SameAnswers, SameRoutes
<1>3. AnswerTypes' /\ MemoRight'
  BY <1>1, <1>2 DEF AnswerPart, AnswerTypes, MemoRight
<1>4. CallsRight' /\ CallsDiffer'
  BY <1>1, <1>2 DEF AnswerPart, CallsRight, CallRight, CallsDiffer
<1>5. CallsClimb'
  BY <1>1, <1>2 DEF AnswerPart, CallsClimb, Whole
<1>6. Applied'
  BY <1>1, AppliedOn
<1> QED BY <1>3, <1>4, <1>5, <1>6 DEF AnswerPart

\* The inductive invariant of the walk and of what is made of its routes.
ConsentInv ==
  WalkInv /\ RoutePart /\ AnswerPart /\ (status # "resolved" => Quiet)

LEMMA ConsentNextKeeps == ConsentInv /\ [ConsentNext]_consentVars => ConsentInv'
<1> SUFFICES ASSUME ConsentInv, [ConsentNext]_consentVars PROVE ConsentInv'
  OBVIOUS
<1>0. WalkInv /\ RoutePart /\ AnswerPart /\ (status # "resolved" => Quiet)
  BY DEF ConsentInv
<1>1. CASE Walk
  <2>1. Next /\ status = "walking" /\ UNCHANGED <<answering, active, removed>>
    BY <1>1 DEF Walk, Next, CannotLoad, TwoVersions, IncludesItself, TakePackage, SkipCycle, TakePick,
                MeetAgain, Descend, Return, Finish, Read
  <2>2. WalkInv'
    BY <1>0, <2>1, WalkNext
  <2>3. RoutePart'
    BY <1>0, <2>1, <2>2, RoutesNext DEF WalkInv
  <2>4. Quiet' /\ AnswerPart'
    BY <1>0, <2>1, QuietStays
  <2> QED BY <2>2, <2>3, <2>4 DEF ConsentInv
<1>2. CASE AskItem \/ ApplyItem \/ AppliedAll \/ AskParent \/ Hear \/ Reply
  <2>1. status = "resolved" /\ UNCHANGED vars
    BY <1>2 DEF AskItem, ApplyItem, AppliedAll, AskParent, Hear, Reply, Ask, Between, Calling
  <2>2. AtRest
    BY <1>0, <2>1 DEF AtRest
  <2>3. AnswerPart'
    BY <1>0, <1>2, <2>2, AskItemKeeps, ApplyItemKeeps, AppliedAllKeeps, AskParentKeeps, HearKeeps, ReplyKeeps
  <2>4. WalkInv'
    BY <1>0, <2>1, WalkNext
  <2>5. RoutePart'
    BY <1>0, <2>1, <2>4, RoutesNext DEF WalkInv
  <2>6. status' = "resolved"
    BY <2>1 DEF vars
  <2> QED BY <2>3, <2>4, <2>5, <2>6 DEF ConsentInv
<1>3. CASE UNCHANGED consentVars
  <2>1. UNCHANGED <<vars, answering, active, removed, status>>
    BY <1>3 DEF consentVars, vars
  <2>2. WalkInv'
    BY <1>0, <2>1, WalkNext
  <2>3. RoutePart'
    BY <1>0, <2>1, <2>2, RoutesNext DEF WalkInv
  <2>4. AnswerPart'
    BY <1>0, <1>3, NothingAsked
  <2>5. status' # "resolved" => Quiet'
    BY <1>0, <2>1, QuietStays
  <2> QED BY <2>2, <2>3, <2>4, <2>5 DEF ConsentInv
<1> QED BY <1>1, <1>2, <1>3 DEF ConsentNext

\* The routes recorded are those of the includes read, and the memo answers, of
\* what no call is still about, what the routes come to: also while the
\* recursion is among harnesses whose picks vouch for each other
\* (walkIncludes, hooksConsent and removedFrom).
THEOREM ConsentInvariant == ConsentSpec => []ConsentInv
<1>1. ConsentInit => ConsentInv
  <2> SUFFICES ASSUME ConsentInit PROVE ConsentInv
    OBVIOUS
  <2>1. Init /\ Quiet
    BY DEF ConsentInit, Quiet
  <2> QED BY <2>1, WalkInit, RoutesInit, QuietIsRight DEF ConsentInv
<1> QED BY <1>1, ConsentNextKeeps, PTL DEF ConsentSpec

------------------------------------------------------------------------------
(* What the memo came to is what the docs say of the routes                   *)

\* The links that decide are the routes that do.
LEMMA DecidingAre ==
  ASSUME AtRest, NEW h \in Harnesses
  PROVE  /\ \A r \in Routes : (r[2].to = h /\ Decides(Routes, r)) =>
              \E k \in DecidingLinks(h) : hookLinks[h][k].parent = r[1] /\ hookLinks[h][k].hooks = r[2].hooks
         /\ \A k \in DecidingLinks(h) : \E r \in Routes :
              /\ r[2].to = h /\ Decides(Routes, r)
              /\ r[1] = hookLinks[h][k].parent /\ r[2].hooks = hookLinks[h][k].hooks
         /\ (\E r \in Routes : r[2].to = h) => DOMAIN hookLinks[h] # {}
<1>1. ASSUME NEW r \in Routes, r[2].to = h
      PROVE  \E k \in DOMAIN hookLinks[h] : hookLinks[h][k].parent = r[1] /\ hookLinks[h][k].hooks = r[2].hooks
  <2>1. r[1] \in Harnesses /\ r[2].hooks \in BOOLEAN
    BY RouteTypes
  <2>2. LinkFrom(h, r[1], r[2].hooks)
    BY <1>1, <2>1, LinksAreRoutes
  <2> QED BY <2>2, RouteTypes DEF LinkFrom
<1>2. ASSUME NEW k \in DOMAIN hookLinks[h]
      PROVE  \E r \in Routes : r[2].to = h /\ r[1] = hookLinks[h][k].parent /\ r[2].hooks = hookLinks[h][k].hooks
  <2>1. /\ hookLinks[h][k].parent \in Harnesses /\ hookLinks[h][k].hooks \in BOOLEAN
        /\ LinkFrom(h, hookLinks[h][k].parent, hookLinks[h][k].hooks)
    BY RouteTypes
  <2> QED BY <2>1, LinksAreRoutes
<1>3. (\E k \in DOMAIN hookLinks[h] : hookLinks[h][k].parent = Root) <=> \E q \in Routes : q[1] = Root /\ q[2].to = h
  BY <1>1, <1>2
<1>4. ASSUME NEW k \in DOMAIN hookLinks[h]
      PROVE  k \in DecidingLinks(h)
               <=> ((\E q \in Routes : q[1] = Root /\ q[2].to = h) => hookLinks[h][k].parent = Root)
  BY <1>3 DEF DecidingLinks
<1>5. DecidingLinks(h) \subseteq DOMAIN hookLinks[h]
  BY DEF DecidingLinks
<1>6. ASSUME NEW r \in Routes, r[2].to = h, Decides(Routes, r)
      PROVE  \E k \in DecidingLinks(h) : hookLinks[h][k].parent = r[1] /\ hookLinks[h][k].hooks = r[2].hooks
  <2>1. PICK k \in DOMAIN hookLinks[h] : hookLinks[h][k].parent = r[1] /\ hookLinks[h][k].hooks = r[2].hooks
    BY <1>1, <1>6
  <2> QED BY <1>4, <1>6, <2>1 DEF Decides
<1>7. ASSUME NEW k \in DecidingLinks(h)
      PROVE  \E r \in Routes : /\ r[2].to = h /\ Decides(Routes, r)
                               /\ r[1] = hookLinks[h][k].parent /\ r[2].hooks = hookLinks[h][k].hooks
  <2>1. PICK r \in Routes : r[2].to = h /\ r[1] = hookLinks[h][k].parent /\ r[2].hooks = hookLinks[h][k].hooks
    BY <1>2, <1>5
  <2>2. Decides(Routes, r)
    BY <1>4, <1>5, <2>1 DEF Decides
  <2> QED BY <2>1, <2>2
<1> QED BY <1>1, <1>6, <1>7

\* No harness that may run is refused.
LEMMA RunsUnrefused ==
  ASSUME AtRest PROVE \A h \in MayRun : h \notin Refused(Routes)
<1> DEFINE S == Harnesses \ (MayRun \union {Root})
<1>1. Refuses(S) \subseteq S
  <2> SUFFICES ASSUME NEW h \in Refuses(S), h \in MayRun PROVE FALSE
    BY DEF Refuses
  <2>1. h \in Harnesses
    BY DEF Refuses
  <2>2. PICK r \in Routes : r[2].to = h /\ Decides(Routes, r) /\ (~r[2].hooks \/ r[1] \in S)
    BY DEF Refuses
  <2>3. PICK k \in DecidingLinks(h) : hookLinks[h][k].parent = r[1] /\ hookLinks[h][k].hooks = r[2].hooks
    BY <2>1, <2>2, DecidingAre
  <2>4. hookLinks[h][k].hooks /\ (hookLinks[h][k].parent = Root \/ hookLinks[h][k].parent \in MayRun)
    BY MayRunIsLeast DEF MayRunBy
  <2> QED BY <2>2, <2>3, <2>4
<1>2. Refused(Routes) \subseteq S
  BY <1>1, RefusedIsLeast
<1> QED BY <1>2

\* And where picks close no cycle, a harness with a route is one or the other.
LEMMA UnrefusedRuns ==
  ASSUME AtRest, NoPickClosesACycle(Routes)
  PROVE  \A h \in Harnesses \ {Root} :
           ((\E r \in Routes : r[2].to = h) /\ h \notin Refused(Routes)) => h \in MayRun
<1> DEFINE S == { h \in Harnesses \ {Root} :
                    (\E r \in Routes : r[2].to = h) /\ h \notin Refused(Routes) /\ h \notin MayRun }
<1>1. S \in SUBSET (Harnesses \ {Root})
  OBVIOUS
<1>2. ASSUME S # {} PROVE FALSE
  <2>1. PICK h \in S : \A r \in Routes : r[2].to = h => r[1] \notin S
    BY <1>1, <1>2 DEF NoPickClosesACycle
  <2>2. /\ h \in Harnesses /\ h # Root /\ h \notin Refused(Routes) /\ h \notin MayRun
        /\ DOMAIN hookLinks[h] # {}
    BY DecidingAre
  <2>3. PICK k \in DecidingLinks(h) :
          ~(hookLinks[h][k].hooks /\ (hookLinks[h][k].parent = Root \/ hookLinks[h][k].parent \in MayRun))
    BY <2>2, MayRunIsLeast DEF MayRunBy
  <2>4. PICK r \in Routes : /\ r[2].to = h /\ Decides(Routes, r)
                            /\ r[1] = hookLinks[h][k].parent /\ r[2].hooks = hookLinks[h][k].hooks
    BY <2>2, DecidingAre
  <2>5. ~r[2].hooks \/ r[1] \in Refused(Routes)
    <3> SUFFICES ASSUME r[2].hooks PROVE r[1] \in Refused(Routes)
      OBVIOUS
    <3>1. r[1] # Root /\ r[1] \notin MayRun /\ r[1] \in Harnesses
      BY <2>3, <2>4, RouteTypes
    <3>2. Whole(r[1]) \in Contributed /\ Whole(r[1]).id = r[1]
      BY <3>1, ContributedHaveRoutes DEF Whole
    <3>3. \E q \in Routes : q[2].to = r[1]
      BY <3>1, <3>2, ContributedHaveRoutes
    <3> QED BY <2>1, <2>4, <3>1, <3>3
  <2>6. h \in Refuses(Refused(Routes))
    BY <2>2, <2>4, <2>5 DEF Refuses
  <2> QED BY <2>2, <2>6, RefusedIsLeast
<1> QED BY <1>2

\* A contribution loses the server exactly where no route keeps it.
LEMMA LostWhereNoneKeeps ==
  ASSUME AtRest, NEW n \in Contributed, n.id \in Harnesses
  PROVE  Lost(n) <=> ~\E r \in Routes : /\ r[2].to = n.id /\ r[2].pick = n.pick
                                        /\ Keeps(r[1], Keepers(Routes))
<1>1. n \in Nodes /\ Len(parents[n]) > 0
  BY ContributedHaveRoutes
<1>2. DOMAIN parents[n] # {}
  <2>1. 1 \in DOMAIN parents[n]
    BY <1>1, RouteTypes
  <2> QED BY <2>1
<1>3. ASSUME NEW r \in Routes, r[2].to = n.id, r[2].pick = n.pick, Keeps(r[1], Keepers(Routes))
      PROVE  ~Lost(n)
  <2>1. r[1] \in Harnesses
    BY RouteTypes
  <2>2. ParentIs(n, r[1])
    BY <1>1, <1>3, <2>1, ParentsAreRoutes
  <2>3. PICK k \in DOMAIN parents[n] : parents[n][k] = r[1]
    BY <1>1, <2>2, RouteTypes DEF ParentIs
  <2> QED BY <1>3, <2>3 DEF Lost, Keeps
<1>4. ASSUME ~Lost(n)
      PROVE  \E r \in Routes : r[2].to = n.id /\ r[2].pick = n.pick /\ Keeps(r[1], Keepers(Routes))
  <2>1. PICK k \in DOMAIN parents[n] :
          parents[n][k] = Root \/ (parents[n][k] \notin nulls /\ parents[n][k] \in Keepers(Routes))
    BY <1>2, <1>4 DEF Lost
  <2>2. parents[n][k] \in Harnesses /\ ParentIs(n, parents[n][k])
    BY <1>1, RouteTypes
  <2>3. PICK r \in Routes : r[1] = parents[n][k] /\ r[2].to = n.id /\ r[2].pick = n.pick
    BY <1>1, <2>2, ParentsAreRoutes
  <2>4. Keeps(r[1], Keepers(Routes))
    BY <2>1, <2>3 DEF Keeps
  <2> QED BY <2>3, <2>4
<1> QED BY <1>3, <1>4

\* applyHooksConsent lets a harness run its hooks only where every route that
\* decides says so at every link, and lets it where none says no, unless picks
\* vouch for each other; applyRemovals removes a server where every route
\* removes it and nowhere else: on every graph, and in whatever order the memo
\* is filled.  An include that was skipped because it closes a cycle is no route.
THEOREM EveryRouteIsCounted == ConsentSpec => []EveryRouteCounts
<1>1. ConsentInv => EveryRouteCounts
  <2> SUFFICES ASSUME ConsentInv, Answered PROVE EveryRouteCounts
    BY DEF EveryRouteCounts, ConsentOnEveryRoute, RemovedOnEveryRoute
  <2>1. AtRest /\ Applied /\ about = "done"
    BY DEF ConsentInv, AnswerPart, Answered, AtRest
  <2>2. ASSUME NEW n \in Contributed, n.id \in Harnesses
        PROVE  /\ n \in removed <=> Lost(n)
               /\ n.id \in active <=> n.id = Root \/ n.id \in MayRun
    <3>1. \E i \in 1..Len(results) : results[i] = n
      BY DEF Contributed
    <3> QED BY <2>1, <2>2, <3>1 DEF Applied
  <2>3. ASSUME NEW n \in Contributed, n.id \in Harnesses \ {Root}
        PROVE  /\ n.id \in active => n.id \notin Refused(Routes)
               /\ NoPickClosesACycle(Routes) => (n.id \notin Refused(Routes) => n.id \in active)
    <3>1. n.id \in active <=> n.id \in MayRun
      BY <2>2, <2>3
    <3>2. \E r \in Routes : r[2].to = n.id
      BY <2>1, <2>3, ContributedHaveRoutes
    <3> QED BY <2>1, <2>3, <3>1, <3>2, RunsUnrefused, UnrefusedRuns
  <2>4. ConsentOnEveryRoute
    BY <2>3 DEF ConsentOnEveryRoute
  <2>5. ASSUME NEW n \in Contributed, n.id \in Harnesses
        PROVE  n \in removed <=> ~\E r \in Routes : /\ r[2].to = n.id /\ r[2].pick = n.pick
                                                    /\ Keeps(r[1], Keepers(Routes))
    BY <2>1, <2>2, <2>5, LostWhereNoneKeeps
  <2>6. RemovedOnEveryRoute
    BY <2>5 DEF RemovedOnEveryRoute
  <2> QED BY <2>4, <2>6 DEF EveryRouteCounts
<1> QED BY <1>1, ConsentInvariant, PTL
=============================================================================

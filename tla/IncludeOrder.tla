---------------------------- MODULE IncludeOrder ----------------------------
(***************************************************************************)
(* One include graph resolved twice, its harnesses listing their includes  *)
(* in two orders.  Each walk is IncludeConsent's; the second starts when   *)
(* the first is over.                                                      *)
(***************************************************************************)
EXTENDS Integers, Sequences

CONSTANTS Harnesses, Root, Packages, Local, Graphs, SourceMaps, Nulls

VARIABLES
  includes, source, status, chain, results, done, parents, hookLinks, notes,
  met, nulls, about, item, calls, asked, granted, active, removed,
  includes2, status2, chain2, results2, done2, parents2, hookLinks2, notes2,
  met2, about2, item2, calls2, asked2, granted2, active2, removed2

First  == INSTANCE IncludeConsent
Second == INSTANCE IncludeConsent WITH
            includes <- includes2, status <- status2, chain <- chain2,
            results <- results2, done <- done2, parents <- parents2,
            hookLinks <- hookLinks2, notes <- notes2, met <- met2,
            about <- about2, item <- item2, calls <- calls2, asked <- asked2,
            granted <- granted2, active <- active2, removed <- removed2

first  == <<includes, source, status, chain, results, done, parents, hookLinks,
            notes, met, nulls, about, item, calls, asked, granted, active,
            removed>>
second == <<includes2, status2, chain2, results2, done2, parents2, hookLinks2,
            notes2, met2, about2, item2, calls2, asked2, granted2, active2,
            removed2>>

\* The same includes in another order.
Relisted(l, k) ==
  /\ Len(l) = Len(k)
  /\ \A e \in First!Entries :
       { i \in 1..Len(l) : l[i] = e } = {} <=> { i \in 1..Len(k) : k[i] = e } = {}

Init ==
  /\ First!ConsentInit
  /\ Second!ConsentInit
  /\ \A h \in Harnesses : Relisted(includes[h], includes2[h])

Next ==
  \/ First!ConsentNext /\ UNCHANGED second
  \/ First!Over /\ Second!ConsentNext /\ UNCHANGED first

Spec == Init /\ [][Next]_<<first, second>>

------------------------------------------------------------------------------

\* resolver.go on hooksConsent: "The outcome does not depend on the order the
\* includes are listed in."
OrderMakesNoDifference ==
  (First!Answered /\ Second!Answered) => active = active2
=============================================================================

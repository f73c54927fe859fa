--------------------------- MODULE MCIncludeGraph ---------------------------
(* Include graphs of four harnesses: the root and x list up to two includes, *)
(* a and b at most one; x, a and b may pick.                                 *)
EXTENDS IncludeConsent, TLC

CONSTANTS root, x, a, b, docs, local, repo

AllHarnesses == {root, x, a, b}
AllTargets   == AllHarnesses \union {docs}

Includes(T, P) == [to : T, hooks : BOOLEAN, pick : P]
One(T, P) == { <<e>> : e \in Includes(T, P) }
Two(T, P) == { <<e, f>> : e, f \in Includes(T, P) }
NotOneTwice(l) == Len(l) = 2 => l[1].to # l[2].to \/ l[1].pick # l[2].pick
BothPicked(l)  == Len(l) = 2 /\ l[1].pick /\ l[2].pick

Listings(r, s, t, u) == { (root :> k) @@ (x :> l) @@ (a :> m) @@ (b :> n) :
                            k \in r, l \in s, m \in t, n \in u }

\* An include whose word on hooks is never asked.
Silently(t) == { <<[to |-> t, hooks |-> TRUE, pick |-> FALSE]>> }

OnePicked(t) == { <<[to |-> t, hooks |-> TRUE, pick |-> TRUE]>> }

\* Cycles through two or three harnesses and through the root, diamonds,
\* shared picks, picks of each other and of the root, a package, a harness met
\* whole and picked.
SmallGraphs ==
  Listings({ l \in Silently(x) \union Two({x, a}, {FALSE}) : NotOneTwice(l) },
           { l \in {<<>>} \union One({a, b}, BOOLEAN) \union Silently(x)
                       \union Two({a, b}, BOOLEAN) :
               NotOneTwice(l) /\ ~BothPicked(l) },
           {<<>>} \union One({b}, {FALSE}) \union Silently(x) \union Silently(root)
                  \union Silently(docs) \union OnePicked(b),
           {<<>>} \union One({a}, {FALSE}) \union OnePicked(a) \union { l \in One({root}, {TRUE}) : ~l[1].hooks })

SomeNulls == {{x}}
\* b and docs come from one repository, at two commits.
OneRepo   == { [t \in AllTargets |-> IF t \in {b, docs} THEN repo ELSE local] }
=============================================================================

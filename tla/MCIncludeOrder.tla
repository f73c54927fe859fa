--------------------------- MODULE MCIncludeOrder ---------------------------
(* A cycle of two harnesses that a third includes both of, in either order.  *)
EXTENDS IncludeOrder, TLC

CONSTANTS root, x, a, b, local

AllHarnesses == {root, x, a, b}

Inc(h, hooks) == [to |-> h, hooks |-> hooks, pick |-> FALSE]

CycleGraphs ==
  { (root :> <<Inc(x, TRUE)>>) @@ (x :> l) @@ (a :> <<Inc(b, h)>>) @@ (b :> <<Inc(a, k)>>) :
      l \in { <<Inc(a, TRUE), Inc(b, TRUE)>>, <<Inc(b, TRUE), Inc(a, TRUE)>> },
      h \in BOOLEAN, k \in BOOLEAN }

NoNulls  == {{}}
AllLocal == { [t \in AllHarnesses |-> local] }
=============================================================================

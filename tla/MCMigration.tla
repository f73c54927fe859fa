----------------------------- MODULE MCMigration -----------------------------
(* Homes for TLC: a local pointer and a tree from a remote, of one name, and a   *)
(* local tree of another.                                                        *)
EXTENDS Migration, TLC

CONSTANTS ptrFoo, treeFoo, treeBar, foo, bar

SomeInstalls == {ptrFoo, treeFoo, treeBar}
SomeNames == {foo, bar}
SomeNameOf == (ptrFoo :> foo) @@ (treeFoo :> foo) @@ (treeBar :> bar)
SomeLocal == {ptrFoo, treeBar}
SomeHomes == {{ptrFoo, treeFoo}, {treeFoo}, {treeBar}}
SomeTrees == {treeFoo, treeBar}
=============================================================================

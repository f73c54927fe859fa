---------------------------- MODULE MCRepoCache ----------------------------
(* Two processes, an entry of each kind of ref. *)
EXTENDS RepoCache, TLC

CONSTANTS p1, p2, main, pinned, c1, c2

TracksDefault == (main :> "default") @@ (pinned :> "sha")
\* Commits are alike, and entries do not share any: one start is every start.
StartInit == upstream = [e \in Entries |-> c1] /\ Init
StartSpec == StartInit /\ [][Next]_vars /\ \A p \in Callers : WF_vars(Step(p))

TracksMain == main :> "default"
=============================================================================

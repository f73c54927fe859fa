--------------------------- MODULE MCHarnessStore ---------------------------
(* Two remotes of one bare name, and the user's directories for the local one. *)
EXTENDS HarnessStore

CONSTANTS org, fork
RankDef == [r \in Remotes |-> IF r = org THEN 1 ELSE 2]
=============================================================================

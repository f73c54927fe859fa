------------------------- MODULE MCGateFingerprint -------------------------
(* Finite instance of GateFingerprint for TLC. *)
EXTENDS GateFingerprint, MCCheckGate
=============================================================================

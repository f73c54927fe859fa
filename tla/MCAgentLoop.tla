---------------------------- MODULE MCAgentLoop ----------------------------
(* Finite instances of AgentLoop for TLC. *)
EXTENDS AgentLoop, TLC

CONSTANTS gated,     \* a harness with sensors and a convergence verifier
          bare,      \* a harness with neither
          clean, widened, r1, r2, f1, f2

MCHarnesses == {gated, bare}
MCGated     == {gated}
MCResponses == {r1, r2}
MCFindings  == {f1, f2}
MCBaselines == {clean, widened}
Interchangeable == Permutations(MCResponses) \union Permutations(MCFindings)

Flags(interactive, noPlan, maxTurns, harness) ==
  { [interactive |-> i, noPlan |-> p, maxTurns |-> t, harness |-> h] :
      i \in interactive, p \in noPlan, t \in maxTurns, h \in harness }

\* The gated harness named or left to the checkpoint, the default turn cap or
\* one more turn, attended or not, with and without a plan phase.
Sessions ==
  Flags({FALSE}, {TRUE}, {0, 3}, {gated, NoHarness})
    \union Flags({TRUE}, {FALSE}, {0}, {bare})

Attended == Flags({TRUE}, {FALSE}, {0}, {gated})
Both == Flags(BOOLEAN, BOOLEAN, {0}, {gated})
=============================================================================

------------------------------ MODULE MCWorker ------------------------------
\* The worker of a run, with both kinds of backend and the three timeouts in the order of the
\* code (term < delay < grace); and what the run records of itself and its relay.
EXTENDS Worker, Telemetry

VARIABLE part   \* which this behaviour is about

MCKinds == {"session", "perTurn"}

BothInit == part \in {"worker", "telemetry"} /\ Init /\ TelemetryInit
BothNext == part' = part /\ \/ part = "worker" /\ Next /\ UNCHANGED telemetryVars
                            \/ part = "telemetry" /\ TelemetryNext /\ UNCHANGED vars
BothSpec == BothInit /\ [][BothNext]_<<vars, telemetryVars, part>>
=============================================================================

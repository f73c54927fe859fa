-------------------------- MODULE GateFingerprint --------------------------
(* The fingerprint the agent loop keeps of the baseline, to tell whether the  *)
(* ratchet moved while it was not looking (baseline.Fingerprint, taken at     *)
(* internal/agent/loop.go:1049 and compared at loop.go:1158).                 *)
EXTENDS CheckGate

VARIABLE held   \* the fingerprint a run holds, and what was forgiven when it took it

Readable == \A s \in Sensors : file[s] # Unreadable

\* Of each entry: the sensor, its count, whether it is truncated, its findings.
\* The total is not in it.
Fingerprint ==
  { <<s, file[s].count, file[s].truncated, file[s].findings>> : s \in { x \in Sensors : file[x] # Absent } }

\* The failures the files forgive, of all that the sensors may come to.
Forgives ==
  { <<s, o>> \in Sensors \X Outcomes :
      o \in OutcomesOf[s] /\ Fails(o) /\ s \in Commands /\ Forgiven(file[s], s, o) }

Now == [fingerprint |-> Fingerprint, forgives |-> Forgives]

Hold == Readable /\ held' = Now /\ UNCHANGED vars

FingerprintSpec ==
  Init /\ held = Now /\ [][(Next /\ UNCHANGED held) \/ Hold]_<<vars, held>>

\* An unmoved fingerprint means that the same failures are forgiven: "a
\* statement about what is forgiven rather than about when" (baseline.go:668-671).
FingerprintTellsForgiveness ==
  Readable => (Fingerprint = held.fingerprint => Forgives = held.forgives)
=============================================================================

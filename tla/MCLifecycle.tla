----------------------------- MODULE MCLifecycle -----------------------------
(* Small instances of Lifecycle for TLC.                                   *)
EXTENDS LifecycleInvariant

CONSTANTS r1, r2, d1, i1

\* r1 is the child of the Day 0 execution, r2 a run of the API.
MCDeviceOf == [r \in Runs |-> d1]
MCIdOf == [r \in Runs |-> r]
MCChildOf == [n \in 1..MaxStarts |-> r1]

\* An operator approves the drift of the child.
MCDecisions == [r \in Runs |-> IF r = r1 THEN {"approved"} ELSE {}]

Exact == {<<i, i>> : i \in Intents}
=============================================================================

----------------------------- MODULE MCProvision -----------------------------
(* Small instances of Provision for TLC.                                   *)
EXTENDS ProvisionInvariant, TLC

CONSTANTS r1, r2, r3, d1, i1, i2

\* All runs are about one device.
MCDeviceOf == [r \in Runs |-> d1]

\* The API starts r1 and r2 under the id of the device (day1-{d}), one after
\* the other; r3 is a child of Day 0 and has an id of its own
\* (day1-{d}-day0-{d}).
MCIdOf == [r \in Runs |-> IF r = r3 THEN r3 ELSE d1]

\* Operators approve the drift of the runs of the API, and refuse the child's.
MCDecisions == [r \in Runs |-> IF r = r3 THEN {"rejected"} ELSE {"approved"}]

\* Validation tells the versions of the intent apart.
Exact == {<<i, i>> : i \in Intents}

\* Validation looks at interfaces and BGP only: it cannot tell them apart,
\* and a change by hand may escape it too.
Coarse == (Intents \cup {OffIntent}) \X Intents

\* The runs of the API are interchangeable, and so are the versions of the
\* intent.
Interchangeable == Permutations(Runs \ {r3}) \cup Permutations(Intents)
=============================================================================

------------------------- MODULE ProvisionRefinement -------------------------
(***************************************************************************)
(* The mapping under which the pipeline of Provision implements            *)
(* ProvisionPromise: a location of run() becomes the phase it stands for.  *)
(***************************************************************************)
EXTENDS Provision

PhaseAt(l) ==
    IF l = "idle" THEN "queued"
    ELSE IF l \in {"write_awaiting", "parked"} THEN "review"
    ELSE IF l = "write_complete" THEN "accepting"
    ELSE IF l = "write_failed" THEN "refusing"
    ELSE IF l = "done" THEN "closed"
    ELSE "working"

Promise == INSTANCE ProvisionPromise WITH
    phase <- [r \in Runs |-> PhaseAt(pc[r])],
    chosen <- rendered,
    delivered <- [r \in Runs |-> pushed[r] # {}],
    outcome <- result

\* The code keeps the promise: every step of the pipeline, retries, timeouts
\* and stragglers included, is a step of the promise or changes nothing in it.
Promised == Promise!Spec
=============================================================================

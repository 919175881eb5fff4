--------------------------- MODULE ProvisionPromise ---------------------------
(***************************************************************************)
(* What a Day 1 run promises to its caller and to the owner of the router, *)
(* without activities, retries or status writes: a run settles on one      *)
(* version of the intent, only ever delivers that one, accepts only after  *)
(* a delivery, never takes back a refusal, and reports once.               *)
(***************************************************************************)
CONSTANTS Runs, Devices, DeviceOf, Intents, NoIntent, OffIntent

VARIABLES
    phase,     \* queued, working, review, accepting, refusing or closed
    chosen,    \* the version the run settled on
    delivered, \* whether the run has delivered it at least once
    device,    \* the running config of each router
    outcome    \* what was reported: none, success, failure or error

vars == <<phase, chosen, delivered, device, outcome>>

Init ==
    /\ phase = [r \in Runs |-> "queued"]
    /\ chosen = [r \in Runs |-> NoIntent]
    /\ delivered = [r \in Runs |-> FALSE]
    /\ device = [d \in Devices |-> NoIntent]
    /\ outcome = [r \in Runs |-> "none"]

Begin(r) ==
    /\ phase[r] = "queued"
    /\ phase' = [phase EXCEPT ![r] = "working"]
    /\ UNCHANGED <<chosen, delivered, device, outcome>>

Settle(r, i) ==
    /\ phase[r] = "working"
    /\ chosen[r] = NoIntent
    /\ chosen' = [chosen EXCEPT ![r] = i]
    /\ UNCHANGED <<phase, delivered, device, outcome>>

\* A delivery may be partial, and may come long after the run has closed.
Deliver(r, c) ==
    /\ chosen[r] # NoIntent
    /\ c \in {chosen[r], OffIntent}
    /\ device' = [device EXCEPT ![DeviceOf[r]] = c]
    /\ delivered' = [delivered EXCEPT ![r] = TRUE]
    /\ UNCHANGED <<phase, chosen, outcome>>

\* A delivery that is known to have failed.
FailToDeliver(r, c) ==
    /\ phase[r] = "working"
    /\ chosen[r] # NoIntent
    /\ c \in {chosen[r], OffIntent, device[DeviceOf[r]]}
    /\ device' = [device EXCEPT ![DeviceOf[r]] = c]
    /\ delivered' = [delivered EXCEPT ![r] = TRUE]
    /\ phase' = [phase EXCEPT ![r] = "refusing"]
    /\ UNCHANGED <<chosen, outcome>>

AskHuman(r) ==
    /\ phase[r] = "working"
    /\ delivered[r]
    /\ phase' = [phase EXCEPT ![r] = "review"]
    /\ UNCHANGED <<chosen, delivered, device, outcome>>

Accept(r) ==
    /\ phase[r] \in {"working", "review"}
    /\ delivered[r]
    /\ phase' = [phase EXCEPT ![r] = "accepting"]
    /\ UNCHANGED <<chosen, delivered, device, outcome>>

Refuse(r) ==
    /\ phase[r] \in {"working", "review", "accepting"}
    /\ phase' = [phase EXCEPT ![r] = "refusing"]
    /\ UNCHANGED <<chosen, delivered, device, outcome>>

\* Success closes an accepted run; a refused run, or one nobody reviewed,
\* closes with a failure or without a report.
Close(r, o) ==
    /\ \/ phase[r] = "accepting" /\ o = "success"
       \/ phase[r] = "refusing" /\ o \in {"failure", "error"}
       \/ phase[r] = "review" /\ o = "error"
    /\ phase' = [phase EXCEPT ![r] = "closed"]
    /\ outcome' = [outcome EXCEPT ![r] = o]
    /\ UNCHANGED <<chosen, delivered, device>>

ChangeByHand(d) ==
    /\ device' = [device EXCEPT ![d] = OffIntent]
    /\ UNCHANGED <<phase, chosen, delivered, outcome>>

Next ==
    \/ \E r \in Runs :
          \/ Begin(r) \/ AskHuman(r) \/ Accept(r) \/ Refuse(r)
          \/ \E i \in Intents : Settle(r, i)
          \/ \E c \in {chosen[r], OffIntent} : Deliver(r, c)
          \/ \E c \in {chosen[r], OffIntent, device[DeviceOf[r]]} :
                FailToDeliver(r, c)
          \/ \E o \in {"success", "failure", "error"} : Close(r, o)
    \/ \E d \in Devices : ChangeByHand(d)

Spec == Init /\ [][Next]_vars
=============================================================================

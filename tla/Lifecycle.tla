------------------------------ MODULE Lifecycle ------------------------------
(***************************************************************************)
(* One device from the box to operation: the Day 0 executions that the     *)
(* webhook and the API start under day0-{device}, the Day 1 child that     *)
(* each of them starts under day1-{device}-day0-{device}, and the Day 1    *)
(* runs that the API starts beside them under day1-{device}.               *)
(*                                                                         *)
(* The Day 1 runs are the runs of Provision, the Day 0 executions take the *)
(* actions of Bootstrap.  They share the record and the intent in Nautobot *)
(* and the router: what is not up can be neither configured nor validated. *)
(***************************************************************************)
EXTENDS ProvisionRefinement

CONSTANTS
    Device,       \* the device
    ChildOf,      \* the Day 1 run that each Day 0 execution starts
    Torn,         \* as in Bootstrap
    BootAttempts, \* _RETRY_STANDARD.maximum_attempts of Day 0
    MaxStarts     \* bound: Day 0 executions

ASSUME LifecycleAssumption ==
    /\ Devices = {Device}
    /\ {BootAttempts, MaxStarts} \subseteq Nat \ {0}
    /\ MaxStragglers \in Nat
    /\ Torn \notin Intents \cup {NoIntent}
    /\ ChildOf \in [1..MaxStarts -> Runs]
    /\ \A m, n \in 1..MaxStarts : ChildOf[m] = ChildOf[n] => m = n
    /\ Runs \cap 1..MaxStarts = {}

VARIABLES
    loc0, attempt0, starts, hasMac, intent0, result0,
    reserved, published, router, probing,
    children, late0, wroteLate0, servedLate

\* Day 0 apart from the router, which Day 1 configures, and from what
\* Provision owns.
dayZero == <<loc0, attempt0, starts, hasMac, intent0, result0, reserved,
             published, probing, children, late0, wroteLate0, servedLate>>
dayOne == <<pc, attempt, local, approval, result, device, stragglers,
            history>>
lifeVars == <<vars, dayZero, router>>

-----------------------------------------------------------------------------
(* What Day 0 sees of the record: the execution that wrote it, itself or by  *)
(* its child, and 0 for the runs of the API.                                 *)

Child == ChildOf[starts]
ChildRuns == {ChildOf[n] : n \in 1..MaxStarts}

Says(status) ==
    IF Stage(status) \in 1..4 THEN "PROVISIONING" ELSE status

Writers(by) == {n \in 1..MaxStarts : by = {n} \/ by = {ChildOf[n]}}

Shown(rec) ==
    [says  |-> Says(rec.status),
     by    |-> IF Writers(rec.by) = {} THEN 0
               ELSE CHOOSE n \in Writers(rec.by) : TRUE,
     child |-> \E n \in Writers(rec.by) : rec.by = {ChildOf[n]}]

Record == Shown(nbStatus[Device])

DayZero == INSTANCE Bootstrap WITH
    None <- NoIntent, Attempts <- BootAttempts, MaxLate <- MaxStragglers,
    loc <- loc0, attempt <- attempt0, intent <- intent0, result <- result0,
    nbIntent <- nbIntent[Device], status <- Record,
    late <- late0, wroteLate <- wroteLate0

Open0 == DayZero!Open

\* One bound for the timed-out attempts of both phases.
FewLate == Cardinality(late0) + Cardinality(stragglers) <= MaxStragglers

LifeInit ==
    /\ Init
    /\ loc0 = "idle" /\ attempt0 = 1 /\ starts = 0 /\ hasMac = FALSE
    /\ intent0 = NoIntent /\ result0 = "none"
    /\ reserved = FALSE /\ published = NoIntent /\ router = NoIntent
    /\ probing = FALSE /\ children = {} /\ late0 = {}
    /\ wroteLate0 = {} /\ servedLate = {}

-----------------------------------------------------------------------------
(* Steps of Day 0.                                                         *)

DayZeroPatch(l, n) ==
    nbStatus' = [nbStatus EXCEPT ![Device] =
                    [status |-> DayZero!StatusAt[l], by |-> {n}]]

DayZeroWrites ==
    /\ loc0 \in DayZero!WriteLocs
    /\ DayZeroPatch(loc0, starts)
    /\ UNCHANGED <<dayOne, nbIntent>>
    /\ DayZero!WriteCompletes

\* The other awaits of run() up to the hand-off, and the attempts that fail.
DayZeroActs ==
    /\ UNCHANGED <<dayOne, nautobot>>
    /\ \/ DayZero!FetchCompletes \/ DayZero!DhcpCompletes
       \/ DayZero!RenderCompletes \/ DayZero!PublishCompletes
       \/ DayZero!DeviceChecksIn \/ DayZero!WaitTimesOut
       \/ DayZero!AttemptFails \/ DayZero!PublishBreaksOff
       \/ DayZero!AttemptTimesOut /\ FewLate'

LateZeroEffect(a) ==
    /\ IF a.at \in DayZero!WriteLocs
       THEN DayZeroPatch(a.at, a.by) \/ UNCHANGED nbStatus
       ELSE UNCHANGED nbStatus
    /\ UNCHANGED <<dayOne, nbIntent>>
    /\ DayZero!LateEffect(a)

\* Mutant of ChildAnswers: the child is started and not awaited.
ChildUnawaited ==
    /\ loc0 = "day1" /\ pc[Child] # "idle"
    /\ DayZero!Goto("done")
    /\ result0' = "success"

\* The parent learns how its child has closed: it returns, or raises an
\* ApplicationError into its handler, or fails with ChildWorkflowError.
ChildAnswers ==
    /\ loc0 = "day1" /\ pc[Child] = "done"
    /\ IF result[Child] = "failure"
       THEN DayZero!Goto("write_failed") /\ UNCHANGED result0
       ELSE DayZero!Goto("done") /\ result0' = result[Child]

HandoffEnds ==
    /\ ChildAnswers
    /\ UNCHANGED <<vars, starts, hasMac, intent0, reserved, published, router,
                   children, late0, wroteLate0, servedLate>>

\* Temporal refuses a Day 0 execution while one is open under its id.
DayZeroStarts(mac) == UNCHANGED <<dayOne, nautobot>> /\ DayZero!Start(mac)

-----------------------------------------------------------------------------
(* Steps of Day 1.                                                         *)

\* A router that is not up is neither configured nor validated, and one that
\* is given a whole config has the management address in it.
AtRouter ==
    /\ router = NoIntent => device' = device /\ verdict' = verdict
    /\ router' = IF device' = device \/ device'[Device] \notin Intents
                 THEN router ELSE device'[Device]

\* A child is started by its parent, other runs by the API.
DayOneStarts(r) ==
    /\ r \in ChildRuns => loc0 = "day1" /\ Child = r
    /\ Start(r)
    /\ UNCHANGED <<dayZero, router>>

DayOneAdvances(r) == Advance(r) /\ AtRouter /\ UNCHANGED dayZero /\ FewLate'

-----------------------------------------------------------------------------
(* The surroundings.                                                       *)

\* What happens to the device at the site: it boots, somebody changes it by
\* hand while it is up, and it is wiped.
AtSite ==
    \/ /\ router # NoIntent /\ ChangedByHand(Device)
       /\ UNCHANGED <<dayZero, router>>
    \/ UNCHANGED <<dayOne, nautobot>> /\ DayZero!RouterBoots
    \/ /\ device' = [device EXCEPT ![Device] = NoIntent]
       /\ UNCHANGED <<pc, attempt, local, approval, result, stragglers,
                      history, nautobot>>
       /\ DayZero!RouterWiped

WorkersGo ==
    /\ UNCHANGED <<dayOne, nautobot>>
    /\ DayZero!WorkerRestarts \/ DayZero!WorkerStops

LifeNext ==
    \/ DayZeroWrites \/ DayZeroActs \/ HandoffEnds
    \/ \E mac \in BOOLEAN : DayZeroStarts(mac)
    \/ \E a \in late0 : LateZeroEffect(a)
    \/ \E r \in Runs :
          \/ DayOneStarts(r) \/ DayOneAdvances(r)
          \/ \E choice \in Decisions[r] :
                Signal(r, choice) /\ UNCHANGED <<dayZero, router>>
    \/ \E s \in stragglers : StragglerLands(s) /\ AtRouter /\ UNCHANGED dayZero
    \/ \E i \in Intents :
          IntentEdited(Device, i) /\ UNCHANGED <<dayZero, router>>
    \/ AtSite \/ WorkersGo

LifeSpec == LifeInit /\ [][LifeNext]_lifeVars

\* Workers keep polling, every attempt has a timeout, the timers are durable,
\* and Temporal starts a child it has accepted.  Nobody has to start Day 0 or a
\* run of the API, to signal, or to let a late effect happen.
LifeFairness ==
    /\ WF_lifeVars(DayZeroWrites \/ DayZeroActs \/ HandoffEnds)
    /\ \A r \in ChildRuns : WF_lifeVars(DayOneStarts(r))
    /\ \A r \in Runs : WF_lifeVars(DayOneAdvances(r))

FairLifeSpec == LifeSpec /\ LifeFairness

-----------------------------------------------------------------------------
(* What must hold.                                                         *)

\* Once its child has closed, an execution that has not heard of it yet is
\* seen where the answer is going to take it.
Answered == loc0 = "day1" /\ pc[Child] = "done"

SeenLoc ==
    IF ~Answered THEN loc0
    ELSE IF result[Child] = "failure" THEN "write_failed" ELSE "done"

SeenResult ==
    IF Answered /\ result[Child] # "failure" THEN result[Child] ELSE result0

\* A write that a child lands late counts as one of its parent.
SeenLate == wroteLate0 \cup {n \in children : ChildOf[n] \in straggled}

Seen == INSTANCE Bootstrap WITH
    None <- NoIntent, Attempts <- BootAttempts, MaxLate <- MaxStragglers,
    loc <- SeenLoc, attempt <- attempt0, intent <- intent0,
    result <- SeenResult, nbIntent <- nbIntent[Device], status <- Record,
    late <- late0, wroteLate <- SeenLate

\* With the runs of Provision in the place of its child, and the runs of the
\* API beside it, Day 0 behaves as Bootstrap says: what Bootstrap assumes of
\* Day 1 is what Day 1 does (bootstrap_device.py lines 22 to 26).
ImplementsBootstrap == Seen!Spec

\* The record says COMPLETE only on the word of a run that has configured the
\* router and whose validation passed, or whose drift was approved, whoever
\* else writes the record, and when (models.py line 32).
CompleteIsEarned ==
    nbStatus[Device].status = "COMPLETE" =>
        \E r \in Runs :
            /\ nbStatus[Device].by = {r}
            /\ pushed[r] # {}
            /\ verdict[r] = "passed" \/ decision[r] = "approved"

\* When everything that was started has closed with a report, the record is
\* final: no interleaving of Day 0, its child and the runs of the API leaves a
\* stage of the middle behind, late writes aside.
QuietRecordIsFinal ==
    /\ ~Open0 /\ \A r \in Runs : ~Open(r)
    /\ result0 # "error" /\ \A r \in Runs : result[r] # "error"
    /\ wroteLate0 = {} /\ straggled = {}
    => nbStatus[Device].status \in {"QUEUED", "COMPLETE", "FAILED"}

\* The order of the stages over both phases, models.py lines 22 to 38.
LifeStage(status) ==
    CASE status = "QUEUED" -> 0
      [] status = "BOOTSTRAP_STARTED" -> 1
      [] status = "DHCP_RESERVED" -> 2
      [] status = "BOOTSTRAP_SCRIPT_READY" -> 3
      [] status = "AWAITING_DEVICE_CHECKIN" -> 4
      [] status = "BOOTSTRAP_COMPLETE" -> 5
      [] OTHER -> 5 + Stage(status)

\* While nobody but one Day 0 execution and its child writes the record, the
\* stage shown there only moves forward over both phases, except when a
\* timed-out write lands.
LifecycleMovesForward ==
    [][LET old == nbStatus[Device] new == nbStatus'[Device] IN
       /\ \E n \in 1..MaxStarts :
             {old.by, new.by} \subseteq {{n}, {ChildOf[n]}}
       /\ late0 \subseteq late0' /\ stragglers \subseteq stragglers'
       => LifeStage(old.status) <= LifeStage(new.status)]_lifeVars

\* Every Day 0 execution ends, and so does every Day 1 run: the parent waits
\* for its child only.
LifecycleEnds ==
    /\ Open0 ~> ~Open0
    /\ \A r \in Runs : pc[r] # "idle" ~> pc[r] = "done"

=============================================================================

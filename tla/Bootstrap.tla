------------------------------ MODULE Bootstrap ------------------------------
(***************************************************************************)
(* BootstrapDeviceWorkflow (temporal/workflows/bootstrap_device.py), Day 0 *)
(* of one device: reserve its address, publish its script, wait until it   *)
(* has booted into it, and run Day 1 as a child workflow.                  *)
(*                                                                         *)
(* Executions for the device share the id day0-{device}, so they follow    *)
(* each other; what one leaves behind (the reservation, the script, the    *)
(* router, attempts still under way) the next one finds.  The child is     *)
(* what ProvisionPromise says of a Day 1 run; module Lifecycle puts the    *)
(* runs of Provision in its place.                                         *)
(***************************************************************************)
EXTENDS Integers, FiniteSets

CONSTANTS
    Intents,       \* versions of the intent; each has a management address
    None,          \* nothing fetched, nothing published, a factory router
    Torn,          \* a script that was opened for writing and not written
    Attempts,      \* _RETRY_STANDARD.maximum_attempts
    WriteAttempts, \* _RETRY_WRITE_STATUS.maximum_attempts
    MaxStarts,     \* bound: executions
    MaxLate        \* bound: timed-out attempts under way at one time

ASSUME BootstrapAssumption ==
    /\ None \notin Intents /\ Torn \notin Intents /\ Torn # None
    /\ {Attempts, WriteAttempts, MaxStarts} \subseteq Nat \ {0}
    /\ MaxLate \in Nat

VARIABLES
    loc,       \* the await the current execution is at, "idle" or "done"
    attempt,   \* number of the attempt in progress
    starts,    \* executions so far; names the current one
    hasMac,    \* whether input.mac_address is the address of the device
    intent,    \* local intent, and what script is rendered from
    result,    \* what the current execution ended with
    nbIntent,  \* Nautobot: the current version of the intent
    status,    \* Nautobot: the status and the execution that wrote it
    reserved,  \* DHCP: there is a reservation for the device's address
    published, \* the version of the script on the file server
    router,    \* the version whose management address the router has
    probing,   \* whether the thread that probes the router is alive
    children,  \* the executions that have started their Day 1 child
    late,      \* timed-out attempts still under way
    wroteLate, \* history: executions a status of which, or of whose child,
               \* was written late
    servedLate \* history: executions whose script was published late, since
               \* the current one published its own

outside == <<nbIntent, status, reserved, published, router>>
traces == <<children, late, wroteLate, servedLate>>
vars == <<loc, attempt, starts, hasMac, intent, result, outside, probing,
          traces>>

-----------------------------------------------------------------------------
\* The awaits of run() in their order, and what the writes among them say.
StatusAt ==
    [write_started      |-> "BOOTSTRAP_STARTED",
     write_reserved     |-> "DHCP_RESERVED",
     write_ready        |-> "BOOTSTRAP_SCRIPT_READY",
     write_awaiting     |-> "AWAITING_DEVICE_CHECKIN",
     write_bootstrapped |-> "BOOTSTRAP_COMPLETE",
     write_failed       |-> "FAILED"]

WriteLocs == DOMAIN StatusAt

After ==
    [write_started      |-> "fetch",
     fetch              |-> "dhcp",
     dhcp               |-> "write_reserved",
     write_reserved     |-> "render",
     render             |-> "publish",
     publish            |-> "write_ready",
     write_ready        |-> "write_awaiting",
     write_awaiting     |-> "wait",
     wait               |-> "write_bootstrapped",
     write_bootstrapped |-> "day1",
     write_failed       |-> "done"]

Activities == DOMAIN After
Effects == WriteLocs \cup {"dhcp", "publish"}

\* PROVISIONING stands for every status of a Day 1 run but the last.
DayOneStatuses == {"PROVISIONING", "COMPLETE", "FAILED"}

\* wait_for_device_reachability has a single attempt of 8 hours.
Limit(l) == IF l \in WriteLocs THEN WriteAttempts
            ELSE IF l = "wait" THEN 1 ELSE Attempts

Open == loc \notin {"idle", "done"}

Init ==
    /\ loc = "idle" /\ attempt = 1 /\ starts = 0 /\ hasMac = FALSE
    /\ intent = None /\ result = "none"
    /\ nbIntent \in Intents
    /\ status = [says |-> "QUEUED", by |-> 0, child |-> FALSE]
    /\ reserved = FALSE /\ published = None /\ router = None
    /\ probing = FALSE
    /\ children = {} /\ late = {} /\ wroteLate = {} /\ servedLate = {}

Goto(l) == loc' = l /\ attempt' = 1 /\ probing' = (l = "wait")

-----------------------------------------------------------------------------
(* run().                                                                  *)

\* The Nautobot webhook knows the MAC address, the API passes an empty one.
\* Temporal refuses either while an execution is open.
Start(mac) ==
    /\ ~Open
    /\ starts < MaxStarts
    /\ starts' = starts + 1
    /\ hasMac' = mac
    /\ intent' = None
    /\ result' = "none"
    /\ Goto("write_started")
    /\ UNCHANGED <<outside, traces>>

Patch(l, execution) ==
    status' = [says |-> StatusAt[l], by |-> execution, child |-> FALSE]

\* The handler returns a failure once FAILED is written.
WriteCompletes ==
    /\ loc \in WriteLocs
    /\ Patch(loc, starts)
    /\ result' = IF loc = "write_failed" THEN "failure" ELSE result
    /\ children' = IF loc = "write_bootstrapped" THEN children \cup {starts}
                                                 ELSE children
    /\ Goto(After[loc])
    /\ UNCHANGED <<starts, hasMac, intent, nbIntent, reserved, published,
                   router, late, wroteLate, servedLate>>

FetchCompletes ==
    /\ loc = "fetch"
    /\ intent' = nbIntent
    /\ Goto(After[loc])
    /\ UNCHANGED <<starts, hasMac, result, outside, traces>>

\* A reservation is keyed on the MAC address: one for the empty address is no
\* reservation of the device.
Reserve(mac) == reserved' = (reserved \/ mac)

DhcpCompletes ==
    /\ loc = "dhcp"
    /\ Reserve(hasMac)
    /\ Goto(After[loc])
    /\ UNCHANGED <<starts, hasMac, intent, result, nbIntent, status,
                   published, router, traces>>

RenderCompletes ==
    /\ loc = "render"
    /\ Goto(After[loc])
    /\ UNCHANGED <<starts, hasMac, intent, result, outside, traces>>

\* Mutant of Publish: the script is rendered anew from the current intent.
PublishLatest(version) == published' = nbIntent

\* open(script_path, "w") truncates what is there before write() fills it.
Publish(version) == published' = version

PublishCompletes ==
    /\ loc = "publish"
    /\ Publish(intent)
    /\ servedLate' = {}
    /\ Goto(After[loc])
    /\ UNCHANGED <<starts, hasMac, intent, result, nbIntent, status, reserved,
                   router, children, late, wroteLate>>

\* The router is up at the management address in the fetched intent.
RouterIsUp == router = intent

\* The probe connects to port 22 of that address.  Whatever listens there will
\* do: the router, or another device that has its address.
DeviceChecksIn ==
    /\ loc = "wait"
    /\ probing
    /\ Goto(After[loc])
    /\ UNCHANGED <<starts, hasMac, intent, result, outside, traces>>

-----------------------------------------------------------------------------
(* Attempts that do not complete.                                          *)

\* Mutants of AttemptEnds: one attempt too many; attempts without end.
AttemptEndsOneLater ==
    IF attempt <= Limit(loc)
    THEN attempt' = attempt + 1 /\ UNCHANGED <<loc, result, probing>>
    ELSE Goto("write_failed") /\ UNCHANGED result

AttemptEndsUncounted == UNCHANGED <<loc, attempt, result, probing>>

\* The last attempt of an await in the try block leads to the handler; that
\* of the write in the handler fails the execution.
AttemptEnds ==
    IF attempt < Limit(loc)
    THEN attempt' = attempt + 1 /\ UNCHANGED <<loc, result, probing>>
    ELSE IF loc = "write_failed"
    THEN Goto("done") /\ result' = "error"
    ELSE Goto("write_failed") /\ UNCHANGED result

AttemptFails ==
    /\ loc \in Activities \ {"wait"}
    /\ AttemptEnds
    /\ UNCHANGED <<starts, hasMac, intent, outside, traces>>

\* The worker dies, or the disk is full, between open() and write().
PublishBreaksOff ==
    /\ loc = "publish"
    /\ Publish(Torn)
    /\ AttemptEnds
    /\ UNCHANGED <<starts, hasMac, intent, nbIntent, status, reserved, router,
                   traces>>

\* The worker is stopped: it is given no graceful_shutdown_timeout, so the
\* SDK cancels the activities in flight, and the one attempt has failed.
WorkerStops ==
    /\ loc = "wait" /\ probing
    /\ AttemptEnds
    /\ UNCHANGED <<starts, hasMac, intent, outside, traces>>

AttemptTimesOut ==
    /\ loc \in Effects
    /\ Cardinality(late) < MaxLate
    /\ late' = late \cup {[at |-> loc, by |-> starts, mac |-> hasMac,
                           version |-> intent]}
    /\ AttemptEnds
    /\ UNCHANGED <<starts, hasMac, intent, outside, children, wroteLate,
                   servedLate>>

\* The call of a timed-out attempt takes effect after all, maybe during a
\* later execution, or comes to nothing.
LateEffect(a) ==
    /\ late' = late \ {a}
    /\ \/ /\ a.at \in WriteLocs
          /\ Patch(a.at, a.by)
          /\ wroteLate' = wroteLate \cup {a.by}
          /\ UNCHANGED <<reserved, published, servedLate>>
       \/ /\ a.at = "dhcp"
          /\ Reserve(a.mac)
          /\ UNCHANGED <<status, published, wroteLate, servedLate>>
       \/ /\ a.at = "publish"
          /\ Publish(a.version) \/ Publish(Torn)
          /\ servedLate' = servedLate \cup {a.by}
          /\ UNCHANGED <<status, reserved, wroteLate>>
       \/ UNCHANGED <<status, reserved, published, wroteLate, servedLate>>
    /\ UNCHANGED <<loc, attempt, starts, hasMac, intent, result, nbIntent,
                   router, probing, children>>

\* The worker is killed and restarts: the probing thread is gone, and without
\* a heartbeat the server only notices when the attempt times out.
WorkerRestarts ==
    /\ loc = "wait" /\ probing
    /\ probing' = FALSE
    /\ UNCHANGED <<loc, attempt, starts, hasMac, intent, result, outside,
                   traces>>

\* The 8 hours are over.  A probe that is alive would have seen a router that
\* is up.
WaitTimesOut ==
    /\ loc = "wait"
    /\ ~(probing /\ RouterIsUp)
    /\ AttemptEnds
    /\ UNCHANGED <<starts, hasMac, intent, outside, traces>>

-----------------------------------------------------------------------------
(* The child workflow and the surroundings.                                *)

\* The Day 1 child of an execution writes the record as it goes.
DayOneWrites(n, says) ==
    status' = [says |-> says, by |-> n, child |-> TRUE]

DayOneProceeds ==
    /\ loc = "day1"
    /\ DayOneWrites(starts, "PROVISIONING")
    /\ UNCHANGED <<loc, attempt, starts, hasMac, intent, result, nbIntent,
                   reserved, published, router, probing, traces>>

\* A timed-out write of a child lands, maybe long after the child has closed.
DayOneWritesLate(n) ==
    /\ n \in children
    /\ \E says \in DayOneStatuses : DayOneWrites(n, says)
    /\ wroteLate' = wroteLate \cup {n}
    /\ UNCHANGED <<loc, attempt, starts, hasMac, intent, result, nbIntent,
                   reserved, published, router, probing, children, late,
                   servedLate>>

\* A Day 1 run that the API started, under an id of its own, writes the record.
OtherRunWrites ==
    /\ \E says \in DayOneStatuses :
          status' = [says |-> says, by |-> 0, child |-> FALSE]
    /\ UNCHANGED <<loc, attempt, starts, hasMac, intent, result, nbIntent,
                   reserved, published, router, probing, traces>>

\* A Day 1 run, the child or another one, configures a router that is up, for
\* the version of the intent that it fetched by itself.
DayOneConfigures(i) ==
    /\ router # None
    /\ router' = i
    /\ UNCHANGED <<loc, attempt, starts, hasMac, intent, result, nbIntent,
                   status, reserved, published, probing, traces>>

\* Mutant of DayOneReports: day1_result.success is not looked at.
DayOneIgnored(success) ==
    /\ loc = "day1"
    /\ DayOneWrites(starts, IF success THEN "COMPLETE" ELSE "FAILED")
    /\ Goto("done") /\ result' = "success"
    /\ UNCHANGED <<starts, hasMac, intent, nbIntent, reserved, published,
                   router, traces>>

\* It reports success after COMPLETE, or failure after FAILED, which raises
\* an ApplicationError here.
DayOneReports(success) ==
    /\ loc = "day1"
    /\ DayOneWrites(starts, IF success THEN "COMPLETE" ELSE "FAILED")
    /\ IF success
       THEN Goto("done") /\ result' = "success"
       ELSE Goto("write_failed") /\ UNCHANGED result
    /\ UNCHANGED <<starts, hasMac, intent, nbIntent, reserved, published,
                   router, traces>>

\* Its execution fails: ChildWorkflowError is neither an ApplicationError nor
\* an ActivityError, so this execution fails too.
DayOneFails ==
    /\ loc = "day1"
    /\ Goto("done")
    /\ result' = "error"
    /\ UNCHANGED <<starts, hasMac, intent, outside, traces>>

IntentEdited(i) ==
    /\ nbIntent' = i
    /\ UNCHANGED <<loc, attempt, starts, hasMac, intent, result, status,
                   reserved, published, router, probing, traces>>

\* A factory router is powered on: it gets its reserved lease and runs the
\* script it finds there, if there is a whole one.
RouterBoots ==
    /\ router = None
    /\ reserved /\ published \in Intents
    /\ router' = published
    /\ UNCHANGED <<loc, attempt, starts, hasMac, intent, result, nbIntent,
                   status, reserved, published, probing, traces>>

\* It is wiped, or replaced by another one.
RouterWiped ==
    /\ router # None
    /\ router' = None
    /\ UNCHANGED <<loc, attempt, starts, hasMac, intent, result, nbIntent,
                   status, reserved, published, probing, traces>>

Run == \/ WriteCompletes \/ FetchCompletes \/ DhcpCompletes
       \/ RenderCompletes \/ PublishCompletes \/ DeviceChecksIn
       \/ AttemptFails \/ PublishBreaksOff \/ AttemptTimesOut \/ WaitTimesOut
       \/ \E success \in BOOLEAN : DayOneReports(success)
       \/ DayOneFails

Next ==
    \/ Run \/ WorkerRestarts \/ WorkerStops \/ DayOneProceeds
    \/ \E mac \in BOOLEAN : Start(mac)
    \/ \E a \in late : LateEffect(a)
    \/ \E n \in children : DayOneWritesLate(n)
    \/ OtherRunWrites
    \/ \E i \in Intents : DayOneConfigures(i) \/ IntentEdited(i)
    \/ RouterBoots \/ RouterWiped

\* Attempts and the child end; nobody has to rack or to power the router.
Fairness == WF_vars(Run)

Spec == Init /\ [][Next]_vars
FairSpec == Spec /\ Fairness

-----------------------------------------------------------------------------
(* What must hold.                                                         *)

\* The type invariant of the locals of run(), of the record, and of the DHCP
\* server, file server and router.
TypeOK ==
    /\ loc \in Activities \cup {"idle", "day1", "done"}
    /\ attempt \in 1..(IF loc \in Activities THEN Limit(loc) ELSE 1)
    /\ starts \in 0..MaxStarts
    /\ hasMac \in BOOLEAN /\ reserved \in BOOLEAN /\ probing \in BOOLEAN
    /\ intent \in Intents \cup {None} /\ router \in Intents \cup {None}
    /\ published \in Intents \cup {None, Torn}
    /\ nbIntent \in Intents
    /\ result \in {"none", "success", "failure", "error"}
    /\ status \in [says : {StatusAt[l] : l \in WriteLocs} \cup DayOneStatuses
                            \cup {"QUEUED"},
                   by : 0..MaxStarts, child : BOOLEAN]
    /\ late \subseteq [at : Effects, by : 1..MaxStarts, mac : BOOLEAN,
                       version : Intents \cup {None}]
    /\ children \cup wroteLate \cup servedLate \subseteq 1..MaxStarts

\* While an execution awaits the device, the file server has the script of the
\* intent that this execution fetched, whatever was published before, by
\* attempts that broke off and by earlier executions with other intents
\* (publish_bootstrap_script: "must be accessible at script.script_url before
\* the device boots").  Only an attempt that timed out can take it away when it
\* lands after the publication: one of this execution by breaking off in the
\* middle of the file, one of an earlier execution by bringing back its script.
ReadyBeforeCheckin ==
    loc = "wait" =>
        /\ intent # None
        /\ servedLate = {} => published = intent
        /\ servedLate \subseteq {starts} => published \in {intent, Torn}

\* What an execution reports is what the record says, late writes of its own
\* and of its child aside: COMPLETE by the child, FAILED by itself; one that
\* fails leaves no COMPLETE behind.
ReportedIsRecorded ==
    status.by = starts /\ starts \notin wroteLate =>
        /\ result = "success" => status.says = "COMPLETE"
        /\ result = "failure" => status.says = "FAILED" /\ ~status.child
        /\ result = "error" => status.says # "COMPLETE"

\* A device that nobody racks does not hold the execution open for ever.
BootstrapEnds == Open ~> ~Open

-----------------------------------------------------------------------------
(* Why the invariants hold: with these parts added they are inductive.     *)

Fetched == {"dhcp", "write_reserved", "render", "publish", "write_ready",
            "write_awaiting", "wait", "write_bootstrapped", "day1"}
Served == {"write_ready", "write_awaiting", "wait", "write_bootstrapped",
           "day1"}

\* Only executions that have been started have left something behind.
NamesInv ==
    /\ loc = "idle" <=> starts = 0
    /\ status.by \in 0..starts
    /\ \A a \in late : a.by \in 1..starts
    /\ children \cup servedLate \subseteq 1..starts

\* What run() has by the time it has passed an await.
LocalInv == loc \in Fetched => intent \in Intents

\* The script of this execution is served from its publication on, and what
\* may still land of its own attempts is the same script.
ServedInv ==
    /\ loc \in Served =>
          /\ servedLate = {} => published = intent
          /\ servedLate \subseteq {starts} => published \in {intent, Torn}
    /\ \A a \in late : a.at = "publish" /\ a.by = starts =>
          /\ loc \notin {"write_started", "fetch"}
          /\ a.version = intent

\* An execution that is open has reported nothing, and has not been recorded
\* as complete.
OpenInv ==
    /\ loc # "done" => result = "none"
    /\ Open /\ status.by = starts /\ starts \notin wroteLate =>
          status.says # "COMPLETE"

IInv ==
    /\ TypeOK /\ NamesInv /\ LocalInv /\ ServedInv /\ OpenInv
    /\ ReadyBeforeCheckin /\ ReportedIsRecorded

-----------------------------------------------------------------------------
(* What the repository says, and the code does not do.                     *)

\* README, "Temporal for Durable Execution": the workflow resumes the instant
\* the device checks in, even if the worker restarted in between.
CheckinIsNotLost ==
    [][loc = "wait" /\ RouterIsUp => loc' # "write_failed"]_vars

=============================================================================

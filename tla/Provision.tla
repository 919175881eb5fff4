------------------------------ MODULE Provision ------------------------------
(***************************************************************************)
(* ProvisionSiteWorkflow (temporal/workflows/provision_site.py), the Day 1 *)
(* pipeline, together with what it acts on: the Nautobot device record     *)
(* (intent, ztp_provisioning_status, ztp_workflow_id) and the router.      *)
(*                                                                         *)
(* Several runs may be started, for the same device or not.  Every await   *)
(* of an activity is a control location; at each one the attempt in        *)
(* progress may complete, fail, or time out with its thread still running, *)
(* in which case its effect may land at any later moment (a STRAGGLER).    *)
(* Meanwhile operators signal, engineers edit intent in Nautobot and       *)
(* somebody may change the router by hand.                                 *)
(***************************************************************************)
EXTENDS Integers, FiniteSets

CONSTANTS
    Runs,             \* workflow executions of ProvisionSiteWorkflow
    Devices,          \* Nautobot device ids
    DeviceOf,         \* [Runs -> Devices]: ProvisionSiteInput.device_id
    IdOf,             \* the Temporal workflow id each run is started under
    Intents,          \* versions of a device's intent; also names its config
    NoIntent,         \* nothing fetched, nothing rendered, factory router
    OffIntent,        \* a running config that renders no version of intent
    Meets,            \* <<config, intent>>: validation can find no drift
    FetchAttempts,    \* _RETRY_FETCH_INTENT.maximum_attempts, render as well
    PushAttempts,     \* _RETRY_PUSH_CONFIG.maximum_attempts
    ValidateAttempts, \* _RETRY_VALIDATE.maximum_attempts
    WriteAttempts,    \* _RETRY_WRITE_STATUS.maximum_attempts
    WaitReturnsBool,  \* FALSE: wait_condition of the pinned SDK (returns
                      \* None, raises TimeoutError); TRUE: the contract that
                      \* the comment above the call states
    Decisions,        \* bound: what operators signal to each run
    MaxStragglers,    \* bound: timed-out attempts still running at one time
    MaxStarted        \* bound: executions started

ASSUME ConstantsAssumption ==
    /\ DeviceOf \in [Runs -> Devices]
    /\ NoIntent \notin Intents /\ OffIntent \notin Intents
    /\ OffIntent # NoIntent
    /\ {FetchAttempts, PushAttempts, ValidateAttempts, WriteAttempts}
         \subseteq Nat \ {0}
    /\ WaitReturnsBool \in BOOLEAN
    /\ Decisions \in [Runs -> SUBSET {"approved", "rejected"}]
    /\ MaxStarted \in Nat

VARIABLES
    pc,          \* where each run is: the activity it awaits
    attempt,     \* number of the attempt in progress, from 1
    intent,      \* local intent of run()
    rendered,    \* local rendered: the intent version it was rendered from
    verdict,     \* local validation: "none", "passed" or "drift"
    approval,    \* self._approval_decision
    decision,    \* local decision, read when the wait ends
    result,      \* what the execution ended with
    nbIntent,    \* Nautobot: the intent of each device
    nbStatus,    \* Nautobot: the status of each device and who wrote it
    device,      \* the running config of each router
    stragglers,  \* timed-out attempts whose thread still runs
    pushed,      \* history: the configs each run has put on its device
    straggled,   \* history: the runs one of whose status writes landed late
    latePushed   \* history: the runs one of whose pushes landed late

local == <<intent, rendered, verdict, decision>>
nautobot == <<nbIntent, nbStatus>>
history == <<pushed, straggled, latePushed>>
vars == <<pc, attempt, local, approval, result, nautobot, device,
                   stragglers, history>>

-----------------------------------------------------------------------------
(* Control locations.                                                      *)

\* The status each _write_status call of run() passes, by its location.
StatusAt ==
    [write_started   |-> "PROVISIONING_STARTED",
     write_rendered  |-> "CONFIG_RENDERED",
     write_pushed    |-> "CONFIG_PUSHED",
     write_passed    |-> "VALIDATION_PASSED",
     write_awaiting  |-> "AWAITING_HUMAN_APPROVAL",
     write_complete  |-> "COMPLETE",
     write_failed    |-> "FAILED"]

WriteLocs == DOMAIN StatusAt

\* Mutant of AfterWrite: a run that found drift does not wait for a human.
AfterWriteUnparked ==
    [write_started |-> "fetch", write_rendered |-> "push",
     write_pushed |-> "validate", write_passed |-> "write_complete",
     write_awaiting |-> "write_complete", write_complete |-> "done",
     write_failed |-> "done"]

\* Where run() goes once a status write has completed.
AfterWrite ==
    [write_started   |-> "fetch",
     write_rendered  |-> "push",
     write_pushed    |-> "validate",
     write_passed    |-> "write_complete",
     write_awaiting  |-> "parked",
     write_complete  |-> "done",
     write_failed    |-> "done"]

Activities == WriteLocs \cup {"fetch", "render", "push", "validate"}
Locs == Activities \cup {"idle", "parked", "done"}
Statuses == {StatusAt[l] : l \in WriteLocs}

\* The activities whose effect outlives the attempt: both run their blocking
\* call in asyncio.to_thread, and a thread is not stopped by a timeout.
Effects == WriteLocs \cup {"push"}

Limit(l) ==
    IF l \in WriteLocs THEN WriteAttempts
    ELSE IF l = "push" THEN PushAttempts
    ELSE IF l = "validate" THEN ValidateAttempts
    ELSE FetchAttempts

Open(r) == pc[r] \notin {"idle", "done"}
Configs == Intents \cup {NoIntent, OffIntent}

Init ==
    /\ pc = [r \in Runs |-> "idle"]
    /\ attempt = [r \in Runs |-> 1]
    /\ intent = [r \in Runs |-> NoIntent]
    /\ rendered = [r \in Runs |-> NoIntent]
    /\ verdict = [r \in Runs |-> "none"]
    /\ approval = [r \in Runs |-> "none"]
    /\ decision = [r \in Runs |-> "none"]
    /\ result = [r \in Runs |-> "none"]
    /\ nbIntent \in [Devices -> Intents]
    /\ nbStatus = [d \in Devices |-> [status |-> "QUEUED", by |-> {}]]
    /\ device = [d \in Devices |-> NoIntent]
    /\ stragglers = {}
    /\ pushed = [r \in Runs |-> {}]
    /\ straggled = {}
    /\ latePushed = {}

-----------------------------------------------------------------------------
(* Steps of the workflow, parameterised by the run.                        *)

\* The next await of run(): a new activity starts at its first attempt.
Goto(r, l) ==
    /\ pc' = [pc EXCEPT ![r] = l]
    /\ attempt' = [attempt EXCEPT ![r] = 1]

Started == {r \in Runs : pc[r] # "idle"}

\* Mutant of Start: executions with one id may overlap.
StartUnchecked(r) ==
    /\ pc[r] = "idle"
    /\ Cardinality(Started) < MaxStarted
    /\ Goto(r, "write_started")
    /\ UNCHANGED <<local, approval, result, nautobot, device,
                   stragglers, history>>

\* The execution is started; Temporal refuses a second open execution under
\* the same workflow id, and accepts one when the former has closed.
Start(r) ==
    /\ pc[r] = "idle"
    /\ Cardinality(Started) < MaxStarted
    /\ \A q \in Runs : IdOf[q] = IdOf[r] => ~Open(q)
    /\ Goto(r, "write_started")
    /\ UNCHANGED <<local, approval, result, nautobot, device,
                   stragglers, history>>

\* The PATCH of write_provisioning_status.  The run stands for the workflow
\* id written beside the status; nobody wrote the initial status.
Patch(r, l) ==
    nbStatus' = [nbStatus EXCEPT ![DeviceOf[r]] =
                    [status |-> StatusAt[l], by |-> {r}]]

\* Mutant of ReturnedAt: success is reported before COMPLETE is written.
ReturnedEarly(l) ==
    IF l \in {"write_passed", "write_complete"} THEN "success"
    ELSE IF l = "write_failed" THEN "failure" ELSE "none"

\* run() returns: COMPLETE was written on the way out of the try block,
\* FAILED by the handler.
ReturnedAt(l) ==
    IF l = "write_complete" THEN "success"
    ELSE IF l = "write_failed" THEN "failure"
    ELSE "none"

WriteCompletes(r) ==
    /\ pc[r] \in WriteLocs
    /\ Patch(r, pc[r])
    /\ Goto(r, AfterWrite[pc[r]])
    /\ result' = [result EXCEPT ![r] = ReturnedAt(pc[r])]
    /\ UNCHANGED <<local, approval, nbIntent, device, stragglers, history>>

FetchCompletes(r) ==
    /\ pc[r] = "fetch"
    /\ intent' = [intent EXCEPT ![r] = nbIntent[DeviceOf[r]]]
    /\ Goto(r, "render")
    /\ UNCHANGED <<rendered, verdict, decision, approval, result, nautobot,
                   device, stragglers, history>>

RenderCompletes(r) ==
    /\ pc[r] = "render"
    /\ rendered' = [rendered EXCEPT ![r] = intent[r]]
    /\ Goto(r, "write_rendered")
    /\ UNCHANGED <<intent, verdict, decision, approval, result, nautobot,
                   device, stragglers, history>>

\* Mutant of PushedConfig: each attempt takes the intent as it is by then.
PushesLatest(r) == nbIntent[DeviceOf[r]]

\* The argument every attempt of push_config gets: it is recorded in the
\* history of the workflow, so a retry is given the same artifact.
PushedConfig(r) == rendered[r]

\* An attempt of push_config reaches the router and leaves it with config c.
Deliver(r, c) ==
    /\ device' = [device EXCEPT ![DeviceOf[r]] = c]
    /\ pushed' = [pushed EXCEPT ![r] = @ \cup {PushedConfig(r)}]

PushSucceeds(r) ==
    /\ pc[r] = "push"
    /\ Deliver(r, PushedConfig(r))
    /\ Goto(r, "write_pushed")
    /\ UNCHANGED <<local, approval, result, nautobot, stragglers, straggled,
                   latePushed>>

\* PushResult.success is False: run() raises, and the router is left in
\* whatever state the push reached.
PushReportsFailure(r) ==
    /\ pc[r] = "push"
    /\ \E c \in {device[DeviceOf[r]], PushedConfig(r), OffIntent} :
          Deliver(r, c)
    /\ Goto(r, "write_failed")
    /\ UNCHANGED <<local, approval, result, nautobot, stragglers, straggled,
                   latePushed>>

\* The live state is compared with the intent fetched at the start.  It can
\* only pass on a router that meets that intent; links and BGP sessions may
\* be down on any router.
ValidationPasses(r) ==
    /\ pc[r] = "validate"
    /\ <<device[DeviceOf[r]], intent[r]>> \in Meets
    /\ verdict' = [verdict EXCEPT ![r] = "passed"]
    /\ Goto(r, "write_passed")
    /\ UNCHANGED <<intent, rendered, decision, approval, result, nautobot,
                   device, stragglers, history>>

ValidationFindsDrift(r) ==
    /\ pc[r] = "validate"
    /\ verdict' = [verdict EXCEPT ![r] = "drift"]
    /\ Goto(r, "write_awaiting")
    /\ UNCHANGED <<intent, rendered, decision, approval, result, nautobot,
                   device, stragglers, history>>

-----------------------------------------------------------------------------
(* Attempts that do not complete.                                          *)

\* Mutants of AttemptEnds: an exhausted await ends the run without FAILED; a
\* push that is exhausted starts the run over.
AttemptEndsSilently(r) ==
    IF attempt[r] < Limit(pc[r])
    THEN attempt' = [attempt EXCEPT ![r] = @ + 1] /\ UNCHANGED <<pc, result>>
    ELSE Goto(r, "done") /\ result' = [result EXCEPT ![r] = "failure"]

AttemptEndsAnew(r) ==
    IF attempt[r] < Limit(pc[r])
    THEN attempt' = [attempt EXCEPT ![r] = @ + 1] /\ UNCHANGED <<pc, result>>
    ELSE UNCHANGED result /\
         Goto(r, IF pc[r] = "push" THEN "write_started" ELSE "write_failed")

\* The retry policy: another attempt while there is one left, otherwise the
\* await raises ActivityError.  run() catches it and writes FAILED; nothing
\* catches it when it is that very write that failed.
AttemptEnds(r) ==
    IF attempt[r] < Limit(pc[r])
    THEN /\ attempt' = [attempt EXCEPT ![r] = @ + 1]
         /\ UNCHANGED <<pc, result>>
    ELSE IF pc[r] = "write_failed"
    THEN Goto(r, "done") /\ result' = [result EXCEPT ![r] = "error"]
    ELSE Goto(r, "write_failed") /\ UNCHANGED result

\* The attempt raises, or its worker dies, before it had any effect.
AttemptFails(r) ==
    /\ pc[r] \in Activities
    /\ AttemptEnds(r)
    /\ UNCHANGED <<local, approval, nautobot, device,
                   stragglers, history>>

\* start_to_close_timeout fires while the call is still under way.
AttemptTimesOut(r) ==
    /\ pc[r] \in Effects
    /\ Cardinality(stragglers) < MaxStragglers
    /\ stragglers' = stragglers \cup
                       {[run |-> r, at |-> pc[r], try |-> attempt[r]]}
    /\ AttemptEnds(r)
    /\ UNCHANGED <<local, approval, nautobot, device, history>>

\* The call of a timed-out attempt finally takes effect, or comes to nothing.
StragglerLands(s) ==
    /\ stragglers' = stragglers \ {s}
    /\ \/ /\ s.at \in WriteLocs
          /\ Patch(s.run, s.at)
          /\ straggled' = straggled \cup {s.run}
          /\ UNCHANGED <<device, pushed, latePushed>>
       \/ /\ s.at = "push"
          /\ \E c \in {PushedConfig(s.run), OffIntent} : Deliver(s.run, c)
          /\ latePushed' = latePushed \cup {s.run}
          /\ UNCHANGED <<nbStatus, straggled>>
       \/ UNCHANGED <<nbStatus, device, history>>
    /\ UNCHANGED <<pc, attempt, local, approval, result, nbIntent>>

-----------------------------------------------------------------------------
(* The human in the loop.                                                  *)

\* approve_escalation is accepted by any open execution, at any time; the
\* last decision wins.
Signal(r, choice) ==
    /\ Open(r)
    /\ approval' = [approval EXCEPT ![r] = choice]
    /\ UNCHANGED <<pc, attempt, local, result, nautobot, device,
                   stragglers, history>>

\* What "if not condition_met" sees once the condition holds.
ConditionMet == WaitReturnsBool

\* The wait ends because a decision is there.
ParkedRunResumes(r) ==
    /\ pc[r] = "parked"
    /\ approval[r] # "none"
    /\ decision' = IF ConditionMet THEN [decision EXCEPT ![r] = approval[r]]
                                   ELSE decision
    /\ Goto(r, IF ConditionMet /\ approval[r] = "approved"
               THEN "write_complete" ELSE "write_failed")
    /\ UNCHANGED <<intent, rendered, verdict, approval, result, nautobot,
                   device, stragglers, history>>

\* The 24 hours are over.  The SDK raises asyncio.TimeoutError, which is
\* neither an ApplicationError nor an ActivityError: the execution fails on
\* the spot.  Under the contract the comment states, run() raises instead.
ParkedRunTimesOut(r) ==
    /\ pc[r] = "parked"
    /\ approval[r] = "none"
    /\ IF WaitReturnsBool
       THEN Goto(r, "write_failed") /\ UNCHANGED result
       ELSE Goto(r, "done") /\ result' = [result EXCEPT ![r] = "error"]
    /\ UNCHANGED <<local, approval, nautobot, device, stragglers, history>>

-----------------------------------------------------------------------------
(* The surroundings.                                                       *)

\* An engineer corrects the intent of a device in Nautobot.
IntentEdited(d, i) ==
    /\ nbIntent' = [nbIntent EXCEPT ![d] = i]
    /\ UNCHANGED <<pc, attempt, local, approval, result, nbStatus, device,
                   stragglers, history>>

\* Somebody changes the router by hand.
ChangedByHand(d) ==
    /\ device' = [device EXCEPT ![d] = OffIntent]
    /\ UNCHANGED <<pc, attempt, local, approval, result, nautobot, stragglers,
                   history>>

\* A step the run takes by itself: Temporal and the workers drive it.
Advance(r) ==
    \/ WriteCompletes(r) \/ FetchCompletes(r) \/ RenderCompletes(r)
    \/ PushSucceeds(r) \/ PushReportsFailure(r)
    \/ ValidationPasses(r) \/ ValidationFindsDrift(r)
    \/ AttemptFails(r) \/ AttemptTimesOut(r)
    \/ ParkedRunResumes(r) \/ ParkedRunTimesOut(r)

Next ==
    \/ \E r \in Runs :
          \/ Start(r)
          \/ Advance(r)
          \/ \E choice \in Decisions[r] : Signal(r, choice)
    \/ \E s \in stragglers : StragglerLands(s)
    \/ \E d \in Devices :
          \/ ChangedByHand(d)
          \/ \E i \in Intents : IntentEdited(d, i)

Spec == Init /\ [][Next]_vars

-----------------------------------------------------------------------------
(* What must hold.                                                         *)

\* The domain of every variable of run(), of the intents in Nautobot, of the
\* routers and of the attempts still under way.
RunTypes ==
    /\ pc \in [Runs -> Locs]
    /\ attempt \in [Runs -> Nat \ {0}]
    /\ intent \in [Runs -> Intents \cup {NoIntent}]
    /\ rendered \in [Runs -> Intents \cup {NoIntent}]
    /\ verdict \in [Runs -> {"none", "passed", "drift"}]
    /\ approval \in [Runs -> {"none", "approved", "rejected"}]
    /\ decision \in [Runs -> {"none", "approved", "rejected"}]
    /\ result \in [Runs -> {"none", "success", "failure", "error"}]
    /\ nbIntent \in [Devices -> Intents]
    /\ device \in [Devices -> Configs]
    /\ stragglers \subseteq [run : Runs, at : Effects, try : Nat \ {0}]
    /\ pushed \in [Runs -> SUBSET (Intents \cup {NoIntent})]
    /\ straggled \subseteq Runs
    /\ latePushed \subseteq Runs

\* The type invariant: with the statuses that the runs themselves write.
TypeOK ==
    /\ RunTypes
    /\ nbStatus \in [Devices -> [status : Statuses \cup {"QUEUED"},
                                 by : SUBSET Runs]]

\* All attempts of push_config of one run, the retried ones and the ones that
\* land after a timeout included, deliver one and the same config, whatever
\* happens to the intent meanwhile (ansible_activities.py, "always pushes the
\* same bytes").
OneConfigPerRun ==
    \A r \in Runs : \A c1, c2 \in pushed[r] : c1 = c2

\* A run that returns success after a passed validation leaves the router on
\* its own config.  Only two kinds of push may have replaced it since: one of
\* a run under another workflow id, which Temporal lets run beside it, and one
\* that landed after its own await had timed out; and changes by hand
\* (provision_site.py lines 115 to 116: one execution per workflow id).
SuccessOnOwnConfig ==
    [][\A r \in Runs :
          result[r] = "none" /\ result'[r] = "success" /\ verdict[r] = "passed"
          => \/ device[DeviceOf[r]] \in {intent[r], OffIntent}
             \/ \E q \in Runs \ {r} :
                   /\ DeviceOf[q] = DeviceOf[r]
                   /\ device[DeviceOf[r]] \in pushed[q]
                   /\ IdOf[q] # IdOf[r] \/ q \in latePushed]_vars

\* A run reports success only after its own validation passed, or after a
\* human approved the drift that it found; a decision that arrives after the
\* wait has ended changes nothing.
SuccessIsJustified ==
    \A r \in Runs : result[r] = "success" =>
        \/ verdict[r] = "passed"
        \/ verdict[r] = "drift" /\ decision[r] = "approved"

\* What an execution reports to its caller is what it left in Nautobot, as
\* long as no other run wrote the record since and none of its own timed-out
\* writes landed late; one that ended without reporting left no COMPLETE.
ReportedIsRecorded ==
    \A r \in Runs :
        nbStatus[DeviceOf[r]].by = {r} /\ r \notin straggled =>
          /\ result[r] = "success" => nbStatus[DeviceOf[r]].status = "COMPLETE"
          /\ result[r] = "failure" => nbStatus[DeviceOf[r]].status = "FAILED"
          /\ result[r] = "error" => nbStatus[DeviceOf[r]].status # "COMPLETE"

\* The order of the Day 1 stages, models.py lines 30 to 38.
Stage(status) ==
    CASE status = "PROVISIONING_STARTED" -> 1
      [] status = "CONFIG_RENDERED" -> 2
      [] status = "CONFIG_PUSHED" -> 3
      [] status \in {"VALIDATION_PASSED", "AWAITING_HUMAN_APPROVAL"} -> 4
      [] status = "COMPLETE" -> 5
      [] status = "FAILED" -> 6
      [] OTHER -> 0

\* While one run owns the record of a device, the stage shown there never
\* goes back, except when a straggler lands: retries, handlers and human
\* decisions only move it forward.
StatusMovesForward ==
    [][\A d \in Devices :
          nbStatus[d].by = nbStatus'[d].by /\ stragglers \subseteq stragglers'
            => Stage(nbStatus[d].status) <= Stage(nbStatus'[d].status)]_vars

-----------------------------------------------------------------------------
(* What the repository says, and the code does not do.                     *)

\* provision_site.py lines 34 to 35: an approved run is marked COMPLETE.
ApprovedRunIsCompleted ==
    [][\A r \in Runs :
          pc[r] = "parked" /\ pc'[r] # "parked" /\ approval[r] = "approved"
            => pc'[r] = "write_complete"]_vars

=============================================================================

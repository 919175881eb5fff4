# A verification of network-ztp

network-ztp takes branch routers from the box to operation. Nautobot holds the
intended state of each device, Temporal workflows drive the life cycle, and
activities do the work: they call Nautobot, the DHCP and file servers, Ansible
and NAPALM. This directory holds TLA+ models of its five workflows with what they
act on, of Day 0 and Day 1 composed over one device, and of what the activities
do to the data; TLC configurations that check them on small instances; and
TLAPS proofs, for every instance, of all the safety and action properties that
those runs find to hold, the two refinements included.

Paths are relative to `src/`. Where an activity has a mock branch, the models
follow its production branch.

## 1. Inventory

| Component | State | Operations | Modules |
|---|---|---|---|
| Day 1, `temporal/workflows/provision_site.py` | locals of `run()`, `_approval_decision` | start, status writes, fetch, render, push, validate, 24-hour wait, signal, handler | `Provision*` |
| Day 0, `bootstrap_device.py` | locals of `run()` | start, writes, fetch, DHCP, render, publish, 8-hour wait, child | `Bootstrap*`, with its child `Lifecycle*` |
| Day 0.5, `onboard_site.py` | locals, `_approval_decision` | writes, fetch, two discoveries, reconcile, plan, wait, push | `OnboardSite*` |
| Batch, `bulk_onboarding.py` | `_paused`, `_max_concurrent`, `_counts`, list of handles | two loops, `_poll_children`, pause, resume, adjust_rate, get_status | `BulkOnboarding*` |
| Day 2, `compliance_scan.py` | locals, results | list, fetch, validate, write, except clause, aggregation | `ComplianceScan*` |
| Activities, `temporal/activities/` | none in the process; Nautobot, DHCP, file server, routers outside | one blocking call each, several in a thread | steps of the modules above; their data in `DataPath*`, `RenderingProofs` |
| API, `api/endpoints/` | none | start under a workflow id, signal, query, webhook | `Start`, `Signal`, `DayOneStarts`, `SingleStarts`, `Pause`... |
| API authentication, errors, middleware, health | none | per request | not modelled |
| Worker, `temporal/worker.py` | activities in flight | start, kill, graceful stop | `WorkerRestarts`, `WorkerStops` |
| Models, `temporal/models.py` | limits of the fields, order of the statuses | validation | `Accepted`, `LifeStage` |
| Metrics, `temporal/metrics.py` | counters and a gauge in each worker process | updates from workflow code | not modelled |
| CLI, settings, deployment | none | HTTP calls | not modelled |

**Interactions.** The API starts executions; the webhook and the API start Day 0
under the id `day0-{device}`. Day 0 runs Day 1 as a child under
`day1-{device}-day0-{device}`, the API runs it under `day1-{device}`. A batch
starts its children under `onboard-site-{site}`, which is also the id the API
uses. Temporal refuses a second open execution of one id and allows a new one
when the first has closed; beyond that executions share nothing but Nautobot's
record of the device (`ztp_provisioning_status` with `ztp_workflow_id`, and the
intent), the router, and the DHCP and file servers.

**Hard behaviours.**

- *Attempts outlive their timeout.* An activity has a `start_to_close_timeout`
  and a number of attempts. Its blocking call runs in a thread, or at a server,
  that a timeout does not stop: the effect of an old attempt may land after a
  retry, after the run has gone on, or after it has ended. The models call it a
  *straggler* or *late* effect.
- *Partial failure.* Each await may be exhausted. Day 1 and Day 0 catch
  `ApplicationError` and `ActivityError`, and their handler does an activity of
  its own, which may be exhausted too. Day 0.5 catches nothing. `TimeoutError`
  and `ChildWorkflowError` are caught nowhere.
- *Human decisions.* A signal is accepted from the start of an execution to its
  end, and the last one wins.
- *Stale reads.* Intent is fetched once and used for minutes, 8 hours or 24
  hours, while engineers edit it and routers are changed by hand.
- *Several writers* of one record and one router: Day 0, its child, and the runs
  of the API.
- *Workers stop.* One that is killed takes the thread of the 8-hour wait with it
  and nobody notices; one that is stopped cancels its activities.
- *A push is not atomic.* It breaks off between two lines, starts over, and may
  go on late beside its retry.

**What makes each component correct** is stated under "Properties and runs". The
hazards behind the properties are in `PROJECT.json`, each at its line.

## 2. Modules and how they correspond to the code

A *location* (`pc` or `loc`) is the await an execution is at, or the place it
ended. Between two awaits a workflow runs alone on its event loop, so the code
from one await to the next is one action: the completion of the await, the
assignments that follow it, and the choice of the next await. An `await` of an
activity with a retry policy has `attempt`, and three ways on:

- *completes*: effect and continuation in one step;
- `AttemptFails`: nothing happened; the next attempt starts, or, after the last
  one, the await raises (`AttemptEnds`);
- `AttemptTimesOut`: as `AttemptFails`, but the call is still under way and its
  effect is added to `stragglers` or `late`. From there it may land at any time.

**`Provision`**: any number of Day 1 runs over any devices. `StatusAt` and
`AfterWrite` are the tables of the seven status writes and of what follows each.
A config is named by the version of intent it renders; `OffIntent` is any other
one, made by hand or left by a push that broke off. `Meets` says which configs
validation cannot tell from the intent: `Exact`, or `Coarse` as in `_diff_state`,
which looks at interfaces and BGP only. Validation may find drift on any router.
`pushed`, `straggled` and `latePushed` are history: nothing reads them but the
properties. `IdOf` gives each run its workflow id: runs under one id follow each
other, runs under two may be open at a time.

`WaitReturnsBool` chooses between two contracts of `workflow.wait_condition`. The
comment at provision_site.py:259 says it returns True, or False on timeout. The
SDK that `uv.lock` pins (temporalio 1.29.0) returns None, and raises
`TimeoutError` on timeout; the annotation is under a `type: ignore`. FALSE is what
the code does with the pinned SDK; TRUE is what it was written for, and is used
in `onboard_site` only, where the question is what an approval lets through. With
the pinned SDK no approval gets past the wait, so `COMPLETE` is only reached there
by a validation that passes. The proofs cover both.

**`ProvisionPromise`** is the abstract specification of a Day 1 run, with no
activities, retries or status writes: it settles on one version of the intent,
delivers only that one, accepts only what it has delivered, never takes back a
refusal, and reports once. **`ProvisionRefinement`** maps `Provision` to it,
**`ProvisionInvariant`** strengthens its invariants, **`ProvisionProofs`** proves.

**`OnboardSite`**: one onboarding. `seen` is the set of configs the two
discoveries saw, since the router may change between them. `Plan` may find changes
unless everything seen is the intent. `PushAnswers` goes on whatever
`PushResult.success` says, as the code does. A push that answers success has
reached the router; one that answers failure may have or not. `touched` is the
history of the plans that did reach it, `pushFailed` says that the answer was
failure. **`OnboardSiteProofs`** proves.

**`BulkOnboarding`**: a batch over a sequence of sites. The inner loop is
evaluated when the pause point or a sleep ends (`InnerLoop`); `starting` is the
await of `start_child_workflow`, where an id that is taken fails the batch
(`ChildConflicts`) and Temporal terminates its children. `polled` is how far
`_poll_children` has come. `sites_per_hour` only sets the length of a sleep and is
left out. A child only runs and ends, as `OnboardSite` says that it does.
`afterPause` is history: how many entries were taken since the batch was paused.
**`BulkOnboardingProofs`** proves.

**`ComplianceScan`**: one scan. A list with the same device twice is allowed, as
the API allows it. `OtherWrite` is a Day 0 or Day 1 run writing the record.
**`ComplianceScanProofs`** proves.

**`Bootstrap`**: successive Day 0 executions for one device. A version of the
intent stands for its management address and its script; `Torn` is a script that
was opened for writing and not written, since the file is written where the web
server serves it. `hasMac` is false for executions the API starts, with
`mac_address=""`; they reserve nothing for the device. `probing` is the thread
that polls the router: it dies with its worker (`WorkerRestarts`), and a worker
that is stopped has its attempt cancelled (`WorkerStops`). The probe is a TCP
connect to the management address, and whatever listens there will do:
`DeviceChecksIn` needs the thread and nothing of the router, while a router that
is up there keeps the wait from timing out. `servedLate` names the executions
whose script landed late since the current one published its own. The Day 1 child
writes the record, late too, and ends in one of the three ways `ProvisionPromise`
closes a run; runs of the API write the record and configure the router beside it.
**`BootstrapProofs`** proves.

**`Lifecycle`** composes the two: Day 0 executions of one device take the actions
of `Bootstrap`, the Day 1 runs are those of `Provision`, and `ChildOf` says which
run is whose child. The record, the intent and the router are shared: a router
that is not up is neither configured nor validated (`AtRouter`), and one that is
configured keeps answering at the address of the config it was given. A parent
learns the end of its child in a step of its own (`HandoffEnds`), by which time
other steps may have happened. The constant `Torn` is that of `Bootstrap`. Runs
and executions have names of their own, and each execution a child of its own
(`LifecycleAssumption`), as the run ids of Temporal are. **`LifecycleInvariant`**
strengthens its invariants, **`LifecycleProofs`** proves.

**Refinement.** `ImplementsBootstrap` says that `Lifecycle` behaves as `Bootstrap`.
There the child's last write and the answer to the parent are one step, here they
are two. So the mapping, `Seen`, anticipates: once the child has closed, the
parent is seen at the location, and with the result, that the answer will give
it. A status counts for the execution that wrote it, itself or by its child, the
four middle statuses of Day 1 are one (`PROVISIONING`), and what a run of the API
writes has no author. With it, what `Bootstrap` assumes about Day 1 is what
`Provision` does. The safety part, `Seen!Spec`, is what is checked and proved;
liveness of the composition is checked as such (`LifecycleEnds`).

**`DataPath`**: the data between the awaits. A device as Nautobot describes it
goes through `_parse_device_intent` (`Parse`, with the ids that the models
refuse), the template (`Render`, with `_ip_to_ios`, whose 32-bit shift is a shift
of a set of bits, and which raises for a prefix beyond 32: `Raises`,
`RenderFails`), `push_config` line by line, `vlan` and `name` being two lines, and
`_validate_via_napalm` with `_diff_state` (`ReadInterfaces`, `ReadPeers`, `Diff`).
The router starts as the Day 0 script of this payload or of an earlier one left
it, perhaps with a run for that one on top. The Day 2 scan is the same run without
render and push. An address is the set of its bits and a length. What a payload
asks for (`Asked`) is written without the code's functions and without its
choices: every name a VLAN goes by, every address of a port, masks by arithmetic
on octets (`MaskOf`), and the network the primary address is in (`Subnet`).
`Unsaid` names the part of it that a config leaves out: names and addresses after
the first, and the network where the host is not its name; `Said` is what a config
says, the network named by a host included. A request is granted when making it
again changes nothing. `DataPathAssumption` says what a payload is: sequences of
interfaces, of tagged VLANs and of addresses, as GraphQL answers them; interfaces
named once per device, as Nautobot ensures; addresses of IPv4 and IPv6 with
lengths up to 128 or none, but an IPv4 one as `primary_ip4`; a peer that is an
address and names no interface. **`RenderingProofs`** proves what the pure
functions compute, **`DataPathInvariant`** and **`DataPathProofs`** are about the
steps.

`MC*` modules give the constants their values.

## 3. Properties and runs

| Run | Instance | Checks |
|---|---|---|
| `provision_runs` | 2 runs of 3 for 1 device: two under one id, or one of them and one under another id; 2 versions, 2 push attempts, 1 straggler, pinned SDK | `IInv`, `OneConfigPerRun`, `SuccessIsJustified`, `ReportedIsRecorded`, `StatusMovesForward`, `SuccessOnOwnConfig`, `Promised` |
| `bulk_onboarding` | 4 entries over 3 sites, one listed twice; limit 2, signalled to 0, 1, 3 | `IInv`, `StatusIsTrue`, `ResultIsTrue`, `RunningWithinLimit`, `PauseTakesHold`, `BatchEnds` |
| `onboard_site` | 2 versions, 3 attempts, contract of the annotation | `IInv`, `ReadOnlyUntilApproved`, `SuccessIsJustified`, `ReportedIsRecorded`, `ManagedWasPushed`, `Ends` |
| `compliance_scan` | 3 devices; the site, one device, one device twice; limits 3 and 5 | `IInv`, `EveryDeviceReported`, `SilenceMeansPassed`, `RecordsAreMeasured`, `ScanEnds` |
| `bootstrap_device` | 2 executions, 2 versions, 2 attempts, 1 late effect | `IInv`, `ReadyBeforeCheckin`, `ReportedIsRecorded`, `BootstrapEnds` |
| `lifecycle` | 1 Day 0 execution with its child, 1 run of the API beside them, 2 fetch attempts, 1 late effect of either phase, the child approved, pinned SDK | `CompleteIsEarned`, `QuietRecordIsFinal`, `ImplementsBootstrap`, `LifecycleMovesForward`, `LifecycleEnds` |
| `data_path` | 212 payloads: the ids next to the bounds twice under two names; ports on, off, absent, with two addresses, one of IPv6 or one without a length; all 33 prefix lengths; 2 earlier ones | `PushedIsAsked`, `PushNeverGoesBack`, `OnlyTheAskedArrives`, `DriftIsBounded` |

Five more runs each show a statement of the repository that the code does not
keep; see "Findings".

What the less obvious ones say:

- `Promised`: every step of two interleaved runs with their retries and
  stragglers is a step of the abstract specification, or changes nothing in it.
- `OneConfigPerRun`: a push that is retried or lands late carries what was
  rendered, whatever happens to the intent (ansible_activities.py:190).
- `SuccessOnOwnConfig`: when validation has passed and the run returns, the router
  runs what the run pushed, unless it was changed by hand or one of two kinds of
  push has replaced it: one by a run under another id, which Temporal lets run beside
  it (`day1-{d}` and `day1-{d}-day0-{d}`), or one that landed late. Runs under one
  id do not disturb each other otherwise, which rests on `Start`. Each of the three
  exceptions is needed: without any one of them TLC finds the property violated.
- `ReportedIsRecorded` (three modules): the report to the caller and the record in
  Nautobot agree, as long as no other run and no late write of its own
  changed the record. The exception is needed: a straggling write does overwrite
  a final status.
- `StatusIsTrue`: the query of a batch counts a child as managed, or as failed, only
  when it has ended so; it may lag behind, since handles are awaited in order.
- `PauseTakesHold`: what a pause is worth in spite of `pause_ignored`: the batch
  stands still at its next pause point, having taken fewer entries than the highest
  limit.
- `RunningWithinLimit`: lowering the limit stops no child, so the bound is the
  highest limit that was in force.
- `RecordsAreMeasured`: no write of the scan, late or retried, marks a device that
  the scan did not measure.
- `EveryDeviceReported`: the results follow the order of the list, each device with
  one result, or with a verdict and the error of its write right after it.
- `ReadyBeforeCheckin`: at the 8-hour wait the script on the file server is the one
  for the intent waited for, whatever was published before, by broken-off attempts
  and earlier executions; an attempt that lands after the publication is the
  exception, and a real one: an earlier execution's brings back its script, one of
  the same execution can only leave a file cut off.
- `CompleteIsEarned`: the record says COMPLETE only on the word of a run that has
  pushed to the router, and that saw validation pass or its drift approved, with
  Day 0, its child and a run of the API writing the one record.
- `QuietRecordIsFinal`: when all executions have closed with a report, none of
  their interleavings leaves a middle stage in the record.
- `LifecycleMovesForward`: the order of the stages in models.py holds across the
  hand-off from Day 0 to its child.
- `PushedIsAsked`: after a push the router grants all that is asked for and not left
  unsaid, whatever broke off, went on late, or was there before. `Unsaid` is spelled
  out in the formula, so that a reader sees what a push does not do.
- `PushNeverGoesBack`: two attempts of one push that interleave line by line never
  take back what one of them has achieved. It rests on the lines of a config not
  contradicting each other, hence on the first sight of a VLAN being the only one.
- `DriftIsBounded`: the two reads are of two moments; still no fault that lasts
  through both is missed, and none is made up.
- `ManagedWasPushed`: MANAGED after changes means that the planned version got to
  the router, unless the push answered that it failed: that answer is not looked at.
- `ReadOnlyUntilApproved`: before an approval nothing gets to the router, and after
  it only the plan for the one version of the intent that was fetched.

**Bounds.** `MaxStragglers` and `MaxLate` bound the timed-out attempts that are
under way at one time (at most one here; any number may follow each other),
`MaxStarts` the executions. In `OnboardSite` and `ComplianceScan` the late
effects are a set without a bound. Two runs, or two executions, are enough for
what they can do to each other: they meet in the record, the router, the file
server and the DHCP server, and each of those keeps its last writer. Two versions
of the intent are enough for an edit between any two steps, and for one taken
back. Limits of attempts are the code's where the state space allows it, and
1 or 2 elsewhere: more attempts add only more equal failures. In `Lifecycle` one bound
covers the late effects of both phases. Four batch entries
under a limit of two give a full window, an entry that waits, and a repeated site.
Runs and versions are interchangeable, hence the symmetry sets; a run with a
liveness property has none.

`lifecycle` was also run on larger instances, each without an error and too
long for every day: two Day 0 executions with a child each (670
thousand states), two attempts of push and validation (843 thousand), both
decisions for the child (476 thousand), two attempts in Day 0 (1.04 million), and
two versions of the intent for the invariants and the action property (4.94
million). One version suffices for what it asks: stale intents are the business
of the two components' own runs, which have two.

`CHECK_DEADLOCK` is on in every run but `data_path`, where a run that has ended
may be all there is; elsewhere Nautobot, routers or the API can always change.

**Fairness.** Weak fairness of the steps of the executions only. Workers poll,
every attempt has a timeout and there are finitely many, timers are durable, so
an await that is not a human's ends. The 24-hour and 8-hour waits end by their
timers. Nobody has to signal, to start anything, to rack or power a router, and
no late attempt has to land. In `Lifecycle` each child and each open run is fair
by itself, and Temporal starts a child it has accepted. `BatchEnds` assumes, in
its formula, that the batch does not stay paused and that its limit does not
stay below 1; children end by the fairness of `ChildEnds`, which `Ends` of
`OnboardSite` justifies.

**Mutants.** Beside a definition stands a mutant of it for the bugs the
properties are meant to catch (a dropped guard, a result not looked at, one
attempt too many, an effect from the latest intent...). With the mutant in its
place TLC finds each property violated. They are named as mutants in their
comment and used nowhere else.

## 4. Findings

Each is the counterexample of a run of that name.

1. `approved_fails` — an approved run is not completed. Once a decision has
   arrived, `wait_condition` returns None, so `not condition_met` holds and the run
   writes FAILED (provision_site.py:266); lines 34 to 35 promise COMPLETE. The same
   contract has a second consequence, which has no run of its own: when nobody
   decides, the SDK raises `TimeoutError`, which line 297 does not catch, so no
   FAILED is written, and a Day 0 parent fails with its child.
   Tutorial 04 (line 140) calls the timeout a rejection. onboard_site.py:111 has the
   same call.
2. `pause_ignored` — a batch that is paused between two spawns starts further
   children (bulk_onboarding.py:65); the platform design, line 503, has it stop.
3. `counted_twice` — a device whose status write fails is in the result of a scan
   twice, maybe as passed and as drifted (compliance_scan.py:145).
4. `checkin_lost` — the 8-hour wait is one attempt without a heartbeat, so nothing
   probes after a worker restart (bootstrap_device.py:183); README.md:119 has the
   workflow resume "even if the worker restarted in between".
5. `failure_unrecorded` — an onboarding that fails at a stage leaves no FAILED:
   `run()` has no handler, so an exhausted activity ends the execution with the
   record at the stage before (onboard_site.py:51 in the counterexample). The
   platform design, line 491, has "FAILED (any phase)", and README.md:129 "On any
   failure ... Nautobot is set to `FAILED`". A push that answers success=False is the
   other half of it: line 147 drops the answer, and ONBOARD_MANAGED is written.

Further disagreements met while modelling, without a run:

- `worker.py:249` logs that it waits for in-flight activities; the worker is built
  without a `graceful_shutdown_timeout`, so they are cancelled. Day 0's 8-hour wait has
  one attempt: a rolling restart ends every execution that waits for its device.
  `WorkerStops` has it so.
- A second start under `/devices` or `/sites` is answered 500: these endpoints do not
  catch the refusal. The design (line 263) and tutorial 05 (line 114) say 409.
- The webhook drops the MAC address when an execution is open, though
  bootstrap_device.py:7 has Day 0 run for a known MAC. An execution the API started
  has an empty one (devices.py:29), reserves nothing for the device (`Reserve`), and
  waits its 8 hours for a router that may never get its lease.
- `wait_for_device_reachability` says at lines 265 to 266 that the first successful
  connect means that the script ran; `_probe_ssh` takes any TCP listener at the
  address, as `DeviceChecksIn` does, so Day 1 may begin without the device.
- Tutorial 04 (line 134) says of the gauge `hitl_pending` that it returns to 0 when
  all parked workflows are resolved. The exit by `TimeoutError` (provision_site.py:260
  to 264) leaves it up; and it is a variable of one worker process that replayed
  code changes, so a restart loses it and a replay changes it again. Not modelled.
- provision_site.py:115 promises one run per device. Day 0's child has another id
  than the API's run, and both may push; see `SuccessOnOwnConfig`.
- The design (lines 513 to 514) pauses a batch by itself above a rate of failures;
  nothing does.
- `_cidr_to_network` (ansible_activities.py:163) keeps the host's bits, so that the
  network statement names no network unless the host's bits are zero (`Subnet` and
  `Unsaid` of `DataPath`).
- Nautobot may list several addresses of a port and two names of a VLAN; only the
  first of each is configured (nautobot_activities.py:244 and 257). When the first
  address is one of IPv6 with a prefix beyond 32, `_ip_to_ios` raises ValueError and
  the device cannot be rendered at all (`RenderFails`); with a shorter one it is
  given an IPv4 mask, which the router refuses.
- `ValidationResult` (models.py:171) speaks of full convergence; `_diff_state` looks
  at the state of interfaces and the peer only, as `Diff` does: leftovers of an
  earlier run and wrong addresses pass.

## 5. Proofs

Assumed: the named `ASSUME`s of the modules, and nothing else unless a theorem
says so. No set is assumed finite, no limit is fixed, and both values of
`WaitReturnsBool` are covered. Each component has an inductive invariant, shown to
be one action by action; the properties follow from it.

**`ProvisionProofs`** proves, for `Spec` of `Provision`:

- `TypeCorrect`;
- `Inductive`: `[]IInv`. The invariants are not inductive alone. That validation
  passed does not tell what was pushed, so `ArtifactInv` says at which locations
  the artifact exists, equals the intent of the run, and is all the run ever
  pushed. `StragglerInv` says a straggling push has its artifact, for it may land
  anywhere later. `RouterInv` says a router runs what some run for it pushed, which
  excludes a router that passes validation without a push. `VerdictInv` carries verdict
  and decision from where they are made to the return. `RecordInv` says an open run
  that owns the record has written no final status there, which makes
  `ReportedIsRecorded` inductive. `StageInv` compares what the record shows, and what
  may still be written late, with how far its writer is. `ExclusiveInv` says one open
  run per id, and `OwnConfigInv` draws from it that between a push and the return
  only a run under another id, or a late push, disturbs the router.
- `PushesAgree`, `SuccessJustified`, `ReportsRecorded`, `MovesForward` and
  `SucceedsOnOwnConfig` from `IInv`, whatever ids the runs have.
- `KeepsPromise`: `Spec => Promised`: each action maps to a step of
  `ProvisionPromise` or to a stutter, under the invariant (that an accepted run has
  delivered comes from `ArtifactInv`).

**`OnboardSiteProofs`** proves `TypeCorrect`, `Inductive`, `ReadOnly`,
`SuccessJustified`, `ReportsRecorded` and `ManagedPushed` for `OnboardSite`. The
strengthening is `QuietInv` (no push exists, done or late, up to the decision;
no changes up to the plan), `DecisionInv` (past the decision changes are
approved ones, and a late push is a push of an approved plan), `PushedInv`
(after a push that did not answer failure the planned version has been on the
router), and `OpenInv` (an open execution has reported nothing and left no
final status). One lemma per group of actions shows that they keep it;
`OutsideStep` covers what the rest of the world does.

**`BootstrapProofs`**: `TypeCorrect`, `Inductive`, `ReadyAtCheckin`,
`ReportsRecorded`. `NamesInv` says that only executions that have started have
left something behind, so that what a new one finds under its own number is
nothing. `LocalInv` says what `run()` has by the time it has passed an await, the
reservation included. `ServedInv` says that from its publication on the script on
the file server is this execution's, late attempts since then aside, and that what
may still land of its own attempts is the same script. `OpenInv` is about the
record of an execution that has not reported.

**`ComplianceScanProofs`**: `TypeCorrect`, `Inductive`, `EveryReported`,
`SilencePassed`, `RecordsMeasured`. `LoopInv` places the loop in its list;
`ReportedInv` says that the results are those of the devices it has passed, in
their order, with that of the one under way last (`ReportsInOrder` maps each
result to its place in the list); `SilenceInv` that each of them is listed as
drifted or was recorded as passed; `MeasuredInv` that whatever is written, may
still be written late, or is about to be, was measured.

**`BulkOnboardingProofs`**: `TypeCorrect`, `Inductive`, `StatusTrue`, `ResultTrue`,
`WithinLimit`, `PauseHolds`, by the cardinality theorems of the library. `FlightInv`
says that the batch is always cut in three: entries that are settled, entries in
flight in their order, entries without a child. `CountInv` says that the counters
are the sizes of these parts, the lag of `_poll_children` included, `LimitInv`
that the handles, with the one about to be added, are within the highest limit so
far, and `PauseInv` that what is taken while the batch is paused joins at least one
child that was taken before.

**`LifecycleProofs`**, about the composition:

- `LifeTypeCorrect` and `LifeInductive`. `HandoffInv` says that only the execution
  that waits for it has an open child, and that who has not started has left
  nothing behind; it is what makes a step of the child a step of the waiting
  parent. `EarnedInv` follows a COMPLETE, the late one included, back to a push and
  a verdict or a decision. `QuietInv` says who can have written the record last: a
  run, the current execution, or an earlier one while the current one has not
  written. `OrderInv` compares the stage of the record with that of its writer over
  both phases. `ClosedInv` and `WaitInv` are about results and waiting.
- `CompleteEarned`, `QuietIsFinal`, `LifeMovesForward` from `LifeInv`.
- `Implemented`: `LifeSpec => ImplementsBootstrap`. Each action of `Lifecycle` is
  taken in turn and shown to be, through the mapping `Seen`, an action of
  `Bootstrap` or a stutter. The steps of Day 0 are its own. Those of a child split on
  what `Bootstrap` sees of them: nothing, a write, a router that is configured, or
  a close that decides where the parent is seen next. A write that a run lands late
  is one of its parent, or of an unrelated run.

**`RenderingProofs`**, about the functions that `DataPath` is built from, for every
payload:

- `MaskIsExact`: for every prefix length the shifts of `_cidr_to_mask` yield the mask
  that arithmetic on octets gives.
- `RenderingExact`: a payload that the models let through, and that rendering does
  not raise for, is rendered into all that it asks for and is not `Unsaid`, and into
  nothing else but a network named by its host; no id of a VLAN is out of range.
- `BootingExact`: Day 0, with or without a run after it, leaves a whole config with
  the management address it was given, unless the payload names that interface.

The functions are folds, flattened sequences and sums over sets. Induction over
data is done in first order: the library's induction theorems take an operator as
a parameter, which the provers cannot instantiate, so `NatSetInduction` is stated
about the *set* of numbers up to which a recursion does what it should, and
derived from the well-foundedness of the natural numbers (`LeastNat`). A function
that is chosen by its recursive equation is first shown to exist
(`FlattenElements`, `KeptOneByOne`, `AppliedOneByOne`, `SumOfBits`).

**`DataPathProofs`**: `DataInductive`, `AskedIsPushed`, `AskedArrives`, `NeverBack`,
`DriftBounded`. `LinesInv` says that only lines that are `Said` are under way,
`DeliveredInv` that at every line of an attempt the lines before it hold, whoever
delivered them; that it is inductive rests on `NoConflict`: no two lines that are
`Said` contradict each other. `MgmtInv` is about the management address.
`WindowInv` and `ReadInv` say what the first read of a validation may be believed:
what it saw was wrong at one of the moments, and what was wrong all along it saw.

TLC checked each inductive invariant before it was proved: the five `IInv` in the
runs of their modules; `LifeInv` on the instance of `lifecycle` and on one with two
Day 0 executions and a child each (670 thousand states); `DataInv` on the instance of
`data_path`. The last two are in no `.cfg`: their runs check what follows from them.

**Only model-checked**: liveness (`BatchEnds`, `Ends`, `ScanEnds`, `BootstrapEnds`,
`LifecycleEnds`), which rests on fairness, hence on `ENABLED`, and is out of the
prover's reach; and the five statements of the repository that the code does not
keep, each refuted by a counterexample. That the assumptions of the theorems can be
met is shown by the runs, whose instances satisfy them.

## 6. Not modelled

- Authentication, roles, error translation and middleware of the API, its health
  endpoints, and the statuses of its answers: functions of one request, without
  state.
- The command-line client, settings, logging, tracing and deployment files: I/O and
  configuration.
- Metrics: counters and a gauge of a worker process, which no control flow reads.
- The constant text of configs and scripts, mock data and random drift.
- `_diff_config` (`onboarding_activities.py`) is reduced to whether there are
  changes. On the production path its input has the peers keyed by VRF where it
  iterates over a list (line 147), so it fails for a router with BGP; that is a failed
  attempt of `plan`.
- Which of two rates wins when one is signalled before the batch's first task
  (bulk_onboarding.py:55): the input's does; no property depends on it.
- `COMPLIANCE_SCAN_STARTED` (models.py) is written nowhere.
- Cancellation and termination from outside, and workflow reset, are not exercised
  by the repository.

## 7. Plan

Done, in this order: `Provision` with its promise and proofs, `BulkOnboarding`,
`OnboardSite` with its proofs, `ComplianceScan`, `Bootstrap`, the composition
`Lifecycle` with its refinement, `DataPath`; then the proofs of `Bootstrap`,
`ComplianceScan`, `BulkOnboarding`, the rest of `Provision`, `Lifecycle` with its
refinement, the pure functions and `DataPath`. Next:

1. *A batch over its onboardings*: `OnboardSite` in the place of `ChildEnds`, and the
   proof that what `BulkOnboarding` assumes of a child is what `OnboardSite` does, as
   `Lifecycle` does it for Day 0 and Day 1.
2. *A scan beside the runs of its devices*: what `ComplianceScan` assumes of other
   writers (`OtherWrite`) against `Provision`.
3. `_diff_config` with `_estimate_impact` beside `Diff`.

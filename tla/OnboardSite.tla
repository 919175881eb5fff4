----------------------------- MODULE OnboardSite -----------------------------
(***************************************************************************)
(* OnboardSiteWorkflow (temporal/workflows/onboard_site.py), Day 0.5: one  *)
(* execution takes a live router under management.  It discovers what the  *)
(* router runs, plans the changes that bring it to its intent, and pushes  *)
(* them once a human has agreed.  Unlike Day 1 it has no handler: an await *)
(* that raises fails the execution and leaves the record as it is.         *)
(***************************************************************************)
EXTENDS Integers

CONSTANTS
    Intents,         \* versions of the device's intent
    LegacyConfig,    \* a config that renders no version of the intent
    Attempts,        \* _RETRY.maximum_attempts
    WaitReturnsBool  \* as in Provision: FALSE for the pinned SDK

ASSUME OnboardAssumption ==
    /\ LegacyConfig \notin Intents
    /\ Attempts \in Nat \ {0}
    /\ WaitReturnsBool \in BOOLEAN

VARIABLES
    loc,      \* the await run() is at, or "done"
    attempt,  \* number of the attempt in progress
    intent,   \* local intent: the version fetched, a set of at most one
    seen,     \* what discovery saw: live_config and discovered_state
    changes,  \* whether plan.changes is not empty
    approval, \* self._approval_decision
    decision, \* the decision run() acted on
    result,   \* what the execution ended with
    status,   \* Nautobot: ztp_provisioning_status
    nbIntent, \* Nautobot: the current version of the intent
    router,   \* the running config
    late,     \* awaits with a timed-out attempt whose thread still runs
    touched,  \* history: the configs the execution put on the router
    pushFailed, \* history: push_config answered success=False
    landed    \* history: a status write landed late

snapshot == <<intent, seen, changes>>
history == <<touched, pushFailed, landed>>
vars == <<loc, attempt, snapshot, approval, decision, result, status, nbIntent,
          router, late, history>>

-----------------------------------------------------------------------------
\* The awaits of run() in order, and what each write says.
StatusAt ==
    [write_pending     |-> "ONBOARD_PENDING",
     write_discovering |-> "ONBOARD_DISCOVERING",
     write_discovered  |-> "ONBOARD_DISCOVERED",
     write_reconciling |-> "ONBOARD_RECONCILING",
     write_managed     |-> "ONBOARD_MANAGED",
     write_failed      |-> "FAILED"]

WriteLocs == DOMAIN StatusAt

\* Where run() goes from an await that has one way on; changes tells whether
\* there is anything to push.
After(l) ==
    CASE l = "write_pending"     -> "fetch"
      [] l = "fetch"             -> "write_discovering"
      [] l = "write_discovering" -> "discover_config"
      [] l = "discover_config"   -> "discover_state"
      [] l = "discover_state"    -> "write_discovered"
      [] l = "write_discovered"  -> "reconcile"
      [] l = "reconcile"         -> "plan"
      [] l = "write_reconciling" -> IF changes THEN "push" ELSE "write_managed"
      [] l = "push"              -> "write_managed"
      [] OTHER                   -> "done"

Activities == WriteLocs \cup {"fetch", "discover_config", "discover_state",
                              "reconcile", "plan", "push"}
Effects == WriteLocs \cup {"push"}
Configs == Intents \cup {LegacyConfig}

Init ==
    /\ loc = "write_pending" /\ attempt = 1
    /\ intent = {} /\ seen = {} /\ changes = FALSE
    /\ approval = "none" /\ decision = "none" /\ result = "none"
    /\ status = "QUEUED"
    /\ nbIntent \in Intents
    /\ router \in Configs
    /\ late = {} /\ touched = {}
    /\ pushFailed = FALSE /\ landed = FALSE

Goto(l) == loc' = l /\ attempt' = 1

-----------------------------------------------------------------------------
(* run().                                                                  *)

\* Mutant of ReturnedAt: success is reported before the record says MANAGED.
ReturnedEarly(l) ==
    IF l = "write_reconciling" THEN "success"
    ELSE IF l = "write_failed" THEN "rejected" ELSE result

\* run() returns after the last write of either way.
ReturnedAt(l) ==
    IF l = "write_managed" THEN "success"
    ELSE IF l = "write_failed" THEN "rejected" ELSE result

WriteCompletes ==
    /\ loc \in WriteLocs
    /\ status' = StatusAt[loc]
    /\ result' = ReturnedAt(loc)
    /\ Goto(After(loc))
    /\ UNCHANGED <<snapshot, approval, decision, nbIntent, router, late,
                   history>>

Fetch ==
    /\ loc = "fetch"
    /\ intent' = {nbIntent}
    /\ Goto(After(loc))
    /\ UNCHANGED <<seen, changes, approval, decision, result, status, nbIntent,
                   router, late, history>>

\* discover_device_config and discover_device_state read the router one after
\* the other, so they may see two different configs.
Discover ==
    /\ loc \in {"discover_config", "discover_state"}
    /\ seen' = seen \cup {router}
    /\ Goto(After(loc))
    /\ UNCHANGED <<intent, changes, approval, decision, result, status,
                   nbIntent, router, late, history>>

\* reconcile_nautobot_records reads the record and changes nothing.
Reconcile ==
    /\ loc = "reconcile"
    /\ Goto(After(loc))
    /\ UNCHANGED <<snapshot, approval, decision, result, status, nbIntent,
                   router, late, history>>

\* generate_remediation_plan: _diff_config looks for the hostname in the
\* config and for the BGP peer in the state.  A config other than the intent
\* may have both, a config that is the intent does.
Plan ==
    /\ loc = "plan"
    /\ changes' \in IF seen = intent THEN {FALSE} ELSE BOOLEAN
    /\ Goto(IF changes' THEN "parked" ELSE "write_reconciling")
    /\ UNCHANGED <<intent, seen, approval, decision, result, status, nbIntent,
                   router, late, history>>

\* What "not condition_met" sees once the condition holds.
ConditionMet == WaitReturnsBool

\* Mutant of Approved: any decision lets the remediation through.
AnyDecision == ConditionMet

\* The test of line 115, when the wait has ended with a decision.
Approved == ConditionMet /\ approval = "approved"

Resume ==
    /\ loc = "parked"
    /\ approval # "none"
    /\ decision' = IF ConditionMet THEN approval ELSE decision
    /\ Goto(IF Approved THEN "write_reconciling" ELSE "write_failed")
    /\ UNCHANGED <<snapshot, approval, result, status, nbIntent, router, late,
                   history>>

\* The 24 hours are over; on the pinned SDK the TimeoutError fails the
\* execution.
WaitTimesOut ==
    /\ loc = "parked"
    /\ approval = "none"
    /\ IF WaitReturnsBool
       THEN Goto("write_failed") /\ UNCHANGED result
       ELSE Goto("done") /\ result' = "error"
    /\ UNCHANGED <<snapshot, approval, decision, status, nbIntent, router,
                   late, history>>

\* The remediation is merged into the running config: it takes the router to
\* the intent it was planned for or somewhere on the way, if it gets there.
Remediate(reached) ==
    IF reached
    THEN /\ router' \in intent \cup {LegacyConfig, router}
         /\ touched' = touched \cup intent
    ELSE UNCHANGED <<router, touched>>

\* push_config answers, that it failed perhaps; run() does not look at
\* PushResult.success.  One that failed may or may not have got to the router.
PushAnswers ==
    /\ loc = "push"
    /\ \E success, reached \in BOOLEAN :
          /\ success => reached
          /\ Remediate(reached)
          /\ pushFailed' = ~success
    /\ Goto(After(loc))
    /\ UNCHANGED <<snapshot, approval, decision, result, status, nbIntent,
                   late, landed>>

-----------------------------------------------------------------------------
(* Attempts that do not complete.                                          *)

\* Mutants of AttemptEnds: a push that is exhausted is passed over, as its
\* answer is; attempts without end.
AttemptEndsOnward ==
    IF attempt < Attempts
    THEN attempt' = attempt + 1 /\ UNCHANGED <<loc, result>>
    ELSE IF loc = "push" THEN Goto(After(loc)) /\ UNCHANGED result
         ELSE Goto("done") /\ result' = "error"

AttemptEndsUncounted == UNCHANGED <<loc, attempt, result>>

AttemptEnds ==
    IF attempt < Attempts
    THEN attempt' = attempt + 1 /\ UNCHANGED <<loc, result>>
    ELSE Goto("done") /\ result' = "error"

AttemptFails ==
    /\ loc \in Activities
    /\ AttemptEnds
    /\ UNCHANGED <<snapshot, approval, decision, status, nbIntent, router,
                   late, history>>

\* start_to_close_timeout fires while the thread of the attempt goes on.
AttemptTimesOut ==
    /\ loc \in Effects
    /\ late' = late \cup {loc}
    /\ AttemptEnds
    /\ UNCHANGED <<snapshot, approval, decision, status, nbIntent, router,
                   history>>

\* Such a thread has its effect after all; another one of the same await may
\* still be running.
LateEffect(l) ==
    /\ late' \in {late, late \ {l}}
    /\ IF l = "push"
       THEN /\ \E reached \in BOOLEAN : Remediate(reached)
            /\ UNCHANGED <<status, landed>>
       ELSE /\ status' = StatusAt[l]
            /\ landed' = TRUE
            /\ UNCHANGED <<router, touched>>
    /\ UNCHANGED <<loc, attempt, snapshot, approval, decision, result,
                   nbIntent, pushFailed>>

-----------------------------------------------------------------------------
(* The surroundings.                                                       *)

\* approve_escalation, at any time; the last decision wins.
Signal(choice) ==
    /\ loc # "done"
    /\ approval' = choice
    /\ UNCHANGED <<loc, attempt, snapshot, decision, result, status, nbIntent,
                   router, late, history>>

IntentEdited(i) ==
    /\ nbIntent' = i
    /\ UNCHANGED <<loc, attempt, snapshot, approval, decision, result, status,
                   router, late, history>>

ChangedByHand(c) ==
    /\ router' = c
    /\ UNCHANGED <<loc, attempt, snapshot, approval, decision, result, status,
                   nbIntent, late, history>>

Run == \/ WriteCompletes \/ Fetch \/ Discover \/ Reconcile \/ Plan
       \/ Resume \/ WaitTimesOut \/ PushAnswers
       \/ AttemptFails \/ AttemptTimesOut

Next ==
    \/ Run
    \/ \E l \in late : LateEffect(l)
    \/ \E choice \in {"approved", "rejected"} : Signal(choice)
    \/ \E i \in Intents : IntentEdited(i)
    \/ \E c \in Configs : ChangedByHand(c)

Spec == Init /\ [][Next]_vars
FairSpec == Spec /\ WF_vars(Run)

-----------------------------------------------------------------------------
(* What must hold.                                                         *)

\* The type invariant of the locals of run(), the record and the router.
TypeOK ==
    /\ loc \in Activities \cup {"parked", "done"}
    /\ attempt \in 1..Attempts
    /\ intent \subseteq Intents /\ seen \subseteq Configs
    /\ changes \in BOOLEAN
    /\ {approval, decision} \subseteq {"none", "approved", "rejected"}
    /\ result \in {"none", "success", "rejected", "error"}
    /\ status \in {StatusAt[l] : l \in WriteLocs} \cup {"QUEUED"}
    /\ nbIntent \in Intents /\ router \in Configs
    /\ late \subseteq Effects
    /\ touched \subseteq Intents
    /\ pushFailed \in BOOLEAN /\ landed \in BOOLEAN

\* The live router is left alone until a human has approved the plan, retried
\* and late pushes included, whatever is signalled before and after; and what
\* is then pushed is the plan for one version of the intent (platform design,
\* section 5: "Discovery is strictly read-only until a human approves").
ReadOnlyUntilApproved ==
    touched # {} => changes /\ decision = "approved" /\ touched = intent

\* No execution reports success over changes that nobody approved.
SuccessIsJustified ==
    result = "success" => ~changes \/ decision = "approved"

\* The record says MANAGED exactly of an execution that reports success, and
\* FAILED of one that was rejected, late writes aside.
ReportedIsRecorded ==
    ~landed =>
        /\ result = "success" <=> status = "ONBOARD_MANAGED"
        /\ result = "rejected" => status = "FAILED"

\* MANAGED is reported of a plan with changes only when a push has put the
\* version that was planned for on the router, however often it was retried,
\* unless push_config answered that it failed: an answer nobody looks at.
ManagedWasPushed ==
    result = "success" /\ changes /\ ~pushFailed => touched = intent

\* The execution ends, as the batch that started it relies on.
Ends == <>(loc = "done")

-----------------------------------------------------------------------------
(* What the repository says, and the code does not do.                     *)

\* FAILED is for a failure of any phase (platform design, line 491): a stage
\* that fails, a status write that cannot be made aside, leaves it in the
\* record, and so does a push that answers that it failed.
FailureIsRecorded ==
    [][/\ loc # "done" /\ loc' = "done"
       /\ loc \notin WriteLocs \/ pushFailed
       => status' = "FAILED"]_vars

-----------------------------------------------------------------------------
(* The inductive strengthening: what a location of run() says about the plan *)
(* and the decision, and where a push may still be under way.                *)

BeforePlan == {"write_pending", "fetch", "write_discovering",
               "discover_config", "discover_state", "write_discovered",
               "reconcile", "plan"}

\* Until run() has passed the decision no push exists, done or late.
QuietInv ==
    /\ loc \in BeforePlan \cup {"parked", "write_reconciling"} =>
          touched = {} /\ "push" \notin late
    /\ loc \in BeforePlan => ~changes

\* Past the decision a plan with changes is an approved one, and a push, late
\* ones included, belongs to such a plan.
DecisionInv ==
    /\ loc \in {"write_reconciling", "push", "write_managed"} =>
          ~changes \/ decision = "approved"
    /\ loc = "push" \/ "push" \in late => changes /\ decision = "approved"

\* An open execution has reported nothing, and without late writes its record
\* shows no final status.
OpenInv ==
    /\ result = "none" <=> loc # "done"
    /\ loc # "done" /\ ~landed => status \notin {"ONBOARD_MANAGED", "FAILED"}

\* Past a push that did not fail the plan's version has been to the router.
PushedInv ==
    loc = "write_managed" /\ changes /\ ~pushFailed => touched = intent

\* The inductive invariant of run(), onboard_site.py lines 40 to 165.
IInv ==
    /\ TypeOK /\ QuietInv /\ DecisionInv /\ OpenInv /\ PushedInv
    /\ ReadOnlyUntilApproved /\ SuccessIsJustified /\ ReportedIsRecorded
    /\ ManagedWasPushed

=============================================================================

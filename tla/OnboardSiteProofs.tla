-------------------------- MODULE OnboardSiteProofs --------------------------
(***************************************************************************)
(* Theorems about OnboardSite for any intents, any retry limit and both    *)
(* contracts of wait_condition.                                            *)
(***************************************************************************)
EXTENDS OnboardSite, TLAPS

-----------------------------------------------------------------------------
(* The tables.                                                             *)

LEMMA WriteLocsAre ==
    WriteLocs = {"write_pending", "write_discovering", "write_discovered",
                 "write_reconciling", "write_managed", "write_failed"}
BY DEF WriteLocs, StatusAt

LEMMA ActivitiesAre ==
    Activities = {"write_pending", "write_discovering", "write_discovered",
                  "write_reconciling", "write_managed", "write_failed",
                  "fetch", "discover_config", "discover_state", "reconcile",
                  "plan", "push"}
BY WriteLocsAre DEF Activities

\* The order of the awaits, one line of After for each.
LEMMA AfterIs ==
    /\ After("write_pending") = "fetch"
    /\ After("fetch") = "write_discovering"
    /\ After("write_discovering") = "discover_config"
    /\ After("discover_config") = "discover_state"
    /\ After("discover_state") = "write_discovered"
    /\ After("write_discovered") = "reconcile"
    /\ After("reconcile") = "plan"
    /\ After("write_reconciling") = IF changes THEN "push" ELSE "write_managed"
    /\ After("push") = "write_managed"
    /\ After("write_managed") = "done"
    /\ After("write_failed") = "done"
BY DEF After

LEMMA AfterType ==
    ASSUME NEW l \in Activities
    PROVE  After(l) \in Activities \cup {"parked", "done"}
BY ActivitiesAre DEF After

\* Only the two last writes of run() leave a final status.
LEMMA FinalStatus ==
    ASSUME NEW l \in WriteLocs
    PROVE  /\ StatusAt[l] = "ONBOARD_MANAGED" <=> l = "write_managed"
           /\ StatusAt[l] = "FAILED" <=> l = "write_failed"
BY WriteLocsAre DEF StatusAt

-----------------------------------------------------------------------------
(* Type correctness.                                                       *)

LEMMA TypeInit == Init => TypeOK
<1> SUFFICES ASSUME Init PROVE TypeOK
    OBVIOUS
<1>1. loc \in Activities /\ attempt \in 1..Attempts
    BY OnboardAssumption, ActivitiesAre DEF Init
<1>2. changes \in BOOLEAN /\ pushFailed \in BOOLEAN /\ landed \in BOOLEAN
    BY DEF Init
<1> QED
    BY <1>1, <1>2 DEF Init, TypeOK

LEMMA AttemptEndsType ==
    ASSUME TypeOK, AttemptEnds
    PROVE  /\ loc' \in Activities \cup {"parked", "done"}
           /\ attempt' \in 1..Attempts
           /\ result' \in {"none", "success", "rejected", "error"}
BY OnboardAssumption DEF AttemptEnds, Goto, TypeOK

LEMMA GotoType ==
    ASSUME NEW l, Goto(l)
    PROVE  attempt' \in 1..Attempts
BY OnboardAssumption DEF Goto

LEMMA TypeStep == TypeOK /\ [Next]_vars => TypeOK'
<1> SUFFICES ASSUME TypeOK, [Next]_vars PROVE TypeOK'
    OBVIOUS
<1> USE ActivitiesAre DEF snapshot, history
<1>1. CASE WriteCompletes
    <2>1. loc' \in Activities \cup {"parked", "done"} /\ attempt' \in 1..Attempts
        BY <1>1, AfterType, GotoType DEF WriteCompletes, Goto, Activities
    <2>2. result' \in {"none", "success", "rejected", "error"}
        BY <1>1 DEF WriteCompletes, ReturnedAt, TypeOK
    <2>3. status' \in {StatusAt[l] : l \in WriteLocs} \cup {"QUEUED"}
        BY <1>1 DEF WriteCompletes
    <2> QED
        BY <1>1, <2>1, <2>2, <2>3 DEF WriteCompletes, TypeOK
<1>2. CASE Fetch
    <2>1. loc' \in Activities \cup {"parked", "done"} /\ attempt' \in 1..Attempts
        BY <1>2, AfterIs, GotoType DEF Fetch, Goto
    <2> QED
        BY <1>2, <2>1 DEF Fetch, TypeOK
<1>3. CASE Discover
    <2>1. loc' \in Activities \cup {"parked", "done"} /\ attempt' \in 1..Attempts
        BY <1>3, AfterIs, GotoType DEF Discover, Goto
    <2> QED
        BY <1>3, <2>1 DEF Discover, TypeOK
<1>4. CASE Reconcile
    <2>1. loc' \in Activities \cup {"parked", "done"} /\ attempt' \in 1..Attempts
        BY <1>4, AfterIs, GotoType DEF Reconcile, Goto
    <2> QED
        BY <1>4, <2>1 DEF Reconcile, TypeOK
<1>5. CASE Plan
    <2>1. loc' \in Activities \cup {"parked", "done"} /\ attempt' \in 1..Attempts
        BY <1>5, GotoType DEF Plan, Goto
    <2>2. changes' \in BOOLEAN
        BY <1>5 DEF Plan
    <2> QED
        BY <1>5, <2>1, <2>2 DEF Plan, TypeOK
<1>6. CASE Resume
    <2>1. loc' \in Activities \cup {"parked", "done"} /\ attempt' \in 1..Attempts
        BY <1>6, GotoType DEF Resume, Goto
    <2> QED
        BY <1>6, <2>1 DEF Resume, TypeOK
<1>7. CASE WaitTimesOut
    <2>1. loc' \in Activities \cup {"parked", "done"} /\ attempt' \in 1..Attempts
        BY <1>7, GotoType DEF WaitTimesOut, Goto
    <2> QED
        BY <1>7, <2>1 DEF WaitTimesOut, TypeOK
<1>8. ASSUME NEW reached \in BOOLEAN, Remediate(reached)
      PROVE  router' \in Configs /\ touched' \subseteq Intents
    BY <1>8 DEF Remediate, TypeOK, Configs
<1>9. CASE PushAnswers
    <2>1. loc' \in Activities \cup {"parked", "done"} /\ attempt' \in 1..Attempts
        BY <1>9, AfterIs, GotoType DEF PushAnswers, Goto
    <2>2. router' \in Configs /\ touched' \subseteq Intents
        BY <1>8, <1>9 DEF PushAnswers
    <2>3. pushFailed' \in BOOLEAN
        BY <1>9 DEF PushAnswers
    <2> QED
        BY <1>9, <2>1, <2>2, <2>3 DEF PushAnswers, TypeOK
<1>10. CASE AttemptFails
    BY <1>10, AttemptEndsType DEF AttemptFails, TypeOK
<1>11. CASE AttemptTimesOut
    BY <1>11, AttemptEndsType DEF AttemptTimesOut, TypeOK
<1>12. ASSUME NEW l \in late, LateEffect(l) PROVE TypeOK'
    <2>1. l \in Effects
        BY DEF TypeOK
    <2>2. status' \in {StatusAt[w] : w \in WriteLocs} \cup {"QUEUED"}
        BY <1>12, <2>1 DEF LateEffect, Effects, TypeOK
    <2>3. landed' \in BOOLEAN /\ late' \subseteq Effects
        BY <1>12 DEF LateEffect, TypeOK
    <2>4. router' \in Configs /\ touched' \subseteq Intents
        BY <1>8, <1>12 DEF LateEffect, TypeOK
    <2> QED
        BY <1>12, <2>2, <2>3, <2>4 DEF LateEffect, TypeOK
<1>13. ASSUME NEW choice \in {"approved", "rejected"}, Signal(choice)
       PROVE  TypeOK'
    BY <1>13 DEF Signal, TypeOK
<1>14. ASSUME NEW i \in Intents, IntentEdited(i) PROVE TypeOK'
    BY <1>14 DEF IntentEdited, TypeOK
<1>15. ASSUME NEW c \in Configs, ChangedByHand(c) PROVE TypeOK'
    BY <1>15 DEF ChangedByHand, TypeOK
<1>16. CASE UNCHANGED vars
    BY <1>16 DEF vars, TypeOK
<1> QED
    BY <1>1, <1>2, <1>3, <1>4, <1>5, <1>6, <1>7, <1>9, <1>10, <1>11, <1>12,
       <1>13, <1>14, <1>15, <1>16 DEF Next, Run

\* Every local of run(), the record and the router keep their types, for any
\* retry limit and either contract of wait_condition (onboard_site.py).
THEOREM TypeCorrect == Spec => []TypeOK
BY TypeInit, TypeStep, PTL DEF Spec

-----------------------------------------------------------------------------
(* The inductive invariant.                                                *)

LEMMA InvInit == Init => IInv
<1> SUFFICES ASSUME Init PROVE IInv
    OBVIOUS
<1>1. QuietInv /\ DecisionInv /\ OpenInv /\ PushedInv
    BY DEF Init, QuietInv, DecisionInv, OpenInv, PushedInv, BeforePlan
<1>2. /\ ReadOnlyUntilApproved /\ SuccessIsJustified /\ ReportedIsRecorded
      /\ ManagedWasPushed
    BY DEF Init, ReadOnlyUntilApproved, SuccessIsJustified, ReportedIsRecorded,
           ManagedWasPushed
<1> QED
    BY TypeInit, <1>1, <1>2 DEF IInv

\* A write leads where the order of the awaits says, and reports only at the
\* end of run().
LEMMA WriteStep ==
    ASSUME IInv, WriteCompletes
    PROVE  /\ QuietInv' /\ DecisionInv' /\ OpenInv'
           /\ ReadOnlyUntilApproved' /\ SuccessIsJustified'
           /\ ReportedIsRecorded'
<1> USE DEF IInv, WriteCompletes, Goto, snapshot, history
<1>1. loc \in {"write_pending", "write_discovering", "write_discovered",
               "write_reconciling", "write_managed", "write_failed"}
    BY WriteLocsAre
<1>2. QuietInv'
    BY <1>1, AfterIs DEF QuietInv, BeforePlan, TypeOK
<1>3. DecisionInv'
    BY <1>1, AfterIs DEF DecisionInv, TypeOK
<1>4. /\ loc = "write_managed" => loc' = "done" /\ result' = "success"
                                  /\ status' = "ONBOARD_MANAGED"
      /\ loc = "write_failed" => loc' = "done" /\ result' = "rejected"
                                 /\ status' = "FAILED"
      /\ loc \notin {"write_managed", "write_failed"} =>
            /\ loc' # "done" /\ result' = "none"
            /\ status' \notin {"ONBOARD_MANAGED", "FAILED"}
    <2>1. result = "none"
        BY <1>1 DEF OpenInv
    <2> QED
        BY <1>1, <2>1, AfterIs, FinalStatus, WriteLocsAre
           DEF ReturnedAt, StatusAt
<1>5. OpenInv' /\ ReportedIsRecorded'
    BY <1>1, <1>4 DEF OpenInv, ReportedIsRecorded
<1>6. ReadOnlyUntilApproved'
    BY DEF ReadOnlyUntilApproved
<1>7. SuccessIsJustified'
    BY <1>1, <1>4 DEF SuccessIsJustified, DecisionInv
<1> QED
    BY <1>2, <1>3, <1>5, <1>6, <1>7

\* An await that neither writes nor pushes goes on to the next one.
LEMMA ReadStep ==
    ASSUME IInv, Fetch \/ Discover \/ Reconcile
    PROVE  /\ QuietInv' /\ DecisionInv' /\ OpenInv'
           /\ ReadOnlyUntilApproved' /\ SuccessIsJustified'
           /\ ReportedIsRecorded'
<1> USE DEF IInv, Goto, snapshot, history
<1>1. /\ loc \in {"fetch", "discover_config", "discover_state", "reconcile"}
      /\ loc' \in {"write_discovering", "discover_state", "write_discovered",
                   "plan"}
    BY AfterIs DEF Fetch, Discover, Reconcile
<1>2. /\ UNCHANGED <<changes, decision, result, status, late, touched, landed>>
    BY DEF Fetch, Discover, Reconcile
<1>3. touched = {} /\ ~changes /\ "push" \notin late /\ result = "none"
    BY <1>1 DEF QuietInv, OpenInv, BeforePlan
<1>4. QuietInv' /\ DecisionInv'
    BY <1>1, <1>2, <1>3 DEF QuietInv, DecisionInv, BeforePlan
<1>5. OpenInv' /\ ReportedIsRecorded'
    BY <1>1, <1>2, <1>3 DEF OpenInv, ReportedIsRecorded
<1>6. ReadOnlyUntilApproved' /\ SuccessIsJustified'
    BY <1>2, <1>3 DEF ReadOnlyUntilApproved, SuccessIsJustified
<1> QED
    BY <1>4, <1>5, <1>6

\* The plan settles whether there are changes, before anything was pushed.
LEMMA PlanStep ==
    ASSUME IInv, Plan
    PROVE  /\ QuietInv' /\ DecisionInv' /\ OpenInv'
           /\ ReadOnlyUntilApproved' /\ SuccessIsJustified'
           /\ ReportedIsRecorded'
<1> USE DEF IInv, Plan, Goto, snapshot, history
<1>1. touched = {} /\ "push" \notin late /\ result = "none"
    BY DEF QuietInv, OpenInv, BeforePlan
<1>2. \/ loc' = "parked"
      \/ loc' = "write_reconciling" /\ ~changes'
    OBVIOUS
<1>3. QuietInv' /\ DecisionInv'
    BY <1>1, <1>2 DEF QuietInv, DecisionInv, BeforePlan
<1>4. OpenInv' /\ ReportedIsRecorded'
    BY <1>1, <1>2 DEF OpenInv, ReportedIsRecorded
<1>5. ReadOnlyUntilApproved' /\ SuccessIsJustified'
    BY <1>1 DEF ReadOnlyUntilApproved, SuccessIsJustified
<1> QED
    BY <1>3, <1>4, <1>5

\* The only way from the wait to the push is an approval.
LEMMA WaitStep ==
    ASSUME IInv, Resume \/ WaitTimesOut
    PROVE  /\ QuietInv' /\ DecisionInv' /\ OpenInv'
           /\ ReadOnlyUntilApproved' /\ SuccessIsJustified'
           /\ ReportedIsRecorded'
<1> USE DEF IInv, Goto, snapshot, history
<1>1. /\ loc = "parked"
      /\ UNCHANGED <<changes, status, late, touched, landed, intent>>
    BY DEF Resume, WaitTimesOut
<1>2. touched = {} /\ "push" \notin late /\ result = "none"
    BY <1>1 DEF QuietInv, OpenInv
<1>3. \/ loc' = "write_reconciling" /\ decision' = "approved"
         /\ result' = result
      \/ loc' = "write_failed" /\ result' = result
      \/ loc' = "done" /\ result' = "error"
    BY DEF Resume, WaitTimesOut, Approved
<1>4. QuietInv' /\ DecisionInv'
    BY <1>1, <1>2, <1>3 DEF QuietInv, DecisionInv, BeforePlan
<1>5. OpenInv' /\ ReportedIsRecorded'
    BY <1>1, <1>2, <1>3 DEF OpenInv, ReportedIsRecorded
<1>6. ReadOnlyUntilApproved' /\ SuccessIsJustified'
    BY <1>1, <1>2, <1>3 DEF ReadOnlyUntilApproved, SuccessIsJustified
<1> QED
    BY <1>4, <1>5, <1>6

\* A push belongs to an approved plan, and carries the version it is for.
LEMMA PushStep ==
    ASSUME IInv, PushAnswers
    PROVE  /\ QuietInv' /\ DecisionInv' /\ OpenInv'
           /\ ReadOnlyUntilApproved' /\ SuccessIsJustified'
           /\ ReportedIsRecorded'
<1> USE DEF IInv, PushAnswers, Remediate, Goto, snapshot, history
<1>1. /\ loc' = "write_managed" /\ changes /\ decision = "approved"
      /\ result = "none"
    BY AfterIs DEF DecisionInv, OpenInv
<1>2. QuietInv' /\ DecisionInv'
    BY <1>1 DEF QuietInv, DecisionInv, BeforePlan
<1>3. OpenInv' /\ ReportedIsRecorded'
    BY <1>1 DEF OpenInv, ReportedIsRecorded
<1>4. ReadOnlyUntilApproved' /\ SuccessIsJustified'
    BY <1>1 DEF ReadOnlyUntilApproved, SuccessIsJustified
<1> QED
    BY <1>2, <1>3, <1>4

\* An attempt that ends without an answer leaves run() where it is, or fails
\* the execution; a push that was under way stays one.
LEMMA AttemptStep ==
    ASSUME IInv, AttemptFails \/ AttemptTimesOut
    PROVE  /\ QuietInv' /\ DecisionInv' /\ OpenInv'
           /\ ReadOnlyUntilApproved' /\ SuccessIsJustified'
           /\ ReportedIsRecorded'
<1> USE DEF IInv, snapshot, history
<1>1. UNCHANGED <<changes, decision, status, touched, landed, intent>>
    BY DEF AttemptFails, AttemptTimesOut
<1>2. loc # "done" /\ result = "none"
    BY ActivitiesAre, WriteLocsAre
       DEF OpenInv, AttemptFails, AttemptTimesOut, Effects
<1>3. \/ loc' = loc /\ result' = result
      \/ loc' = "done" /\ result' = "error"
    BY DEF AttemptFails, AttemptTimesOut, AttemptEnds, Goto
<1>4. "push" \in late' => loc = "push" \/ "push" \in late
    BY DEF AttemptFails, AttemptTimesOut
<1>5. QuietInv' /\ DecisionInv'
    BY <1>1, <1>3, <1>4 DEF QuietInv, DecisionInv, BeforePlan
<1>6. OpenInv' /\ ReportedIsRecorded'
    BY <1>1, <1>2, <1>3 DEF OpenInv, ReportedIsRecorded
<1>7. ReadOnlyUntilApproved' /\ SuccessIsJustified'
    BY <1>1, <1>2, <1>3 DEF ReadOnlyUntilApproved, SuccessIsJustified
<1> QED
    BY <1>5, <1>6, <1>7

\* A late push is one that was approved; a late write is accounted for.
LEMMA LateStep ==
    ASSUME IInv, NEW l \in late, LateEffect(l)
    PROVE  /\ QuietInv' /\ DecisionInv' /\ OpenInv'
           /\ ReadOnlyUntilApproved' /\ SuccessIsJustified'
           /\ ReportedIsRecorded'
<1> USE DEF IInv, LateEffect, snapshot, history
<1>1. late' \subseteq late
    OBVIOUS
<1>2. CASE l = "push"
    <2>1. changes /\ decision = "approved"
        BY <1>2 DEF DecisionInv
    <2>2. loc \notin BeforePlan \cup {"parked", "write_reconciling"}
        BY <1>2 DEF QuietInv
    <2>3. QuietInv' /\ DecisionInv'
        BY <1>1, <1>2, <2>1, <2>2 DEF QuietInv, DecisionInv, BeforePlan
    <2>4. OpenInv' /\ ReportedIsRecorded'
        BY <1>2 DEF OpenInv, ReportedIsRecorded
    <2>5. ReadOnlyUntilApproved' /\ SuccessIsJustified'
        BY <1>2, <2>1
           DEF Remediate, ReadOnlyUntilApproved, SuccessIsJustified
    <2> QED
        BY <2>3, <2>4, <2>5
<1>3. CASE l # "push"
    <2>1. QuietInv' /\ DecisionInv'
        BY <1>1, <1>3 DEF QuietInv, DecisionInv, BeforePlan
    <2>2. OpenInv' /\ ReportedIsRecorded'
        BY <1>3 DEF OpenInv, ReportedIsRecorded
    <2>3. ReadOnlyUntilApproved' /\ SuccessIsJustified'
        BY <1>3 DEF ReadOnlyUntilApproved, SuccessIsJustified
    <2> QED
        BY <2>1, <2>2, <2>3
<1> QED
    BY <1>2, <1>3

\* Nothing in the invariant depends on the signal, on Nautobot's current
\* intent or on what somebody does to the router.
LEMMA OutsideStep ==
    ASSUME IInv,
           UNCHANGED <<loc, intent, changes, decision, result, status, late,
                       touched, landed>>
    PROVE  /\ QuietInv' /\ DecisionInv' /\ OpenInv'
           /\ ReadOnlyUntilApproved' /\ SuccessIsJustified'
           /\ ReportedIsRecorded'
<1>1. QuietInv' /\ DecisionInv' /\ OpenInv'
    BY DEF IInv, QuietInv, DecisionInv, OpenInv
<1>2. ReadOnlyUntilApproved' /\ SuccessIsJustified' /\ ReportedIsRecorded'
    BY DEF IInv, ReadOnlyUntilApproved, SuccessIsJustified, ReportedIsRecorded
<1> QED
    BY <1>1, <1>2

\* The only way to the last write of a plan with changes is an answered push,
\* and what is pushed by one that did not fail, or later, is the version of the
\* plan.
LEMMA PushedStep ==
    ASSUME IInv, [Next]_vars
    PROVE  PushedInv' /\ ManagedWasPushed'
<1> USE DEF IInv, PushedInv, ManagedWasPushed, Goto, snapshot, history
<1>1. CASE WriteCompletes
    <2>1. loc' = "write_managed" => loc = "write_reconciling" /\ ~changes
        BY <1>1, WriteLocsAre, AfterIs DEF WriteCompletes
    <2>2. result' = "success" => loc = "write_managed" \/ result = "success"
        BY <1>1 DEF WriteCompletes, ReturnedAt
    <2> QED
        BY <1>1, <2>1, <2>2 DEF WriteCompletes
<1>2. CASE Fetch \/ Discover \/ Reconcile
    <2>1. loc' # "write_managed" /\ loc \in BeforePlan
        BY <1>2, AfterIs DEF Fetch, Discover, Reconcile, BeforePlan
    <2>2. UNCHANGED <<result, changes>> /\ ~changes
        BY <1>2, <2>1 DEF Fetch, Discover, Reconcile, QuietInv
    <2> QED
        BY <2>1, <2>2
<1>3. CASE Plan
    BY <1>3 DEF Plan, OpenInv
<1>4. CASE Resume \/ WaitTimesOut
    BY <1>4 DEF Resume, WaitTimesOut, OpenInv
<1>5. CASE PushAnswers
    <2>1. ~pushFailed' => touched' = intent'
        BY <1>5 DEF PushAnswers, Remediate, ReadOnlyUntilApproved
    <2> QED
        BY <2>1
<1>6. CASE AttemptFails \/ AttemptTimesOut
    <2>1. \/ UNCHANGED <<loc, result>>
          \/ loc' = "done" /\ result' = "error"
        BY <1>6 DEF AttemptFails, AttemptTimesOut, AttemptEnds
    <2> QED
        BY <1>6, <2>1 DEF AttemptFails, AttemptTimesOut
<1>7. ASSUME NEW l \in late, LateEffect(l)
      PROVE  PushedInv' /\ ManagedWasPushed'
    <2>1. /\ touched = intent => touched' = intent'
          /\ pushFailed' = pushFailed
        BY <1>7 DEF LateEffect, Remediate
    <2> QED
        BY <1>7, <2>1 DEF LateEffect
<1>8. ASSUME UNCHANGED <<loc, intent, changes, result, touched, pushFailed>>
      PROVE  PushedInv' /\ ManagedWasPushed'
    BY <1>8
<1>9. ASSUME NEW choice \in {"approved", "rejected"}, Signal(choice)
      PROVE  PushedInv' /\ ManagedWasPushed'
    BY <1>8, <1>9 DEF Signal
<1>10. ASSUME NEW i \in Intents, IntentEdited(i)
       PROVE  PushedInv' /\ ManagedWasPushed'
    BY <1>8, <1>10 DEF IntentEdited
<1>11. ASSUME NEW c \in Configs, ChangedByHand(c)
       PROVE  PushedInv' /\ ManagedWasPushed'
    BY <1>8, <1>11 DEF ChangedByHand
<1>12. CASE UNCHANGED vars
    BY <1>8, <1>12 DEF vars
<1> HIDE DEF IInv, PushedInv, ManagedWasPushed, Goto, snapshot, history
<1> QED
    BY <1>1, <1>2, <1>3, <1>4, <1>5, <1>6, <1>7, <1>9, <1>10, <1>11, <1>12
       DEF Next, Run

LEMMA InvStep == IInv /\ [Next]_vars => IInv'
<1> SUFFICES ASSUME IInv, [Next]_vars PROVE IInv'
    OBVIOUS
<1>1. TypeOK' /\ PushedInv' /\ ManagedWasPushed'
    BY TypeStep, PushedStep DEF IInv
<1>2. CASE Run
    BY <1>1, <1>2, WriteStep, ReadStep, PlanStep, WaitStep, PushStep,
       AttemptStep DEF Run, IInv
<1>3. ASSUME NEW l \in late, LateEffect(l) PROVE IInv'
    BY <1>1, <1>3, LateStep DEF IInv
<1>4. ASSUME NEW choice \in {"approved", "rejected"}, Signal(choice)
      PROVE  IInv'
    BY <1>1, <1>4, OutsideStep DEF IInv, Signal, snapshot, history
<1>5. ASSUME NEW i \in Intents, IntentEdited(i) PROVE IInv'
    BY <1>1, <1>5, OutsideStep DEF IInv, IntentEdited, snapshot, history
<1>6. ASSUME NEW c \in Configs, ChangedByHand(c) PROVE IInv'
    BY <1>1, <1>6, OutsideStep DEF IInv, ChangedByHand, snapshot, history
<1>7. CASE UNCHANGED vars
    BY <1>1, <1>7, OutsideStep DEF IInv, vars, snapshot, history
<1> QED
    BY <1>2, <1>3, <1>4, <1>5, <1>6, <1>7 DEF Next

\* What the locations of run() say about the plan, the decision, the record
\* and the pushes under way holds in every reachable state.
THEOREM Inductive == Spec => []IInv
BY InvInit, InvStep, PTL DEF Spec

\* The live router is left alone until a human approved a plan with changes,
\* and then only one version is pushed, retried and late pushes included
\* (onboard_site.py lines 107 to 152).
THEOREM ReadOnly == Spec => []ReadOnlyUntilApproved
<1>1. IInv => ReadOnlyUntilApproved
    BY DEF IInv
<1> QED
    BY Inductive, <1>1, PTL

\* No success over changes that nobody approved (onboard_site.py line 115).
THEOREM SuccessJustified == Spec => []SuccessIsJustified
<1>1. IInv => SuccessIsJustified
    BY DEF IInv
<1> QED
    BY Inductive, <1>1, PTL

\* What an execution reports is what it left in Nautobot, late writes aside
\* (onboard_site.py lines 116 to 128 and 154 to 165).
THEOREM ReportsRecorded == Spec => []ReportedIsRecorded
<1>1. IInv => ReportedIsRecorded
    BY DEF IInv
<1> QED
    BY Inductive, <1>1, PTL

\* A plan with changes is reported as MANAGED only when its version was put on
\* the router, unless push_config answered that it failed (onboard_site.py
\* lines 141 to 160).
THEOREM ManagedPushed == Spec => []ManagedWasPushed
<1>1. IInv => ManagedWasPushed
    BY DEF IInv
<1> QED
    BY Inductive, <1>1, PTL

=============================================================================

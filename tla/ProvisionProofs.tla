--------------------------- MODULE ProvisionProofs ---------------------------
(***************************************************************************)
(* Theorems about Provision for any set of runs, devices and intents, any  *)
(* retry limits, and both contracts of wait_condition.                     *)
(***************************************************************************)
EXTENDS ProvisionInvariant, TLAPS

-----------------------------------------------------------------------------
(* The tables.                                                             *)

LEMMA WriteLocsAre ==
    WriteLocs = {"write_started", "write_rendered", "write_pushed",
                 "write_passed", "write_awaiting", "write_complete",
                 "write_failed"}
BY DEF WriteLocs, StatusAt

LEMMA TableTypes ==
    ASSUME NEW l \in WriteLocs
    PROVE  /\ AfterWrite[l] \in Locs
           /\ StatusAt[l] \in Statuses
           /\ ReturnedAt(l) \in {"none", "success", "failure"}
<1>1. StatusAt[l] \in Statuses
    BY DEF Statuses
<1>2. ReturnedAt(l) \in {"none", "success", "failure"}
    BY DEF ReturnedAt
<1>3. AfterWrite[l] \in Locs
    BY WriteLocsAre DEF AfterWrite, Locs, Activities
<1> QED
    BY <1>1, <1>2, <1>3

LEMMA LimitType ==
    ASSUME NEW l
    PROVE  Limit(l) \in Nat \ {0}
BY ConstantsAssumption DEF Limit

-----------------------------------------------------------------------------
(* Type correctness.                                                       *)

LEMMA AttemptEndsType ==
    ASSUME NEW r \in Runs, RunTypes, AttemptEnds(r)
    PROVE  /\ pc' \in [Runs -> Locs]
           /\ attempt' \in [Runs -> Nat \ {0}]
           /\ result' \in [Runs -> {"none", "success", "failure", "error"}]
<1>1. {"done", "write_failed"} \subseteq Locs
    BY WriteLocsAre DEF Locs, Activities
<1> QED
    BY <1>1 DEF AttemptEnds, Goto, RunTypes

\* Every variable keeps its type in every reachable state.
LEMMA TypeInit == Init => TypeOK
<1> SUFFICES ASSUME Init PROVE TypeOK
    OBVIOUS
<1>1. "idle" \in Locs
    BY DEF Locs
<1> QED
    BY <1>1 DEF Init, RunTypes, TypeOK, Configs

LEMMA RunTypesStep == RunTypes /\ [Next]_vars => RunTypes'
<1> SUFFICES ASSUME RunTypes, [Next]_vars PROVE RunTypes'
    OBVIOUS
<1> USE DEF local, nautobot, history
<1>0. {"idle", "write_started", "fetch", "render", "write_rendered", "push",
       "write_pushed", "validate", "write_passed", "write_awaiting", "parked",
       "write_complete", "write_failed", "done"} \subseteq Locs
    BY WriteLocsAre DEF Locs, Activities
<1>1. ASSUME NEW r \in Runs, Start(r) PROVE RunTypes'
    BY <1>0, <1>1 DEF Start, Goto, RunTypes
<1>2. ASSUME NEW r \in Runs, WriteCompletes(r) PROVE RunTypes'
    <2>1. /\ AfterWrite[pc[r]] \in Locs
          /\ ReturnedAt(pc[r]) \in {"none", "success", "failure"}
        BY <1>2, TableTypes DEF WriteCompletes
    <2>3. pc' \in [Runs -> Locs] /\ attempt' \in [Runs -> Nat \ {0}]
        BY <1>2, <2>1 DEF WriteCompletes, Goto, RunTypes
    <2>4. result' \in [Runs -> {"none", "success", "failure", "error"}]
        BY <1>2, <2>1 DEF WriteCompletes, RunTypes
    <2> QED
        BY <1>2, <2>3, <2>4 DEF WriteCompletes, RunTypes
<1>3. ASSUME NEW r \in Runs, FetchCompletes(r) PROVE RunTypes'
    <2>1. nbIntent[DeviceOf[r]] \in Intents
        BY ConstantsAssumption DEF RunTypes
    <2> QED
        BY <1>0, <1>3, <2>1 DEF FetchCompletes, Goto, RunTypes
<1>4. ASSUME NEW r \in Runs, RenderCompletes(r) PROVE RunTypes'
    BY <1>0, <1>4 DEF RenderCompletes, Goto, RunTypes
<1>5. ASSUME NEW r \in Runs,
             NEW c \in {device[DeviceOf[r]], PushedConfig(r), OffIntent},
             Deliver(r, c)
      PROVE  /\ device' \in [Devices -> Configs]
             /\ pushed' \in [Runs -> SUBSET (Intents \cup {NoIntent})]
    BY <1>5, ConstantsAssumption DEF Deliver, PushedConfig, RunTypes, Configs
<1>6. ASSUME NEW r \in Runs, PushSucceeds(r) PROVE RunTypes'
    BY <1>0, <1>5, <1>6 DEF PushSucceeds, Goto, RunTypes
<1>7. ASSUME NEW r \in Runs, PushReportsFailure(r) PROVE RunTypes'
    BY <1>0, <1>5, <1>7 DEF PushReportsFailure, Goto, RunTypes
<1>8. ASSUME NEW r \in Runs, ValidationPasses(r) \/ ValidationFindsDrift(r)
      PROVE  RunTypes'
    BY <1>0, <1>8 DEF ValidationPasses, ValidationFindsDrift, Goto, RunTypes
<1>9. ASSUME NEW r \in Runs, AttemptFails(r) PROVE RunTypes'
    BY <1>9, AttemptEndsType DEF AttemptFails, RunTypes
<1>10. ASSUME NEW r \in Runs, AttemptTimesOut(r) PROVE RunTypes'
    <2>1. stragglers' \subseteq [run : Runs, at : Effects, try : Nat \ {0}]
        BY <1>10 DEF AttemptTimesOut, RunTypes
    <2> QED
        BY <1>10, <2>1, AttemptEndsType DEF AttemptTimesOut, RunTypes
<1>11. ASSUME NEW r \in Runs, ParkedRunResumes(r) PROVE RunTypes'
    BY <1>0, <1>11 DEF ParkedRunResumes, Goto, RunTypes
<1>12. ASSUME NEW r \in Runs, ParkedRunTimesOut(r) PROVE RunTypes'
    BY <1>0, <1>12 DEF ParkedRunTimesOut, Goto, RunTypes
<1>13. ASSUME NEW r \in Runs, NEW choice \in Decisions[r],
              Signal(r, choice)
       PROVE  RunTypes'
    BY <1>13, ConstantsAssumption DEF Signal, RunTypes
<1>14. ASSUME NEW s \in stragglers, StragglerLands(s) PROVE RunTypes'
    <2>1. s.run \in Runs /\ s.at \in Effects
        BY DEF RunTypes
    <2>2. stragglers' \subseteq [run : Runs, at : Effects, try : Nat \ {0}]
        BY <1>14 DEF StragglerLands, RunTypes
    <2>4. straggled' \subseteq Runs /\ latePushed' \subseteq Runs
        BY <1>14, <2>1 DEF StragglerLands, RunTypes
    <2>5. /\ device' \in [Devices -> Configs]
          /\ pushed' \in [Runs -> SUBSET (Intents \cup {NoIntent})]
        BY <1>5, <1>14, <2>1 DEF StragglerLands, RunTypes
    <2> QED
        BY <1>14, <2>2, <2>4, <2>5 DEF StragglerLands, RunTypes
<1>15. ASSUME NEW d \in Devices, ChangedByHand(d) PROVE RunTypes'
    BY <1>15 DEF ChangedByHand, RunTypes, Configs
<1>16. ASSUME NEW d \in Devices, NEW i \in Intents, IntentEdited(d, i)
       PROVE  RunTypes'
    BY <1>16 DEF IntentEdited, RunTypes
<1>17. CASE UNCHANGED vars
    BY <1>17 DEF vars, RunTypes
<1> QED
    BY <1>1, <1>2, <1>3, <1>4, <1>6, <1>7, <1>8, <1>9, <1>10, <1>11, <1>12,
       <1>13, <1>14, <1>15, <1>16, <1>17 DEF Next, Advance

\* What a straggler can be: its run and location are typed.
LEMMA StragglerType ==
    ASSUME RunTypes, NEW s \in stragglers
    PROVE  s.run \in Runs /\ s.at \in Effects
BY DEF RunTypes

\* A record is only written with the status of a location.
LEMMA PatchesAre ==
    ASSUME RunTypes, [Next]_vars
    PROVE  \/ UNCHANGED nbStatus
           \/ \E r \in Runs, l \in WriteLocs : Patch(r, l)
BY StragglerType
DEF nautobot, history, Next, Start, Signal, Advance, FetchCompletes,
    WriteCompletes, RenderCompletes, PushSucceeds, PushReportsFailure,
    ValidationPasses, ValidationFindsDrift, AttemptFails,
    AttemptTimesOut, ParkedRunResumes, ParkedRunTimesOut, StragglerLands,
    ChangedByHand, IntentEdited, vars

LEMMA TypeStep == TypeOK /\ [Next]_vars => TypeOK'
<1> SUFFICES ASSUME TypeOK, [Next]_vars PROVE TypeOK'
    OBVIOUS
<1> USE DEF TypeOK
<1>1. RunTypes'
    BY RunTypesStep
<1>2. ASSUME NEW r \in Runs, NEW l \in WriteLocs, Patch(r, l)
      PROVE  nbStatus' \in [Devices -> [status : Statuses \cup {"QUEUED"},
                                       by : SUBSET Runs]]
    BY <1>2, TableTypes DEF Patch
<1>3. \/ UNCHANGED nbStatus
      \/ \E r \in Runs, l \in WriteLocs : Patch(r, l)
    BY PatchesAre
<1> QED
    BY <1>1, <1>2, <1>3

THEOREM TypeCorrect == Spec => []TypeOK
BY TypeInit, TypeStep, PTL DEF Spec

-----------------------------------------------------------------------------
(* The inductive invariant, part by part.                                  *)

LEMMA InvariantInit == Init => IInv
<1> SUFFICES ASSUME Init PROVE IInv
    OBVIOUS
<1>1. TypeOK
    BY TypeInit
<1>2. ArtifactInv
    BY DEF Init, ArtifactInv, BeforeRender, AfterPush
<1>3. StragglerInv
    BY DEF Init, StragglerInv
<1>4. RouterInv
    BY DEF Init, RouterInv
<1>5. VerdictInv
    BY DEF Init, VerdictInv, VerdictOf, AfterPush
<1>6. RecordInv /\ ReportedIsRecorded
    BY ConstantsAssumption DEF Init, RecordInv, RecordOf, ReportedIsRecorded
<1>7. StageInv /\ ExclusiveInv /\ OwnConfigInv
    BY DEF Init, StageInv, ExclusiveInv, OwnConfigInv, OwnConfigOf, Open,
           AfterPush
<1> QED
    BY <1>1, <1>2, <1>3, <1>4, <1>5, <1>6, <1>7 DEF IInv

\* What the end of an attempt does to a run: nothing, or it leaves for the
\* handler, or it ends without a report.
LEMMA AttemptEndsMoves ==
    ASSUME RunTypes, NEW r \in Runs, AttemptEnds(r), pc[r] \in Activities,
           NEW q \in Runs
    PROVE  \/ pc'[q] = pc[q] /\ result'[q] = result[q]
           \/ /\ q = r /\ pc[q] \in Activities \ {"write_failed"}
              /\ pc'[q] = "write_failed" /\ result'[q] = result[q]
           \/ /\ q = r /\ pc[q] = "write_failed"
              /\ pc'[q] = "done" /\ result'[q] = "error"
<1>1. CASE q # r
    BY <1>1 DEF AttemptEnds, Goto, RunTypes
<1>2. CASE q = r
    BY <1>2 DEF AttemptEnds, Goto, RunTypes
<1> QED
    BY <1>1, <1>2

LEMMA ArtifactStep == IInv /\ [Next]_vars => ArtifactInv'
<1> SUFFICES ASSUME IInv, [Next]_vars PROVE ArtifactInv'
    OBVIOUS
<1> USE DEF local, nautobot, history, IInv, ArtifactInv, BeforeRender, AfterPush
<1>1. ASSUME NEW r \in Runs, Start(r) PROVE ArtifactInv'
    BY <1>1 DEF Start, Goto, RunTypes, TypeOK
<1>2. ASSUME NEW r \in Runs, WriteCompletes(r) PROVE ArtifactInv'
    BY <1>2, WriteLocsAre
    DEF WriteCompletes, AfterWrite, Goto, RunTypes, TypeOK
<1>3. ASSUME NEW r \in Runs, FetchCompletes(r) PROVE ArtifactInv'
    <2>1. nbIntent[DeviceOf[r]] # NoIntent
        BY ConstantsAssumption DEF RunTypes, TypeOK
    <2> QED
        BY <1>3, <2>1 DEF FetchCompletes, Goto, RunTypes, TypeOK
<1>4. ASSUME NEW r \in Runs, RenderCompletes(r) PROVE ArtifactInv'
    BY <1>4 DEF RenderCompletes, Goto, RunTypes, TypeOK
<1>5. ASSUME NEW r \in Runs, PushSucceeds(r) PROVE ArtifactInv'
    BY <1>5 DEF PushSucceeds, Deliver, PushedConfig, Goto, RunTypes, TypeOK
<1>6. ASSUME NEW r \in Runs, PushReportsFailure(r) PROVE ArtifactInv'
    BY <1>6
    DEF PushReportsFailure, Deliver, PushedConfig, Goto, RunTypes, TypeOK
<1>7. ASSUME NEW r \in Runs, ValidationPasses(r) \/ ValidationFindsDrift(r)
      PROVE  ArtifactInv'
    BY <1>7 DEF ValidationPasses, ValidationFindsDrift, Goto, RunTypes, TypeOK
<1>8. ASSUME NEW r \in Runs, AttemptFails(r) \/ AttemptTimesOut(r)
      PROVE  ArtifactInv'
    BY <1>8
    DEF AttemptFails, AttemptTimesOut, AttemptEnds, Goto, RunTypes, TypeOK
<1>9. ASSUME NEW r \in Runs, ParkedRunResumes(r) \/ ParkedRunTimesOut(r)
      PROVE  ArtifactInv'
    BY <1>9 DEF ParkedRunResumes, ParkedRunTimesOut, Goto, RunTypes, TypeOK
<1>10. ASSUME NEW r \in Runs, NEW choice \in Decisions[r],
              Signal(r, choice)
       PROVE  ArtifactInv'
    BY <1>10 DEF Signal
<1>11. ASSUME NEW s \in stragglers, StragglerLands(s) PROVE ArtifactInv'
    <2>1. UNCHANGED <<pc, intent, rendered>>
        BY <1>11 DEF StragglerLands
    <2>2. CASE pushed' = pushed
        BY <2>1, <2>2
    <2>3. CASE s.at = "push" /\ \E c : Deliver(s.run, c)
        <3>1. s.run \in Runs /\ pc[s.run] \notin BeforeRender
            BY <2>3, StragglerType DEF StragglerInv, TypeOK
        <3>2. pushed' = [pushed EXCEPT ![s.run] = @ \cup {rendered[s.run]}]
            BY <2>3 DEF Deliver, PushedConfig
        <3> QED
            BY <2>1, <3>1, <3>2 DEF RunTypes, TypeOK
    <2> QED
        BY <1>11, <2>2, <2>3 DEF StragglerLands
<1>12. ASSUME NEW d \in Devices, ChangedByHand(d) PROVE ArtifactInv'
    BY <1>12 DEF ChangedByHand
<1>13. ASSUME NEW d \in Devices, NEW i \in Intents, IntentEdited(d, i)
       PROVE  ArtifactInv'
    BY <1>13 DEF IntentEdited
<1>14. CASE UNCHANGED vars
    BY <1>14 DEF vars
<1> QED
    BY <1>1, <1>2, <1>3, <1>4, <1>5, <1>6, <1>7, <1>8, <1>9, <1>10, <1>11,
       <1>12, <1>13, <1>14 DEF Next, Advance

LEMMA StragglerStep == IInv /\ [Next]_vars => StragglerInv'
<1> SUFFICES ASSUME IInv, [Next]_vars PROVE StragglerInv'
    OBVIOUS
<1> USE DEF local, nautobot, history, IInv, StragglerInv, BeforeRender
<1>1. ASSUME NEW r \in Runs, Start(r) PROVE StragglerInv'
    BY <1>1 DEF Start, Goto, RunTypes, TypeOK
<1>2. ASSUME NEW r \in Runs, WriteCompletes(r) PROVE StragglerInv'
    BY <1>2, WriteLocsAre
    DEF WriteCompletes, AfterWrite, Goto, RunTypes, TypeOK
<1>3. ASSUME NEW r \in Runs, FetchCompletes(r) PROVE StragglerInv'
    BY <1>3 DEF FetchCompletes, Goto, RunTypes, TypeOK
<1>4. ASSUME NEW r \in Runs, RenderCompletes(r) PROVE StragglerInv'
    BY <1>4 DEF RenderCompletes, ArtifactInv, Goto, RunTypes, TypeOK
<1>5. ASSUME NEW r \in Runs, PushSucceeds(r) PROVE StragglerInv'
    BY <1>5 DEF PushSucceeds, Deliver, Goto, RunTypes, TypeOK
<1>6. ASSUME NEW r \in Runs, PushReportsFailure(r) PROVE StragglerInv'
    BY <1>6 DEF PushReportsFailure, Deliver, Goto, RunTypes, TypeOK
<1>7. ASSUME NEW r \in Runs, ValidationPasses(r) PROVE StragglerInv'
    BY <1>7 DEF ValidationPasses, Goto, RunTypes, TypeOK
<1>8. ASSUME NEW r \in Runs, ValidationFindsDrift(r) PROVE StragglerInv'
    BY <1>8 DEF ValidationFindsDrift, Goto, RunTypes, TypeOK
<1>9. ASSUME NEW r \in Runs, AttemptFails(r) PROVE StragglerInv'
    BY <1>9 DEF AttemptFails, AttemptEnds, Goto, RunTypes, TypeOK
<1>10. ASSUME NEW r \in Runs, AttemptTimesOut(r) PROVE StragglerInv'
    <2>1. ASSUME NEW s \in stragglers', s \notin stragglers
          PROVE  s.run = r /\ s.at = pc[r]
        <3>1. s = [run |-> r, at |-> pc[r], try |-> attempt[r]]
            BY <1>10, <2>1 DEF AttemptTimesOut
        <3> QED
            BY <3>1
    <2>2. pc[r] = "push" => rendered[r] # NoIntent /\ pc'[r] \notin BeforeRender
        BY <1>10
        DEF AttemptTimesOut, AttemptEnds, ArtifactInv, AfterPush, Goto,
                     RunTypes, TypeOK
    <2>3. \A q \in Runs \ {r} : pc'[q] = pc[q]
        BY <1>10 DEF AttemptTimesOut, AttemptEnds, Goto, RunTypes, TypeOK
    <2>4. pc[r] \notin BeforeRender => pc'[r] \notin BeforeRender
        BY <1>10 DEF AttemptTimesOut, AttemptEnds, Goto, RunTypes, TypeOK
    <2> QED
        BY <1>10, <2>1, <2>2, <2>3, <2>4, StragglerType
        DEF AttemptTimesOut, TypeOK
<1>11. ASSUME NEW r \in Runs, ParkedRunResumes(r) PROVE StragglerInv'
    BY <1>11 DEF ParkedRunResumes, Goto, RunTypes, TypeOK
<1>12. ASSUME NEW r \in Runs, ParkedRunTimesOut(r) PROVE StragglerInv'
    BY <1>12 DEF ParkedRunTimesOut, Goto, RunTypes, TypeOK
<1>13. ASSUME NEW r \in Runs, NEW choice \in Decisions[r],
              Signal(r, choice)
       PROVE  StragglerInv'
    BY <1>13 DEF Signal
<1>14. ASSUME NEW s \in stragglers, StragglerLands(s) PROVE StragglerInv'
    BY <1>14 DEF StragglerLands
<1>15. ASSUME NEW d \in Devices, ChangedByHand(d) PROVE StragglerInv'
    BY <1>15 DEF ChangedByHand
<1>16. ASSUME NEW d \in Devices, NEW i \in Intents,
              IntentEdited(d, i)
       PROVE  StragglerInv'
    BY <1>16 DEF IntentEdited
<1>17. CASE UNCHANGED vars
    BY <1>17 DEF vars
<1> QED
    BY <1>1, <1>2, <1>3, <1>4, <1>5, <1>6, <1>7, <1>8, <1>9, <1>10, <1>11,
       <1>12, <1>13, <1>14, <1>15, <1>16, <1>17 DEF Next, Advance

LEMMA RouterStep == IInv /\ [Next]_vars => RouterInv'
<1> SUFFICES ASSUME IInv, [Next]_vars PROVE RouterInv'
    OBVIOUS
<1> USE DEF local, nautobot, history, IInv, RouterInv
<1>1. ASSUME NEW r \in Runs, Start(r) PROVE RouterInv'
    BY <1>1 DEF Start
<1>2. ASSUME NEW r \in Runs, WriteCompletes(r) PROVE RouterInv'
    BY <1>2 DEF WriteCompletes
<1>3. ASSUME NEW r \in Runs, FetchCompletes(r) PROVE RouterInv'
    BY <1>3 DEF FetchCompletes
<1>4. ASSUME NEW r \in Runs, RenderCompletes(r) PROVE RouterInv'
    BY <1>4 DEF RenderCompletes
<1>5. ASSUME NEW r \in Runs, PushSucceeds(r) PROVE RouterInv'
    BY <1>5 DEF PushSucceeds, Deliver, RunTypes, TypeOK
<1>6. ASSUME NEW r \in Runs, PushReportsFailure(r) PROVE RouterInv'
    BY <1>6 DEF PushReportsFailure, Deliver, RunTypes, TypeOK
<1>7. ASSUME NEW r \in Runs, ValidationPasses(r) PROVE RouterInv'
    BY <1>7 DEF ValidationPasses
<1>8. ASSUME NEW r \in Runs, ValidationFindsDrift(r) PROVE RouterInv'
    BY <1>8 DEF ValidationFindsDrift
<1>9. ASSUME NEW r \in Runs, AttemptFails(r) PROVE RouterInv'
    BY <1>9 DEF AttemptFails
<1>10. ASSUME NEW r \in Runs, AttemptTimesOut(r) PROVE RouterInv'
    BY <1>10 DEF AttemptTimesOut
<1>11. ASSUME NEW r \in Runs, ParkedRunResumes(r) PROVE RouterInv'
    BY <1>11 DEF ParkedRunResumes
<1>12. ASSUME NEW r \in Runs, ParkedRunTimesOut(r) PROVE RouterInv'
    BY <1>12 DEF ParkedRunTimesOut
<1>13. ASSUME NEW r \in Runs, NEW choice \in Decisions[r],
              Signal(r, choice)
       PROVE  RouterInv'
    BY <1>13 DEF Signal
<1>14. ASSUME NEW s \in stragglers, StragglerLands(s) PROVE RouterInv'
    <2>1. CASE UNCHANGED <<device, pushed>>
        BY <2>1
    <2>2. CASE \E c \in {PushedConfig(s.run), OffIntent} : Deliver(s.run, c)
        <3>1. s.run \in Runs /\ DeviceOf[s.run] \in Devices
            BY StragglerType, ConstantsAssumption DEF TypeOK
        <3>2. PICK c \in {PushedConfig(s.run), OffIntent} : Deliver(s.run, c)
            BY <2>2
        <3>3. /\ device' = [device EXCEPT ![DeviceOf[s.run]] = c]
              /\ pushed'[s.run] = pushed[s.run] \cup {PushedConfig(s.run)}
              /\ \A q \in Runs : pushed[q] \subseteq pushed'[q]
            BY <3>1, <3>2 DEF Deliver, RunTypes, TypeOK
        <3> QED
            BY <3>1, <3>3 DEF RunTypes, TypeOK
    <2> QED
        BY <1>14, <2>1, <2>2 DEF StragglerLands
<1>15. ASSUME NEW d \in Devices, ChangedByHand(d) PROVE RouterInv'
    BY <1>15 DEF ChangedByHand, RunTypes, TypeOK
<1>16. ASSUME NEW d \in Devices, NEW i \in Intents,
              IntentEdited(d, i)
       PROVE  RouterInv'
    BY <1>16 DEF IntentEdited
<1>17. CASE UNCHANGED vars
    BY <1>17 DEF vars
<1> QED
    BY <1>1, <1>2, <1>3, <1>4, <1>5, <1>6, <1>7, <1>8, <1>9, <1>10, <1>11,
       <1>12, <1>13, <1>14, <1>15, <1>16, <1>17 DEF Next, Advance

LEMMA VerdictStep == IInv /\ [Next]_vars => VerdictInv'
<1> SUFFICES ASSUME IInv, [Next]_vars PROVE VerdictInv'
    OBVIOUS
<1> USE DEF local, nautobot, history, IInv,
           VerdictInv, VerdictOf, Justified, AfterPush, AfterVerdict
<1>1. ASSUME NEW r \in Runs, Start(r) PROVE VerdictInv'
    BY <1>1 DEF Start, Goto, RunTypes, TypeOK
<1>2. ASSUME NEW r \in Runs, WriteCompletes(r) PROVE VerdictInv'
    BY <1>2, WriteLocsAre
    DEF WriteCompletes, AfterWrite, ReturnedAt, Goto, RunTypes, TypeOK
<1>3. ASSUME NEW r \in Runs, FetchCompletes(r) PROVE VerdictInv'
    BY <1>3 DEF FetchCompletes, Goto, RunTypes, TypeOK
<1>4. ASSUME NEW r \in Runs, RenderCompletes(r) PROVE VerdictInv'
    BY <1>4 DEF RenderCompletes, Goto, RunTypes, TypeOK
<1>5. ASSUME NEW r \in Runs, PushSucceeds(r) PROVE VerdictInv'
    <2>1. rendered[r] # NoIntent
        BY <1>5 DEF PushSucceeds, ArtifactInv
    <2>2. \A d \in Devices : device[d] # NoIntent => device'[d] # NoIntent
        BY <1>5, <2>1 DEF PushSucceeds, Deliver, PushedConfig, RunTypes, TypeOK
    <2>3. device'[DeviceOf[r]] # NoIntent
        BY <1>5, <2>1, ConstantsAssumption
           DEF PushSucceeds, Deliver, PushedConfig, RunTypes, TypeOK
    <2> QED
        BY <1>5, <2>2, <2>3, ConstantsAssumption
        DEF PushSucceeds, Goto, RunTypes, TypeOK
<1>6. ASSUME NEW r \in Runs, PushReportsFailure(r) PROVE VerdictInv'
    <2>1. rendered[r] # NoIntent
        BY <1>6 DEF PushReportsFailure, ArtifactInv
    <2>2. \A d \in Devices : device[d] # NoIntent => device'[d] # NoIntent
        BY <1>6, <2>1, ConstantsAssumption
           DEF PushReportsFailure, Deliver, PushedConfig, RunTypes, TypeOK
    <2> QED
        BY <1>6, <2>2, ConstantsAssumption
           DEF PushReportsFailure, Goto, RunTypes, TypeOK
<1>7. ASSUME NEW r \in Runs, ValidationPasses(r) PROVE VerdictInv'
    BY <1>7 DEF ValidationPasses, ArtifactInv, Goto, RunTypes, TypeOK
<1>8. ASSUME NEW r \in Runs, ValidationFindsDrift(r) PROVE VerdictInv'
    BY <1>8 DEF ValidationFindsDrift, ArtifactInv, Goto, RunTypes, TypeOK
<1>9. ASSUME NEW r \in Runs, AttemptFails(r) \/ AttemptTimesOut(r)
      PROVE  VerdictInv'
    <2> SUFFICES ASSUME NEW q \in Runs PROVE VerdictOf(q)'
        BY DEF VerdictInv
    <2>1. /\ UNCHANGED <<verdict, decision, rendered, intent, device>>
          /\ AttemptEnds(r) /\ pc[r] \in Activities
        BY <1>9 DEF AttemptFails, AttemptTimesOut, Effects, Activities
    <2>2. VerdictOf(q)
        OBVIOUS
    <2>3. "done" \notin Activities
        BY WriteLocsAre DEF Activities
    <2>4. CASE pc'[q] = pc[q] /\ result'[q] = result[q]
        BY <2>1, <2>2, <2>4
    <2>5. CASE /\ pc[q] \in Activities
               /\ pc'[q] = "write_failed" /\ result'[q] = result[q]
        BY <2>1, <2>2, <2>3, <2>5
    <2>6. CASE pc[q] = "write_failed" /\ pc'[q] = "done" /\ result'[q] = "error"
        BY <2>1, <2>2, <2>6
    <2> QED
        BY <2>1, <2>4, <2>5, <2>6, AttemptEndsMoves DEF TypeOK
<1>11. ASSUME NEW r \in Runs, ParkedRunResumes(r) PROVE VerdictInv'
    BY <1>11 DEF ParkedRunResumes, Goto, RunTypes, TypeOK
<1>12. ASSUME NEW r \in Runs, ParkedRunTimesOut(r) PROVE VerdictInv'
    BY <1>12 DEF ParkedRunTimesOut, Goto, RunTypes, TypeOK
<1>13. ASSUME NEW r \in Runs, NEW choice \in Decisions[r],
              Signal(r, choice)
       PROVE  VerdictInv'
    BY <1>13 DEF Signal
<1>14. ASSUME NEW s \in stragglers, StragglerLands(s) PROVE VerdictInv'
    BY <1>14, StragglerType, ConstantsAssumption
       DEF StragglerLands, StragglerInv, Deliver, PushedConfig, RunTypes, TypeOK
<1>15. ASSUME NEW d \in Devices, ChangedByHand(d) PROVE VerdictInv'
    BY <1>15, ConstantsAssumption DEF ChangedByHand, RunTypes, TypeOK
<1>16. ASSUME NEW d \in Devices, NEW i \in Intents,
              IntentEdited(d, i)
       PROVE  VerdictInv'
    BY <1>16 DEF IntentEdited
<1>17. CASE UNCHANGED vars
    BY <1>17 DEF vars
<1> QED
    BY <1>1, <1>2, <1>3, <1>4, <1>5, <1>6, <1>7, <1>8, <1>9, <1>11,
       <1>12, <1>13, <1>14, <1>15, <1>16, <1>17 DEF Next, Advance

LEMMA RecordStep == IInv /\ [Next]_vars => (RecordInv /\ ReportedIsRecorded)'
<1> SUFFICES ASSUME IInv, [Next]_vars PROVE (RecordInv /\ ReportedIsRecorded)'
    OBVIOUS
<1> USE DEF local, nautobot, history, IInv,
           RecordInv, RecordOf, ReportedIsRecorded, VerdictInv,
           VerdictOf
<1>1. ASSUME NEW r \in Runs, Start(r) PROVE (RecordInv /\ ReportedIsRecorded)'
    BY <1>1 DEF Start, Goto, RunTypes, TypeOK
<1>2. ASSUME NEW r \in Runs, WriteCompletes(r)
      PROVE  (RecordInv /\ ReportedIsRecorded)'
    <2>1. nbStatus'[DeviceOf[r]] = [status |-> StatusAt[pc[r]], by |-> {r}]
        BY <1>2, ConstantsAssumption
        DEF WriteCompletes, Patch, RunTypes, TypeOK
    <2>2. /\ pc[r] \in WriteLocs /\ pc[r] # "done"
          /\ pc'[r] = AfterWrite[pc[r]]
          /\ result'[r] = ReturnedAt(pc[r])
        BY <1>2, WriteLocsAre DEF WriteCompletes, Goto, RunTypes, TypeOK
    <2>3. /\ AfterWrite[pc[r]] = "done" \/ StatusAt[pc[r]] \notin {"COMPLETE", "FAILED"}
          /\ ReturnedAt(pc[r]) = "success" => StatusAt[pc[r]] = "COMPLETE"
          /\ ReturnedAt(pc[r]) = "failure" => StatusAt[pc[r]] = "FAILED"
          /\ ReturnedAt(pc[r]) # "error"
        BY <2>2, WriteLocsAre DEF AfterWrite, StatusAt, ReturnedAt
    <2>4. ASSUME NEW q \in Runs \ {r}
          PROVE  /\ pc'[q] = pc[q] /\ result'[q] = result[q]
                 /\ \/ nbStatus'[DeviceOf[q]] = nbStatus[DeviceOf[q]]
                    \/ nbStatus'[DeviceOf[q]].by # {q}
        <3>1. pc'[q] = pc[q] /\ result'[q] = result[q]
            BY <1>2 DEF WriteCompletes, Goto, RunTypes, TypeOK
        <3>2. CASE DeviceOf[q] = DeviceOf[r]
            BY <2>1, <3>1, <3>2
        <3>3. CASE DeviceOf[q] # DeviceOf[r]
            BY <1>2, <3>1, <3>3 DEF WriteCompletes, Patch, RunTypes, TypeOK
        <3> QED
            BY <3>2, <3>3
    <2>5. straggled' = straggled
        BY <1>2 DEF WriteCompletes
    <2> QED
        BY <2>1, <2>2, <2>3, <2>4, <2>5
<1>3. ASSUME NEW r \in Runs, FetchCompletes(r)
      PROVE  (RecordInv /\ ReportedIsRecorded)'
    BY <1>3 DEF FetchCompletes, Goto, RunTypes, TypeOK
<1>4. ASSUME NEW r \in Runs, RenderCompletes(r)
      PROVE  (RecordInv /\ ReportedIsRecorded)'
    BY <1>4 DEF RenderCompletes, Goto, RunTypes, TypeOK
<1>5. ASSUME NEW r \in Runs, PushSucceeds(r)
      PROVE  (RecordInv /\ ReportedIsRecorded)'
    BY <1>5 DEF PushSucceeds, Deliver, Goto, RunTypes, TypeOK
<1>6. ASSUME NEW r \in Runs, PushReportsFailure(r)
      PROVE  (RecordInv /\ ReportedIsRecorded)'
    BY <1>6 DEF PushReportsFailure, Deliver, Goto, RunTypes, TypeOK
<1>7. ASSUME NEW r \in Runs, ValidationPasses(r)
      PROVE  (RecordInv /\ ReportedIsRecorded)'
    BY <1>7 DEF ValidationPasses, Goto, RunTypes, TypeOK
<1>8. ASSUME NEW r \in Runs, ValidationFindsDrift(r)
      PROVE  (RecordInv /\ ReportedIsRecorded)'
    BY <1>8 DEF ValidationFindsDrift, Goto, RunTypes, TypeOK
<1>9. ASSUME NEW r \in Runs, AttemptFails(r) \/ AttemptTimesOut(r)
      PROVE  (RecordInv /\ ReportedIsRecorded)'
    <2>1. /\ UNCHANGED <<nbStatus, straggled>>
          /\ AttemptEnds(r) /\ pc[r] \in Activities
        BY <1>9 DEF AttemptFails, AttemptTimesOut, Effects, Activities
    <2>2. "done" \notin Activities
        BY WriteLocsAre DEF Activities
    <2>3. \A q \in Runs :
             \/ pc'[q] = pc[q] /\ result'[q] = result[q]
             \/ pc[q] # "done" /\ result'[q] = result[q]
             \/ pc[q] # "done" /\ pc'[q] = "done" /\ result'[q] = "error"
        BY <2>1, <2>2, AttemptEndsMoves DEF TypeOK
    <2> QED
        BY <2>1, <2>3
<1>11. ASSUME NEW r \in Runs, ParkedRunResumes(r)
      PROVE  (RecordInv /\ ReportedIsRecorded)'
    BY <1>11 DEF ParkedRunResumes, Goto, RunTypes, TypeOK
<1>12. ASSUME NEW r \in Runs, ParkedRunTimesOut(r)
      PROVE  (RecordInv /\ ReportedIsRecorded)'
    <2>1. /\ UNCHANGED <<nbStatus, straggled>>
          /\ \A q \in Runs \ {r} : pc'[q] = pc[q] /\ result'[q] = result[q]
          /\ pc[r] # "done"
        BY <1>12 DEF ParkedRunTimesOut, Goto, RunTypes, TypeOK
    <2>2. \/ result'[r] = result[r]
          \/ pc'[r] = "done" /\ result'[r] = "error"
        BY <1>12 DEF ParkedRunTimesOut, Goto, RunTypes, TypeOK
    <2> QED
        BY <2>1, <2>2
<1>13. ASSUME NEW r \in Runs, NEW choice \in Decisions[r],
              Signal(r, choice)
       PROVE  (RecordInv /\ ReportedIsRecorded)'
    BY <1>13 DEF Signal
<1>14. ASSUME NEW s \in stragglers, StragglerLands(s)
      PROVE  (RecordInv /\ ReportedIsRecorded)'
    <2>1. pc' = pc /\ result' = result
        BY <1>14 DEF StragglerLands
    <2>2. CASE nbStatus' = nbStatus /\ straggled' = straggled
        BY <2>1, <2>2
    <2>3. CASE Patch(s.run, s.at) /\ straggled' = straggled \cup {s.run}
        <3>1. \A q \in Runs : \/ nbStatus'[DeviceOf[q]] = nbStatus[DeviceOf[q]]
                              \/ nbStatus'[DeviceOf[q]].by = {s.run}
            BY <2>3, ConstantsAssumption DEF Patch, RunTypes, TypeOK
        <3> QED
            BY <2>1, <2>3, <3>1
    <2> QED
        BY <1>14, <2>2, <2>3 DEF StragglerLands
<1>15. ASSUME NEW d \in Devices, ChangedByHand(d)
      PROVE  (RecordInv /\ ReportedIsRecorded)'
    BY <1>15 DEF ChangedByHand
<1>16. ASSUME NEW d \in Devices, NEW i \in Intents,
              IntentEdited(d, i)
       PROVE  (RecordInv /\ ReportedIsRecorded)'
    BY <1>16 DEF IntentEdited
<1>17. CASE UNCHANGED vars
    BY <1>17 DEF vars
<1> QED
    BY <1>1, <1>2, <1>3, <1>4, <1>5, <1>6, <1>7, <1>8, <1>9, <1>11,
       <1>12, <1>13, <1>14, <1>15, <1>16, <1>17 DEF Next, Advance

\* The stages of the writes are the ones their locations reach, and no location
\* is below the one before it.
LEMMA StagesAre ==
    /\ \A l \in WriteLocs : Stage(StatusAt[l]) = Reach(l)
    /\ \A l \in WriteLocs : Reach(l) <= Reach(AfterWrite[l])
BY WriteLocsAre DEF Stage, StatusAt, Reach, AfterWrite

LEMMA ReachType ==
    ASSUME NEW l
    PROVE  Reach(l) \in 0..6 /\ Reach(l) <= Reach("write_failed")
           /\ Reach(l) <= Reach("done")
BY DEF Reach

\* Which runs a step moves, and that they only move forward.
LEMMA RunsMove ==
    ASSUME RunTypes, [Next]_vars, NEW r \in Runs
    PROVE  /\ Reach(pc[r]) <= Reach(pc'[r])
           /\ Open(r)' => Open(r) \/ Start(r)
           /\ pc[r] \in {"idle", "done"} => pc'[r] = pc[r] \/ Start(r)
<1> USE DEF local, nautobot, history, Open
<1>0. Reach(pc[r]) \in 0..6
    BY ReachType
<1>1. CASE pc'[r] = pc[r]
    BY <1>0, <1>1
<1>2. CASE Start(r)
    BY <1>0, <1>2 DEF Start, Goto, RunTypes, Reach
<1>3. CASE WriteCompletes(r)
    <2>1. pc[r] \in WriteLocs /\ pc'[r] = AfterWrite[pc[r]]
        BY <1>3 DEF WriteCompletes, Goto, RunTypes
    <2> QED
        BY <2>1, StagesAre, WriteLocsAre
<1>4. CASE FetchCompletes(r) \/ RenderCompletes(r) \/ PushSucceeds(r)
           \/ PushReportsFailure(r) \/ ValidationPasses(r)
           \/ ValidationFindsDrift(r)
    BY <1>4 DEF FetchCompletes, RenderCompletes, PushSucceeds,
                PushReportsFailure, ValidationPasses, ValidationFindsDrift,
                Goto, RunTypes, Reach
<1>5. CASE AttemptFails(r) \/ AttemptTimesOut(r)
    <2>1. pc[r] \in Activities /\ AttemptEnds(r)
        BY <1>5 DEF AttemptFails, AttemptTimesOut, Effects, Activities
    <2>2. pc[r] \notin {"idle", "done"}
        BY <2>1, WriteLocsAre DEF Activities
    <2>3. pc'[r] \in {pc[r], "write_failed", "done"}
        BY <2>1, AttemptEndsMoves
    <2> QED
        BY <1>0, <2>2, <2>3, ReachType
<1>6. CASE ParkedRunResumes(r) \/ ParkedRunTimesOut(r)
    <2>1. pc[r] = "parked"
          /\ pc'[r] \in {"write_complete", "write_failed", "done"}
        BY <1>6 DEF ParkedRunResumes, ParkedRunTimesOut, Goto, RunTypes
    <2> QED
        BY <2>1 DEF Reach
<1>7. ASSUME NEW q \in Runs \ {r}, Start(q) \/ Advance(q)
      PROVE  pc'[r] = pc[r]
    <2>1. CASE Start(q)
        BY <2>1 DEF Start, Goto, RunTypes
    <2>2. CASE Advance(q)
        BY <2>2 DEF Advance, WriteCompletes, FetchCompletes, RenderCompletes,
                    PushSucceeds, PushReportsFailure, ValidationPasses,
                    ValidationFindsDrift, AttemptFails, AttemptTimesOut,
                    AttemptEnds, ParkedRunResumes, ParkedRunTimesOut, Goto,
                    RunTypes
    <2> QED
        BY <1>7, <2>1, <2>2
<1>8. CASE UNCHANGED pc
    BY <1>1, <1>8
<1> QED
    BY <1>1, <1>2, <1>3, <1>4, <1>5, <1>6, <1>7, <1>8
    DEF Next, Advance, Signal, StragglerLands, ChangedByHand, IntentEdited,
        vars

\* Who writes a record: a run at its location, or a straggler of it.
LEMMA WriterIs ==
    ASSUME DOMAIN nbStatus = Devices, [Next]_vars, NEW d \in Devices
    PROVE  \/ nbStatus'[d] = nbStatus[d]
           \/ \E r \in Runs :
                 /\ WriteCompletes(r) /\ pc[r] \in WriteLocs
                 /\ nbStatus'[d] = [status |-> StatusAt[pc[r]], by |-> {r}]
           \/ \E s \in stragglers :
                 /\ s \notin stragglers' /\ s.at \in WriteLocs
                 /\ straggled' = straggled \cup {s.run}
                 /\ nbStatus'[d] = [status |-> StatusAt[s.at], by |-> {s.run}]
<1> USE DEF local, nautobot, history
<1>1. ASSUME NEW r \in Runs, WriteCompletes(r)
      PROVE  \/ nbStatus'[d] = nbStatus[d]
             \/ /\ pc[r] \in WriteLocs
                /\ nbStatus'[d] = [status |-> StatusAt[pc[r]], by |-> {r}]
    BY <1>1 DEF WriteCompletes, Patch
<1>2. ASSUME NEW s \in stragglers, StragglerLands(s)
      PROVE  \/ nbStatus'[d] = nbStatus[d]
             \/ /\ s \notin stragglers' /\ s.at \in WriteLocs
                /\ straggled' = straggled \cup {s.run}
                /\ nbStatus'[d] = [status |-> StatusAt[s.at], by |-> {s.run}]
    BY <1>2 DEF StragglerLands, Patch
<1>3. CASE UNCHANGED nbStatus
    BY <1>3
<1> QED
    BY <1>1, <1>2, <1>3
    DEF Next, Start, Signal, Advance, FetchCompletes, RenderCompletes,
        PushSucceeds, PushReportsFailure, ValidationPasses,
        ValidationFindsDrift, AttemptFails, AttemptTimesOut,
        ParkedRunResumes, ParkedRunTimesOut, ChangedByHand, IntentEdited, vars

\* Only an attempt that times out leaves something behind.
LEMMA StragglersAre ==
    ASSUME [Next]_vars, NEW s \in stragglers'
    PROVE  \/ s \in stragglers
           \/ \E r \in Runs : s.run = r /\ s.at = pc[r]
<1> USE DEF local, nautobot, history
<1>1. ASSUME NEW r \in Runs, AttemptTimesOut(r)
      PROVE  s \in stragglers \/ (s.run = r /\ s.at = pc[r])
    BY <1>1 DEF AttemptTimesOut
<1>2. CASE stragglers' \subseteq stragglers
    BY <1>2
<1> QED
    BY <1>1, <1>2
    DEF Next, Start, Signal, Advance, WriteCompletes, FetchCompletes,
        RenderCompletes, PushSucceeds, PushReportsFailure, ValidationPasses,
        ValidationFindsDrift, AttemptFails, StragglerLands, ParkedRunResumes,
        ParkedRunTimesOut, ChangedByHand, IntentEdited, vars

LEMMA StageType ==
    ASSUME NEW status
    PROVE  Stage(status) \in 0..6
BY DEF Stage

LEMMA StageStep == IInv /\ [Next]_vars => StageInv'
<1> SUFFICES ASSUME IInv, [Next]_vars PROVE StageInv'
    OBVIOUS
<1> USE DEF IInv
<1>1. \A l : Reach(l) \in Int /\ \A status : Stage(status) \in Int
    BY ReachType, StageType
<1>2. \A r \in Runs : Reach(pc[r]) <= Reach(pc'[r])
    BY RunsMove DEF TypeOK
<1>3. ASSUME NEW d \in Devices, NEW r \in Runs, nbStatus'[d].by = {r}
      PROVE  Stage(nbStatus'[d].status) <= Reach(pc'[r])
    <2>1. Stage(nbStatus'[d].status) <= Reach(pc[r])
        <3>1. CASE nbStatus'[d] = nbStatus[d]
            BY <1>3, <3>1 DEF StageInv
        <3>2. ASSUME NEW q \in Runs, pc[q] \in WriteLocs,
                     nbStatus'[d] = [status |-> StatusAt[pc[q]], by |-> {q}]
              PROVE  Stage(nbStatus'[d].status) <= Reach(pc[r])
            <4>1. q = r
                BY <1>3, <3>2
            <4>2. Stage(StatusAt[pc[q]]) = Reach(pc[q])
                BY <3>2, StagesAre
            <4> QED
                BY <1>1, <3>2, <4>1, <4>2
        <3>3. ASSUME NEW s \in stragglers, s.at \in WriteLocs,
                     nbStatus'[d] = [status |-> StatusAt[s.at], by |-> {s.run}]
              PROVE  Stage(nbStatus'[d].status) <= Reach(pc[r])
            <4>1. s.run = r
                BY <1>3, <3>3
            <4> QED
                BY <3>3, <4>1 DEF StageInv
        <3> QED
            BY <3>1, <3>2, <3>3, WriterIs DEF TypeOK
    <2> QED
        BY <1>1, <1>2, <2>1
<1>4. ASSUME NEW s \in stragglers', s.at \in WriteLocs
      PROVE  Stage(StatusAt[s.at]) <= Reach(pc'[s.run])
    <2>1. s.run \in Runs
        BY <1>4, StragglersAre, StragglerType DEF TypeOK
    <2>2. Stage(StatusAt[s.at]) <= Reach(pc[s.run])
        BY <1>1, <1>4, StragglersAre, StagesAre DEF StageInv
    <2> QED
        BY <1>1, <1>2, <2>1, <2>2
<1> QED
    BY <1>3, <1>4 DEF StageInv

LEMMA ExclusiveStep == IInv /\ [Next]_vars => ExclusiveInv'
<1> SUFFICES ASSUME IInv, [Next]_vars, NEW q \in Runs, NEW r \in Runs,
                    IdOf[q] = IdOf[r], Open(q)', Open(r)', q # r
             PROVE  FALSE
    BY DEF ExclusiveInv
<1> USE DEF IInv
<1>1. ASSUME NEW p \in Runs, Start(p), NEW o \in Runs \ {p}
      PROVE  pc'[o] = pc[o]
    BY <1>1 DEF Start, Goto, RunTypes, TypeOK
<1>2. ASSUME Start(q) PROVE FALSE
    BY <1>1, <1>2 DEF Start, Open
<1>3. ASSUME Start(r) PROVE FALSE
    BY <1>1, <1>3 DEF Start, Open
<1>4. Open(q) /\ Open(r)
    BY <1>2, <1>3, RunsMove DEF IInv, TypeOK
<1> QED
    BY <1>4 DEF ExclusiveInv

\* The histories of pushes only grow.
LEMMA PushesGrow ==
    ASSUME TypeOK, [Next]_vars
    PROVE  /\ \A q \in Runs : pushed[q] \subseteq pushed'[q]
           /\ latePushed \subseteq latePushed'
<1> USE DEF local, nautobot, history
<1>1. ASSUME NEW q \in Runs, NEW c, Deliver(q, c)
      PROVE  \A r \in Runs : pushed[r] \subseteq pushed'[r]
    BY <1>1 DEF Deliver, RunTypes, TypeOK
<1>2. ASSUME NEW q \in Runs, PushSucceeds(q) \/ PushReportsFailure(q)
      PROVE  /\ \A r \in Runs : pushed[r] \subseteq pushed'[r]
             /\ latePushed \subseteq latePushed'
    BY <1>1, <1>2 DEF PushSucceeds, PushReportsFailure
<1>3. ASSUME NEW s \in stragglers, StragglerLands(s)
      PROVE  /\ \A r \in Runs : pushed[r] \subseteq pushed'[r]
             /\ latePushed \subseteq latePushed'
    BY <1>1, <1>3, StragglerType DEF StragglerLands, TypeOK
<1>4. CASE pushed' = pushed /\ latePushed' = latePushed
    BY <1>4
<1> QED
    BY <1>2, <1>3, <1>4
    DEF Next, Start, Signal, Advance, WriteCompletes, FetchCompletes,
        RenderCompletes, ValidationPasses, ValidationFindsDrift, AttemptFails,
        AttemptTimesOut, ParkedRunResumes, ParkedRunTimesOut, ChangedByHand,
        IntentEdited, vars

\* What a step does to the router of an open run that is past its push: no
\* other run of its workflow id pushes, except late.
LEMMA OwnConfigStep == IInv /\ [Next]_vars => OwnConfigInv'
<1> SUFFICES ASSUME IInv, [Next]_vars, NEW r \in Runs, pc'[r] \in AfterPush
             PROVE  \/ device'[DeviceOf[r]] \in {intent'[r], OffIntent}
                    \/ Displaced(r)'
    BY DEF OwnConfigInv, OwnConfigOf
<1> USE DEF IInv, local, nautobot, history
<1> DEFINE d == DeviceOf[r]
<1>0. d \in Devices
    BY ConstantsAssumption
<1>1. \/ /\ pc'[r] = "write_pushed" /\ PushSucceeds(r)
      \/ /\ pc[r] \in AfterPush /\ intent'[r] = intent[r]
    <2>1. ASSUME NEW q \in Runs, Start(q) \/ Advance(q), q # r
          PROVE  pc'[r] = pc[r] /\ intent'[r] = intent[r]
        BY <2>1 DEF Start, Advance, WriteCompletes, FetchCompletes,
                    RenderCompletes, PushSucceeds, PushReportsFailure,
                    ValidationPasses, ValidationFindsDrift, AttemptFails,
                    AttemptTimesOut, AttemptEnds, ParkedRunResumes,
                    ParkedRunTimesOut, Goto, RunTypes, TypeOK
    <2>2. CASE Start(r) \/ FetchCompletes(r) \/ RenderCompletes(r)
               \/ PushReportsFailure(r) \/ PushSucceeds(r)
        BY <2>2 DEF Start, FetchCompletes, RenderCompletes,
                    PushReportsFailure, PushSucceeds, Goto, RunTypes, TypeOK, AfterPush
    <2>3. CASE WriteCompletes(r)
        BY <2>3, WriteLocsAre
           DEF WriteCompletes, Goto, RunTypes, TypeOK, AfterPush, AfterWrite
    <2>4. CASE AttemptFails(r) \/ AttemptTimesOut(r)
        BY <2>4
        DEF AttemptFails, AttemptTimesOut, AttemptEnds, Goto, RunTypes, TypeOK,
                    AfterPush
    <2>5. CASE ValidationPasses(r) \/ ValidationFindsDrift(r)
               \/ ParkedRunResumes(r) \/ ParkedRunTimesOut(r)
        BY <2>5 DEF ValidationPasses, ValidationFindsDrift, ParkedRunResumes,
                    ParkedRunTimesOut, Goto, RunTypes, TypeOK, AfterPush
    <2>6. CASE UNCHANGED <<pc, intent>>
        BY <2>6
    <2> QED
        BY <2>1, <2>2, <2>3, <2>4, <2>5, <2>6
        DEF Next, Advance, Signal, StragglerLands, ChangedByHand,
            IntentEdited, vars
<1>2. CASE PushSucceeds(r)
    <2>1. pc[r] = "push" /\ device'[d] = rendered[r] /\ intent' = intent
        BY <1>0, <1>2 DEF PushSucceeds, Deliver, PushedConfig, RunTypes, TypeOK
    <2> QED
        BY <2>1 DEF ArtifactInv
<1>3. CASE pc[r] \in AfterPush /\ intent'[r] = intent[r]
    <2>1. rendered[r] = intent[r]
        BY <1>3 DEF ArtifactInv
    <2>2. /\ \A q \in Runs : pushed[q] \subseteq pushed'[q]
          /\ latePushed \subseteq latePushed'
        BY PushesGrow
    <2>4. CASE device'[d] = device[d]
        <3>1. Displaced(r) => Displaced(r)'
            BY <2>2, <2>4 DEF Displaced
        <3> QED
            BY <1>3, <2>4, <3>1 DEF OwnConfigInv, OwnConfigOf
    <2>5. CASE device'[d] = OffIntent
        BY <2>5
    <2>6. ASSUME NEW q \in Runs, PushSucceeds(q) \/ PushReportsFailure(q),
                 device'[d] # device[d], device'[d] # OffIntent
          PROVE  Displaced(r)'
        <3>1. /\ pc[q] = "push" /\ DeviceOf[q] = d
              /\ device'[d] \in pushed'[q]
            BY <1>0, <2>6 DEF PushSucceeds, PushReportsFailure, Deliver,
                              RunTypes, TypeOK
        <3>2. q # r /\ Open(q) /\ Open(r)
            BY <1>3, <3>1 DEF AfterPush, Open
        <3>3. IdOf[q] # IdOf[r]
            BY <3>2 DEF ExclusiveInv
        <3> QED
            BY <3>1, <3>2, <3>3 DEF Displaced
    <2>7. ASSUME NEW s \in stragglers, StragglerLands(s),
                 device'[d] # device[d], device'[d] # OffIntent
          PROVE  device'[d] = intent[r] \/ Displaced(r)'
        <3>1. /\ s.run \in Runs /\ DeviceOf[s.run] = d
              /\ device'[d] = PushedConfig(s.run)
              /\ device'[d] \in pushed'[s.run]
              /\ s.run \in latePushed'
            BY <1>0, <2>7, StragglerType
            DEF StragglerLands, Deliver, RunTypes, TypeOK
        <3> QED
            BY <2>1, <3>1 DEF Displaced, PushedConfig
    <2>8. ASSUME NEW e \in Devices, ChangedByHand(e)
          PROVE  device'[d] \in {device[d], OffIntent}
        BY <1>0, <2>8 DEF ChangedByHand, RunTypes, TypeOK
    <2>9. CASE UNCHANGED device
        BY <2>4, <2>9
    <2> QED
        BY <1>3, <2>4, <2>5, <2>6, <2>7, <2>8, <2>9
        DEF Next, Start, Signal, Advance, WriteCompletes, FetchCompletes,
            RenderCompletes, ValidationPasses, ValidationFindsDrift,
            AttemptFails, AttemptTimesOut, ParkedRunResumes,
            ParkedRunTimesOut, IntentEdited, vars
<1> QED
    BY <1>1, <1>2, <1>3

\* IInv is inductive, so it holds of every reachable state.
LEMMA InvariantStep == IInv /\ [Next]_vars => IInv'
<1> SUFFICES ASSUME IInv, [Next]_vars PROVE IInv'
    OBVIOUS
<1>1. TypeOK'
    BY TypeStep DEF IInv
<1> QED
    BY <1>1, ArtifactStep, StragglerStep, RouterStep, VerdictStep, RecordStep,
       StageStep, ExclusiveStep, OwnConfigStep DEF IInv

THEOREM Inductive == Spec => []IInv
BY InvariantInit, InvariantStep, PTL DEF Spec

-----------------------------------------------------------------------------
(* The safety invariants the runs check.                                   *)

\* Whatever the limits and the number of runs, all attempts of push_config of
\* one run deliver the same config.
THEOREM PushesAgree == Spec => []OneConfigPerRun
<1>1. IInv => OneConfigPerRun
    BY DEF IInv, ArtifactInv, OneConfigPerRun
<1> QED
    BY <1>1, Inductive, PTL

\* No run reports success without a passed validation or a human approval of
\* the drift, whichever contract wait_condition has.
THEOREM SuccessJustified == Spec => []SuccessIsJustified
<1>1. IInv => SuccessIsJustified
    BY DEF IInv, VerdictInv, VerdictOf, Justified, SuccessIsJustified
<1> QED
    BY <1>1, Inductive, PTL

\* What a run reports is what it left in Nautobot, other runs and stragglers
\* aside.
THEOREM ReportsRecorded == Spec => []ReportedIsRecorded
<1>1. IInv => ReportedIsRecorded
    BY DEF IInv
<1> QED
    BY <1>1, Inductive, PTL

\* The stage shown in a record that one run owns never goes back, whatever its
\* retries, handlers and human decisions, unless a straggler lands; for any
\* number of runs and devices (models.py lines 30 to 38).
THEOREM MovesForward == Spec => StatusMovesForward
<1>1. IInv /\ [Next]_vars =>
         [\A d \in Devices :
             nbStatus[d].by = nbStatus'[d].by /\ stragglers \subseteq stragglers'
               => Stage(nbStatus[d].status) <= Stage(nbStatus'[d].status)]_vars
    <2> SUFFICES ASSUME IInv, [Next]_vars, NEW d \in Devices,
                        nbStatus[d].by = nbStatus'[d].by,
                        stragglers \subseteq stragglers'
                 PROVE  Stage(nbStatus[d].status) <= Stage(nbStatus'[d].status)
        OBVIOUS
    <2>1. CASE nbStatus'[d] = nbStatus[d]
        BY <2>1, StageType
    <2>2. CASE nbStatus'[d] # nbStatus[d]
        <3>1. PICK r \in Runs :
                 /\ pc[r] \in WriteLocs
                 /\ nbStatus'[d] = [status |-> StatusAt[pc[r]], by |-> {r}]
            BY <2>2, WriterIs DEF IInv, TypeOK
        <3>2. Stage(nbStatus[d].status) <= Reach(pc[r])
            BY <3>1 DEF IInv, StageInv
        <3> QED
            BY <3>1, <3>2, StagesAre
    <2> QED
        BY <2>1, <2>2
<1> QED
    BY <1>1, Inductive, PTL DEF Spec, StatusMovesForward

\* A run whose validation passed returns success with its own config on the
\* router, unless a run under another workflow id or a late push has replaced
\* it, or somebody by hand: the id serialises the runs under it, whatever their
\* number and the ids in use (provision_site.py lines 115 to 116).
THEOREM SucceedsOnOwnConfig == Spec => SuccessOnOwnConfig
<1> DEFINE Own(r) ==
        \/ device[DeviceOf[r]] \in {intent[r], OffIntent}
        \/ \E q \in Runs \ {r} :
              /\ DeviceOf[q] = DeviceOf[r]
              /\ device[DeviceOf[r]] \in pushed[q]
              /\ IdOf[q] # IdOf[r] \/ q \in latePushed
<1>1. IInv /\ [Next]_vars =>
         [\A r \in Runs :
             result[r] = "none" /\ result'[r] = "success"
             /\ verdict[r] = "passed" => Own(r)]_vars
    <2> SUFFICES ASSUME IInv, [Next]_vars, NEW r \in Runs,
                        result[r] = "none", result'[r] = "success"
                 PROVE  Own(r)
        OBVIOUS
    <2>1. pc[r] = "write_complete"
        <3>1. ASSUME NEW q \in Runs, WriteCompletes(q)
              PROVE  pc[r] = "write_complete"
            BY <3>1, WriteLocsAre
               DEF WriteCompletes, ReturnedAt, IInv, RunTypes, TypeOK
        <3>2. ASSUME NEW q \in Runs, AttemptFails(q) \/ AttemptTimesOut(q)
              PROVE  FALSE
            BY <3>2 DEF AttemptFails, AttemptTimesOut, AttemptEnds, IInv,
                        RunTypes, TypeOK
        <3>3. ASSUME NEW q \in Runs, ParkedRunTimesOut(q)
              PROVE  FALSE
            BY <3>3 DEF ParkedRunTimesOut, IInv, RunTypes, TypeOK
        <3>4. result' # result
            OBVIOUS
        <3> QED
            BY <3>1, <3>2, <3>3, <3>4
            DEF Next, Start, Signal, Advance, FetchCompletes, RenderCompletes,
                PushSucceeds, PushReportsFailure, ValidationPasses,
                ValidationFindsDrift, StragglerLands, ParkedRunResumes,
                ChangedByHand, IntentEdited, vars
    <2> QED
        BY <2>1 DEF IInv, OwnConfigInv, OwnConfigOf, Displaced, AfterPush
<1> QED
    BY <1>1, Inductive, PTL DEF Spec, SuccessOnOwnConfig

-----------------------------------------------------------------------------
(* Provision implements ProvisionPromise.                                  *)

Phase == [r \in Runs |-> PhaseAt(pc[r])]
Delivered == [r \in Runs |-> pushed[r] # {}]

LEMMA PromiseInit == Init => Promise!Init
BY DEF Init, Promise!Init, PhaseAt

\* A move of one run, seen from the promise.
LEMMA PhaseMoves ==
    ASSUME TypeOK, NEW r \in Runs, NEW l, pc' = [pc EXCEPT ![r] = l]
    PROVE  /\ Phase' = [Phase EXCEPT ![r] = PhaseAt(l)]
           /\ PhaseAt(l) = PhaseAt(pc[r]) => Phase' = Phase
BY DEF Phase, RunTypes, TypeOK

\* A delivery, seen from the promise.
LEMMA DeliveredMoves ==
    ASSUME TypeOK, NEW r \in Runs, NEW c, Deliver(r, c)
    PROVE  /\ Delivered' = [Delivered EXCEPT ![r] = TRUE]
           /\ device' = [device EXCEPT ![DeviceOf[r]] = c]
BY DEF Deliver, Delivered, RunTypes, TypeOK

\* Steps that keep the phases and touch neither artifact, router nor report.
LEMMA PromiseStutters ==
    ASSUME Phase' = Phase, UNCHANGED <<rendered, pushed, device, result>>
    PROVE  UNCHANGED Promise!vars
BY DEF Promise!vars, Phase

\* Moves between two phases that touch nothing else.
LEMMA PromiseMoves ==
    ASSUME TypeOK, NEW r \in Runs, NEW l, pc' = [pc EXCEPT ![r] = l],
           UNCHANGED <<rendered, pushed, device, result>>
    PROVE  /\ /\ PhaseAt(pc[r]) = "working" /\ PhaseAt(l) = "review"
              /\ pushed[r] # {}
              => Promise!AskHuman(r)
           /\ /\ PhaseAt(pc[r]) \in {"working", "review"}
              /\ PhaseAt(l) = "accepting" /\ pushed[r] # {}
              => Promise!Accept(r)
           /\ /\ PhaseAt(pc[r]) \in {"working", "review", "accepting"}
              /\ PhaseAt(l) = "refusing"
              => Promise!Refuse(r)
           /\ PhaseAt(pc[r]) = "queued" /\ PhaseAt(l) = "working"
              => Promise!Begin(r)
           /\ PhaseAt(pc[r]) = PhaseAt(l) => UNCHANGED Promise!vars
<1>1. /\ Phase' = [Phase EXCEPT ![r] = PhaseAt(l)]
      /\ PhaseAt(l) = PhaseAt(pc[r]) => Phase' = Phase
    BY PhaseMoves
<1>2. PhaseAt(pc[r]) = PhaseAt(l) => UNCHANGED Promise!vars
    BY <1>1, PromiseStutters
<1> QED
    BY <1>1, <1>2 DEF Phase, Promise!AskHuman, Promise!Accept, Promise!Refuse,
                      Promise!Begin

\* A report of the run, seen from the promise.
LEMMA PromiseCloses ==
    ASSUME TypeOK, NEW r \in Runs, NEW o, pc' = [pc EXCEPT ![r] = "done"],
           result' = [result EXCEPT ![r] = o],
           UNCHANGED <<rendered, pushed, device>>,
           \/ PhaseAt(pc[r]) = "accepting" /\ o = "success"
           \/ PhaseAt(pc[r]) = "refusing" /\ o \in {"failure", "error"}
           \/ PhaseAt(pc[r]) = "review" /\ o = "error"
    PROVE  Promise!Close(r, o) /\ o \in {"success", "failure", "error"}
<1>1. Phase' = [Phase EXCEPT ![r] = "closed"]
    BY PhaseMoves DEF PhaseAt
<1> QED
    BY <1>1 DEF Phase, Promise!Close

\* Each completed status write is a report, an acceptance or nothing.
LEMMA PromiseWrite ==
    ASSUME IInv, NEW r \in Runs, WriteCompletes(r)
    PROVE  \/ Promise!Accept(r)
           \/ \E o \in {"success", "failure", "error"} : Promise!Close(r, o)
           \/ UNCHANGED Promise!vars
<1> USE DEF history
<1>1. TypeOK /\ pc[r] \in WriteLocs
    BY DEF IInv, WriteCompletes
<1>2. /\ pc' = [pc EXCEPT ![r] = AfterWrite[pc[r]]]
      /\ UNCHANGED <<rendered, pushed, device>>
      /\ result' = [result EXCEPT ![r] = ReturnedAt(pc[r])]
    BY DEF WriteCompletes, Goto, local
<1>3. CASE ReturnedAt(pc[r]) = "none"
    <2>1. result' = result
        BY <1>1, <1>2, <1>3, WriteLocsAre
           DEF IInv, VerdictInv, VerdictOf, RunTypes, TypeOK
    <2>2. CASE pc[r] = "write_passed"
        <3>1. AfterWrite[pc[r]] = "write_complete"
            BY <2>2 DEF AfterWrite
        <3>2. PhaseAt(pc[r]) = "working" /\ PhaseAt("write_complete") = "accepting"
            BY <2>2 DEF PhaseAt
        <3>3. pushed[r] # {}
            BY <2>2 DEF IInv, ArtifactInv, AfterPush
        <3> QED
            BY <1>1, <1>2, <2>1, <3>1, <3>2, <3>3, PromiseMoves
    <2>3. CASE pc[r] # "write_passed"
        <3>1. PhaseAt(pc[r]) = PhaseAt(AfterWrite[pc[r]])
            BY <1>1, <1>3, <2>3, WriteLocsAre
               DEF PhaseAt, AfterWrite, ReturnedAt
        <3> QED
            BY <1>1, <1>2, <2>1, <3>1, PromiseMoves
    <2> QED
        BY <2>2, <2>3
<1>4. CASE pc[r] \in {"write_complete", "write_failed"}
    <2>1. /\ AfterWrite[pc[r]] = "done"
          /\ \/ PhaseAt(pc[r]) = "accepting" /\ ReturnedAt(pc[r]) = "success"
             \/ PhaseAt(pc[r]) = "refusing" /\ ReturnedAt(pc[r]) = "failure"
        BY <1>4 DEF AfterWrite, PhaseAt, ReturnedAt
    <2> QED
        BY <1>1, <1>2, <2>1, PromiseCloses
<1> QED
    BY <1>3, <1>4 DEF ReturnedAt

\* The end of an attempt is a refusal, the end of the run, or nothing.
LEMMA PromiseAttemptEnds ==
    ASSUME IInv, NEW r \in Runs, AttemptEnds(r), pc[r] \in Activities,
           UNCHANGED <<rendered, pushed, device>>
    PROVE  \/ Promise!Refuse(r)
           \/ Promise!Close(r, "error")
           \/ UNCHANGED Promise!vars
<1>1. TypeOK
    BY DEF IInv
<1>2. CASE pc' = pc /\ result' = result
    BY <1>2, PromiseStutters DEF Phase
<1>3. CASE pc[r] = "write_failed" /\ pc' = [pc EXCEPT ![r] = "done"]
           /\ result' = [result EXCEPT ![r] = "error"]
    BY <1>1, <1>3, PromiseCloses DEF PhaseAt
<1>4. CASE pc[r] # "write_failed" /\ pc' = [pc EXCEPT ![r] = "write_failed"]
           /\ result' = result
    <2>1. PhaseAt(pc[r]) \in {"working", "review", "accepting"}
        BY <1>4, WriteLocsAre DEF PhaseAt, Activities
    <2>2. PhaseAt("write_failed") = "refusing"
        BY DEF PhaseAt
    <2> QED
        BY <1>1, <1>4, <2>1, <2>2, PromiseMoves
<1> QED
    BY <1>2, <1>3, <1>4 DEF AttemptEnds, Goto

\* A decision, or the end of the wait.
LEMMA PromiseUnparks ==
    ASSUME IInv, NEW r \in Runs, ParkedRunResumes(r) \/ ParkedRunTimesOut(r)
    PROVE  Promise!Accept(r) \/ Promise!Refuse(r) \/ Promise!Close(r, "error")
<1> USE DEF history, local
<1>1. TypeOK /\ pc[r] = "parked" /\ PhaseAt(pc[r]) = "review" /\ pushed[r] # {}
    BY DEF IInv, ArtifactInv, AfterPush, ParkedRunResumes, ParkedRunTimesOut,
           PhaseAt
<1>2. UNCHANGED <<rendered, pushed, device>>
    BY DEF ParkedRunResumes, ParkedRunTimesOut
<1>3. PhaseAt("write_complete") = "accepting" /\ PhaseAt("write_failed") = "refusing"
    BY DEF PhaseAt
<1>4. \/ pc' = [pc EXCEPT ![r] = "write_complete"] /\ result' = result
      \/ pc' = [pc EXCEPT ![r] = "write_failed"] /\ result' = result
      \/ /\ pc' = [pc EXCEPT ![r] = "done"]
         /\ result' = [result EXCEPT ![r] = "error"]
    BY DEF ParkedRunResumes, ParkedRunTimesOut, Goto
<1>5. CASE pc' = [pc EXCEPT ![r] = "write_complete"] /\ result' = result
    BY <1>1, <1>2, <1>3, <1>5, PromiseMoves
<1>6. CASE pc' = [pc EXCEPT ![r] = "write_failed"] /\ result' = result
    BY <1>1, <1>2, <1>3, <1>6, PromiseMoves
<1>7. CASE pc' = [pc EXCEPT ![r] = "done"]
           /\ result' = [result EXCEPT ![r] = "error"]
    BY <1>1, <1>2, <1>7, PromiseCloses
<1> QED
    BY <1>4, <1>5, <1>6, <1>7

LEMMA PromiseStep == IInv /\ [Next]_vars => [Promise!Next]_(Promise!vars)
<1> SUFFICES ASSUME IInv, [Next]_vars PROVE [Promise!Next]_(Promise!vars)
    OBVIOUS
<1> USE DEF local, nautobot, history
<1> DEFINE Same == UNCHANGED Promise!vars
<1>0. TypeOK
    BY DEF IInv
<1>1. ASSUME NEW r \in Runs, Start(r) PROVE Promise!Begin(r)
    <2>1. pc' = [pc EXCEPT ![r] = "write_started"] /\ pc[r] = "idle"
        BY <1>1 DEF Start, Goto
    <2>2. PhaseAt("idle") = "queued" /\ PhaseAt("write_started") = "working"
        BY DEF PhaseAt
    <2>3. UNCHANGED <<rendered, pushed, device, result>>
        BY <1>1 DEF Start
    <2> QED
        BY <1>0, <2>1, <2>2, <2>3, PromiseMoves
<1>2. ASSUME NEW r \in Runs, FetchCompletes(r) PROVE Same
    <2>1. pc' = [pc EXCEPT ![r] = "render"] /\ pc[r] = "fetch"
        BY <1>2 DEF FetchCompletes, Goto
    <2>2. PhaseAt("fetch") = PhaseAt("render")
        BY DEF PhaseAt
    <2>3. UNCHANGED <<rendered, pushed, device, result>>
        BY <1>2 DEF FetchCompletes
    <2> QED
        BY <1>0, <2>1, <2>2, <2>3, PromiseMoves
<1>3. ASSUME NEW r \in Runs, RenderCompletes(r)
      PROVE  \E i \in Intents : Promise!Settle(r, i)
    <2>1. rendered[r] = NoIntent /\ intent[r] \in Intents
        BY <1>0, <1>3
           DEF IInv, ArtifactInv, BeforeRender, RenderCompletes, RunTypes, TypeOK
    <2>2. pc' = [pc EXCEPT ![r] = "write_rendered"] /\ pc[r] = "render"
        BY <1>3 DEF RenderCompletes, Goto
    <2>3. PhaseAt("render") = "working" /\ PhaseAt("write_rendered") = "working"
        BY DEF PhaseAt
    <2>4. Phase' = Phase
        BY <1>0, <2>2, <2>3, PhaseMoves
    <2>5. Promise!Settle(r, intent[r])
        BY <1>3, <2>1, <2>2, <2>3, <2>4
           DEF RenderCompletes, Promise!Settle, Phase
    <2> QED
        BY <2>1, <2>5
<1>4. ASSUME NEW r \in Runs, PushSucceeds(r)
      PROVE  \E c \in {rendered[r], OffIntent} : Promise!Deliver(r, c)
    <2>1. Delivered' = [Delivered EXCEPT ![r] = TRUE]
          /\ device' = [device EXCEPT ![DeviceOf[r]] = rendered[r]]
        BY <1>0, <1>4, DeliveredMoves DEF PushSucceeds, PushedConfig
    <2>2. pc' = [pc EXCEPT ![r] = "write_pushed"] /\ pc[r] = "push"
        BY <1>4 DEF PushSucceeds, Goto
    <2>3. PhaseAt("push") = PhaseAt("write_pushed")
        BY DEF PhaseAt
    <2>4. Phase' = Phase
        BY <1>0, <2>2, <2>3, PhaseMoves
    <2>5. rendered[r] # NoIntent
        BY <2>2 DEF IInv, ArtifactInv, AfterPush
    <2> QED
        BY <1>4, <2>1, <2>4, <2>5
           DEF PushSucceeds, Promise!Deliver, Phase, Delivered
<1>5. ASSUME NEW r \in Runs, PushReportsFailure(r)
      PROVE  \E c \in {rendered[r], OffIntent, device[DeviceOf[r]]} :
                Promise!FailToDeliver(r, c)
    <2>1. PICK c \in {rendered[r], OffIntent, device[DeviceOf[r]]} :
             Deliver(r, c)
        BY <1>5 DEF PushReportsFailure, PushedConfig
    <2>2. Delivered' = [Delivered EXCEPT ![r] = TRUE]
          /\ device' = [device EXCEPT ![DeviceOf[r]] = c]
        BY <1>0, <2>1, DeliveredMoves
    <2>3. pc' = [pc EXCEPT ![r] = "write_failed"] /\ pc[r] = "push"
        BY <1>5 DEF PushReportsFailure, Goto
    <2>4. PhaseAt("push") = "working" /\ PhaseAt("write_failed") = "refusing"
        BY DEF PhaseAt
    <2>5. Phase' = [Phase EXCEPT ![r] = "refusing"]
        BY <1>0, <2>3, <2>4, PhaseMoves
    <2>6. rendered[r] # NoIntent
        BY <2>3 DEF IInv, ArtifactInv, AfterPush
    <2> QED
        BY <1>5, <2>2, <2>3, <2>4, <2>5, <2>6
           DEF PushReportsFailure, Promise!FailToDeliver, Phase, Delivered
<1>6. ASSUME NEW r \in Runs, ValidationPasses(r) PROVE Same
    <2>1. pc' = [pc EXCEPT ![r] = "write_passed"] /\ pc[r] = "validate"
        BY <1>6 DEF ValidationPasses, Goto
    <2>2. PhaseAt("validate") = PhaseAt("write_passed")
        BY DEF PhaseAt
    <2>3. UNCHANGED <<rendered, pushed, device, result>>
        BY <1>6 DEF ValidationPasses
    <2> QED
        BY <1>0, <2>1, <2>2, <2>3, PromiseMoves
<1>7. ASSUME NEW r \in Runs, ValidationFindsDrift(r) PROVE Promise!AskHuman(r)
    <2>1. pc' = [pc EXCEPT ![r] = "write_awaiting"] /\ pc[r] = "validate"
        BY <1>7 DEF ValidationFindsDrift, Goto
    <2>2. PhaseAt("validate") = "working" /\ PhaseAt("write_awaiting") = "review"
        BY DEF PhaseAt
    <2>3. UNCHANGED <<rendered, pushed, device, result>>
        BY <1>7 DEF ValidationFindsDrift
    <2>4. pushed[r] # {}
        BY <2>1 DEF IInv, ArtifactInv, AfterPush
    <2> QED
        BY <1>0, <2>1, <2>2, <2>3, <2>4, PromiseMoves
<1>8. ASSUME NEW r \in Runs, AttemptFails(r) \/ AttemptTimesOut(r)
      PROVE  Promise!Refuse(r) \/ Promise!Close(r, "error") \/ Same
    <2>1. AttemptEnds(r) /\ pc[r] \in Activities
          /\ UNCHANGED <<rendered, pushed, device>>
        BY <1>8 DEF AttemptFails, AttemptTimesOut, Effects, Activities
    <2> QED
        BY <2>1, PromiseAttemptEnds
<1>9. ASSUME NEW r \in Runs, NEW choice \in Decisions[r],
             Signal(r, choice)
      PROVE  Same
    BY <1>9, PromiseStutters DEF Signal, Phase
<1>10. ASSUME NEW s \in stragglers, StragglerLands(s)
       PROVE  \/ Same
              \/ \E r \in Runs : \E c \in {rendered[r], OffIntent} :
                    Promise!Deliver(r, c)
    <2>1. s.run \in Runs /\ Phase' = Phase /\ UNCHANGED <<rendered, result>>
        BY <1>0, <1>10, StragglerType DEF StragglerLands, Phase, IInv, TypeOK
    <2>2. CASE UNCHANGED <<pushed, device>>
        BY <2>1, <2>2, PromiseStutters
    <2>3. CASE /\ s.at = "push"
               /\ \E c \in {rendered[s.run], OffIntent} : Deliver(s.run, c)
        <3>1. PICK c \in {rendered[s.run], OffIntent} : Deliver(s.run, c)
            BY <2>3
        <3>2. Delivered' = [Delivered EXCEPT ![s.run] = TRUE]
              /\ device' = [device EXCEPT ![DeviceOf[s.run]] = c]
            BY <1>0, <2>1, <3>1, DeliveredMoves
        <3>3. rendered[s.run] # NoIntent
            BY <2>3 DEF IInv, StragglerInv
        <3>4. Promise!Deliver(s.run, c)
            BY <2>1, <3>2, <3>3 DEF Promise!Deliver, Phase, Delivered
        <3> QED
            BY <2>1, <3>4
    <2> QED
        BY <1>10, <2>2, <2>3 DEF StragglerLands, PushedConfig
<1>11. ASSUME NEW d \in Devices, ChangedByHand(d) PROVE Promise!ChangeByHand(d)
    BY <1>11 DEF ChangedByHand, Promise!ChangeByHand
<1>12. ASSUME NEW d \in Devices, NEW i \in Intents, IntentEdited(d, i)
       PROVE  Same
    BY <1>12, PromiseStutters DEF IntentEdited, Phase
<1>13. ASSUME UNCHANGED vars PROVE Same
    BY <1>13, PromiseStutters DEF vars, Phase
<1> QED
    BY <1>1, <1>2, <1>3, <1>4, <1>5, <1>6, <1>7, <1>8, <1>9, <1>10, <1>11,
       <1>12, <1>13, PromiseWrite, PromiseUnparks
       DEF Next, Advance, Promise!Next

\* The Day 1 pipeline implements the promise for every instance: each of its
\* steps is a step of ProvisionPromise or changes nothing there.
THEOREM KeepsPromise == Spec => Promised
BY PromiseInit, PromiseStep, Inductive, PTL DEF Spec, Promised, Promise!Spec

=============================================================================

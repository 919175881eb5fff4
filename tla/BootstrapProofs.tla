--------------------------- MODULE BootstrapProofs ---------------------------
(***************************************************************************)
(* Theorems about Bootstrap for any intents, any retry limits, and any     *)
(* number of executions and late attempts.                                 *)
(***************************************************************************)
EXTENDS Bootstrap, TLAPS

-----------------------------------------------------------------------------
(* The tables.                                                             *)

LEMMA WriteLocsAre ==
    WriteLocs = {"write_started", "write_reserved", "write_ready",
                 "write_awaiting", "write_bootstrapped", "write_failed"}
BY DEF WriteLocs, StatusAt

LEMMA ActivitiesAre ==
    Activities = {"write_started", "fetch", "dhcp", "write_reserved",
                  "render", "publish", "write_ready", "write_awaiting",
                  "wait", "write_bootstrapped", "write_failed"}
BY DEF Activities, After

\* The order of the awaits.
LEMMA AfterIs ==
    /\ After["write_started"] = "fetch"
    /\ After["fetch"] = "dhcp"
    /\ After["dhcp"] = "write_reserved"
    /\ After["write_reserved"] = "render"
    /\ After["render"] = "publish"
    /\ After["publish"] = "write_ready"
    /\ After["write_ready"] = "write_awaiting"
    /\ After["write_awaiting"] = "wait"
    /\ After["wait"] = "write_bootstrapped"
    /\ After["write_bootstrapped"] = "day1"
    /\ After["write_failed"] = "done"
BY DEF After

LEMMA AfterType ==
    ASSUME NEW l \in Activities
    PROVE  After[l] \in Activities \cup {"day1", "done"}
BY ActivitiesAre, AfterIs

\* The statuses of Day 0 are six, and COMPLETE is none of them.
LEMMA StatusIs ==
    ASSUME NEW l \in WriteLocs
    PROVE  /\ StatusAt[l] # "COMPLETE"
           /\ l = "write_failed" => StatusAt[l] = "FAILED"
BY WriteLocsAre DEF StatusAt

LEMMA LimitType ==
    ASSUME NEW l
    PROVE  Limit(l) \in Nat \ {0}
BY BootstrapAssumption DEF Limit

-----------------------------------------------------------------------------
(* Type correctness.                                                       *)

LEMMA TypeInit == Init => TypeOK
<1> SUFFICES ASSUME Init PROVE TypeOK
    OBVIOUS
<1>1. starts \in 0..MaxStarts
    BY BootstrapAssumption DEF Init
<1>2. attempt \in 1..(IF loc \in Activities THEN Limit(loc) ELSE 1)
    BY LimitType DEF Init
<1>3. status.says = "QUEUED" /\ status.by = 0 /\ status.child = FALSE
    BY DEF Init
<1> QED
    BY <1>1, <1>2, <1>3 DEF Init, TypeOK

\* What Nautobot may hold in the record of the device.
Records == [says : {StatusAt[l] : l \in WriteLocs} \cup DayOneStatuses
                     \cup {"QUEUED"},
            by : 0..MaxStarts, child : BOOLEAN]

\* Where a step of run() leaves the location, its attempt and the probe.
LocOK ==
    /\ loc \in Activities \cup {"idle", "day1", "done"}
    /\ attempt \in 1..(IF loc \in Activities THEN Limit(loc) ELSE 1)
    /\ probing \in BOOLEAN

LEMMA GotoType ==
    ASSUME NEW l \in Activities \cup {"day1", "done"}, Goto(l)
    PROVE  LocOK'
<1>1. Limit(l) \in Nat \ {0}
    BY LimitType
<1> QED
    BY <1>1 DEF Goto, LocOK, Limit

LEMMA AttemptEndsType ==
    ASSUME TypeOK, loc \in Activities, AttemptEnds
    PROVE  LocOK' /\ result' \in {"none", "success", "failure", "error"}
<1>1. CASE attempt < Limit(loc)
    <2>1. attempt' \in 1..Limit(loc) /\ loc' = loc
        BY <1>1, LimitType DEF AttemptEnds, TypeOK
    <2> QED
        BY <1>1, <2>1 DEF AttemptEnds, TypeOK, LocOK, Limit
<1>2. CASE ~(attempt < Limit(loc))
    <2>1. "write_failed" \in Activities
        BY ActivitiesAre
    <2> QED
        BY <1>2, <2>1, GotoType DEF AttemptEnds, TypeOK
<1> QED
    BY <1>1, <1>2

LEMMA TypeStep == TypeOK /\ NamesInv /\ [Next]_vars => TypeOK'
<1> SUFFICES ASSUME TypeOK, NamesInv, [Next]_vars PROVE TypeOK'
    OBVIOUS
<1> USE DEF outside, traces, Records
<1>0. ASSUME Open PROVE starts \in 1..MaxStarts
    BY <1>0 DEF Open, NamesInv, TypeOK
<1>1. ASSUME LocOK',
             /\ starts' \in 0..MaxStarts
             /\ hasMac' \in BOOLEAN /\ reserved' \in BOOLEAN
             /\ intent' \in Intents \cup {None}
             /\ router' \in Intents \cup {None}
             /\ published' \in Intents \cup {None, Torn}
             /\ nbIntent' \in Intents
             /\ result' \in {"none", "success", "failure", "error"},
             status' \in Records,
             late' \subseteq [at : Effects, by : 1..MaxStarts,
                              mac : BOOLEAN, version : Intents \cup {None}],
             children' \subseteq 1..MaxStarts,
             wroteLate' \subseteq 1..MaxStarts,
             servedLate' \subseteq 1..MaxStarts
      PROVE  TypeOK'
    BY <1>1 DEF TypeOK, LocOK, Limit
<1>2. ASSUME NEW mac \in BOOLEAN, Start(mac) PROVE TypeOK'
    <2>1. LocOK'
        BY <1>2, GotoType, ActivitiesAre DEF Start
    <2>2. starts' \in 0..MaxStarts
        BY <1>2, BootstrapAssumption DEF Start, TypeOK
    <2> QED
        BY <1>1, <1>2, <2>1, <2>2 DEF Start, TypeOK
<1>3. ASSUME NEW l \in WriteLocs, NEW n \in 1..MaxStarts, Patch(l, n)
      PROVE  status' \in Records
    BY <1>3 DEF Patch
<1>4. ASSUME NEW says \in DayOneStatuses, NEW n \in 1..MaxStarts,
             DayOneWrites(n, says)
      PROVE  status' \in Records
    BY <1>4 DEF DayOneWrites
<1>5. CASE WriteCompletes
    <2>1. loc \in Activities /\ Open
        BY <1>5, WriteLocsAre, ActivitiesAre DEF WriteCompletes, Open
    <2>2. LocOK'
        BY <1>5, <2>1, GotoType, AfterType DEF WriteCompletes
    <2>3. starts \in 1..MaxStarts
        BY <1>0, <2>1
    <2>4. status' \in Records
        BY <1>3, <1>5, <2>3 DEF WriteCompletes
    <2>5. /\ result' \in {"none", "success", "failure", "error"}
          /\ children' \subseteq 1..MaxStarts
        BY <1>5, <2>3 DEF WriteCompletes, TypeOK
    <2> QED
        BY <1>1, <1>5, <2>2, <2>4, <2>5 DEF WriteCompletes, TypeOK
<1>6. CASE FetchCompletes
    <2>1. LocOK'
        BY <1>6, GotoType, ActivitiesAre, AfterIs DEF FetchCompletes
    <2> QED
        BY <1>1, <1>6, <2>1 DEF FetchCompletes, TypeOK
<1>7. ASSUME NEW mac \in BOOLEAN, Reserve(mac) PROVE reserved' \in BOOLEAN
    BY <1>7 DEF Reserve
<1>8. CASE DhcpCompletes
    <2>1. LocOK'
        BY <1>8, GotoType, ActivitiesAre, AfterIs DEF DhcpCompletes
    <2>2. reserved' \in BOOLEAN
        BY <1>7, <1>8 DEF DhcpCompletes, TypeOK
    <2> QED
        BY <1>1, <1>8, <2>1, <2>2 DEF DhcpCompletes, TypeOK
<1>9. CASE RenderCompletes
    <2>1. LocOK'
        BY <1>9, GotoType, ActivitiesAre, AfterIs DEF RenderCompletes
    <2> QED
        BY <1>1, <1>9, <2>1 DEF RenderCompletes, TypeOK
<1>10. CASE PublishCompletes
    <2>1. LocOK'
        BY <1>10, GotoType, ActivitiesAre, AfterIs DEF PublishCompletes
    <2> QED
        BY <1>1, <1>10, <2>1 DEF PublishCompletes, Publish, TypeOK
<1>11. CASE DeviceChecksIn
    <2>1. LocOK'
        BY <1>11, GotoType, ActivitiesAre, AfterIs DEF DeviceChecksIn
    <2> QED
        BY <1>1, <1>11, <2>1 DEF DeviceChecksIn, TypeOK
<1>12. CASE AttemptFails
    BY <1>1, <1>12, AttemptEndsType DEF AttemptFails, TypeOK
<1>13. CASE PublishBreaksOff \/ WorkerStops \/ WaitTimesOut
    <2>1. loc \in Activities
        BY <1>13, ActivitiesAre
           DEF PublishBreaksOff, WorkerStops, WaitTimesOut
    <2> QED
        BY <1>1, <1>13, <2>1, AttemptEndsType
           DEF PublishBreaksOff, WorkerStops, WaitTimesOut, Publish, TypeOK
<1>14. CASE AttemptTimesOut
    <2>1. loc \in Activities /\ Open
        BY <1>14, WriteLocsAre, ActivitiesAre
           DEF AttemptTimesOut, Effects, Open
    <2>2. late' \subseteq [at : Effects, by : 1..MaxStarts, mac : BOOLEAN,
                           version : Intents \cup {None}]
        BY <1>0, <1>14, <2>1 DEF AttemptTimesOut, TypeOK
    <2> QED
        BY <1>1, <1>14, <2>1, <2>2, AttemptEndsType DEF AttemptTimesOut, TypeOK
<1>15. ASSUME NEW a \in late, LateEffect(a) PROVE TypeOK'
    <2>1. a.at \in Effects /\ a.by \in 1..MaxStarts /\ a.mac \in BOOLEAN
          /\ a.version \in Intents \cup {None}
        BY DEF TypeOK
    <2>2. status' \in Records
        BY <1>3, <1>15, <2>1 DEF LateEffect, TypeOK
    <2>3. reserved' \in BOOLEAN
        BY <1>7, <1>15, <2>1 DEF LateEffect, TypeOK
    <2>4. published' \in Intents \cup {None, Torn}
        BY <1>15, <2>1 DEF LateEffect, Publish, TypeOK
    <2>5. /\ late' \subseteq late
          /\ wroteLate' \subseteq 1..MaxStarts
          /\ servedLate' \subseteq 1..MaxStarts
        BY <1>15, <2>1 DEF LateEffect, TypeOK
    <2>6. LocOK'
        BY <1>15 DEF LateEffect, LocOK, TypeOK
    <2> QED
        BY <1>1, <1>15, <2>2, <2>3, <2>4, <2>5, <2>6 DEF LateEffect, TypeOK
<1>16. CASE WorkerRestarts
    BY <1>16 DEF WorkerRestarts, TypeOK
<1>17. CASE DayOneProceeds
    <2>1. starts \in 1..MaxStarts
        BY <1>0, <1>17 DEF DayOneProceeds, Open
    <2>2. status' \in Records
        BY <1>4, <1>17, <2>1 DEF DayOneProceeds, DayOneStatuses
    <2> QED
        BY <1>17, <2>2 DEF DayOneProceeds, TypeOK
<1>18. ASSUME NEW n \in children, DayOneWritesLate(n) PROVE TypeOK'
    <2>1. n \in 1..MaxStarts
        BY DEF TypeOK
    <2>2. status' \in Records
        BY <1>4, <1>18, <2>1 DEF DayOneWritesLate
    <2> QED
        BY <1>18, <2>1, <2>2 DEF DayOneWritesLate, TypeOK
<1>19. CASE OtherRunWrites
    <2>1. status' \in Records
        BY <1>19, BootstrapAssumption DEF OtherRunWrites
    <2> QED
        BY <1>19, <2>1 DEF OtherRunWrites, TypeOK
<1>20. ASSUME NEW i \in Intents, DayOneConfigures(i) PROVE TypeOK'
    BY <1>20 DEF DayOneConfigures, TypeOK
<1>21. ASSUME NEW success \in BOOLEAN, DayOneReports(success) PROVE TypeOK'
    <2>1. starts \in 1..MaxStarts
        BY <1>0, <1>21 DEF DayOneReports, Open
    <2>2. status' \in Records
        BY <1>4, <1>21, <2>1 DEF DayOneReports, DayOneStatuses
    <2>3. LocOK' /\ result' \in {"none", "success", "failure", "error"}
        BY <1>21, GotoType, ActivitiesAre DEF DayOneReports, TypeOK
    <2> QED
        BY <1>1, <1>21, <2>2, <2>3 DEF DayOneReports, TypeOK
<1>22. CASE DayOneFails
    <2>1. LocOK'
        BY <1>22, GotoType DEF DayOneFails
    <2> QED
        BY <1>1, <1>22, <2>1 DEF DayOneFails, TypeOK
<1>23. ASSUME NEW i \in Intents, IntentEdited(i) PROVE TypeOK'
    BY <1>23 DEF IntentEdited, TypeOK
<1>24. CASE RouterBoots \/ RouterWiped
    BY <1>24 DEF RouterBoots, RouterWiped, TypeOK
<1>25. CASE UNCHANGED vars
    BY <1>25 DEF vars, TypeOK
<1> QED
    BY <1>2, <1>5, <1>6, <1>8, <1>9, <1>10, <1>11, <1>12, <1>13, <1>14, <1>15,
       <1>16, <1>17, <1>18, <1>19, <1>20, <1>21, <1>22, <1>23, <1>24, <1>25
    DEF Next, Run

-----------------------------------------------------------------------------
(* The inductive invariant, part by part.                                  *)

\* The steps of run() go from an await to the next one, or to the handler,
\* or end; none begins an execution or comes back to "idle".
LEMMA RunMoves ==
    ASSUME TypeOK, Run
    PROVE  /\ Open /\ loc' # "idle" /\ starts' = starts /\ hasMac' = hasMac
           /\ loc # "fetch" => intent' = intent
           /\ \/ loc' = loc
              \/ loc' \in {"write_failed", "done"}
              \/ loc \in Activities /\ loc' = After[loc]
<1> USE ActivitiesAre, WriteLocsAre, AfterIs DEF outside, traces, Open, Goto
<1>1. CASE WriteCompletes
    BY <1>1 DEF WriteCompletes
<1>2. CASE FetchCompletes
    BY <1>2 DEF FetchCompletes
<1>3. CASE DhcpCompletes \/ RenderCompletes \/ PublishCompletes
           \/ DeviceChecksIn
    BY <1>3 DEF DhcpCompletes, RenderCompletes, PublishCompletes,
                DeviceChecksIn
<1>4. CASE AttemptFails \/ PublishBreaksOff \/ AttemptTimesOut
           \/ WaitTimesOut
    BY <1>4 DEF AttemptFails, PublishBreaksOff, AttemptTimesOut, WaitTimesOut,
                AttemptEnds, Effects
<1>5. CASE (\E success \in BOOLEAN : DayOneReports(success)) \/ DayOneFails
    BY <1>5 DEF DayOneReports, DayOneFails
<1> QED
    BY <1>1, <1>2, <1>3, <1>4, <1>5 DEF Run

\* Everything else, Start aside, leaves run() where it is, or stops its worker.
Elsewhere ==
    \/ WorkerRestarts \/ WorkerStops \/ DayOneProceeds
    \/ \E a \in late : LateEffect(a)
    \/ \E n \in children : DayOneWritesLate(n)
    \/ OtherRunWrites
    \/ \E i \in Intents : DayOneConfigures(i) \/ IntentEdited(i)
    \/ RouterBoots \/ RouterWiped
    \/ UNCHANGED vars

LEMMA ElsewhereMoves ==
    ASSUME Elsewhere
    PROVE  /\ UNCHANGED <<starts, hasMac, intent>>
           /\ \/ UNCHANGED <<loc, result>>
              \/ loc = "wait" /\ loc' = "write_failed" /\ result' = result
BY DEF Elsewhere, WorkerRestarts, WorkerStops, DayOneProceeds, LateEffect,
       DayOneWritesLate, OtherRunWrites, DayOneConfigures, IntentEdited,
       RouterBoots, RouterWiped, AttemptEnds, Goto, vars, outside, traces,
       Limit, WriteLocs

LEMMA StepIs ==
    [Next]_vars => Run \/ Elsewhere \/ \E mac \in BOOLEAN : Start(mac)
BY DEF Next, Elsewhere

LEMMA NamesStep == IInv /\ [Next]_vars => NamesInv'
<1> SUFFICES ASSUME IInv, [Next]_vars PROVE NamesInv'
    OBVIOUS
<1> USE DEF IInv, NamesInv, outside, traces
<1>0. starts \in Nat
    BY DEF TypeOK
<1>1. ASSUME NEW mac \in BOOLEAN, Start(mac) PROVE NamesInv'
    BY <1>0, <1>1 DEF Start, Goto
<1>2. CASE Run
    <2>1. /\ starts \in 1..starts /\ starts' = starts
          /\ loc' # "idle" /\ loc # "idle"
        BY <1>0, <1>2, RunMoves DEF Open
    <2>2. status'.by \in {status.by, starts}
        BY <1>2 DEF Run, WriteCompletes, Patch, FetchCompletes, DhcpCompletes,
                    RenderCompletes, PublishCompletes, DeviceChecksIn,
                    AttemptFails, PublishBreaksOff, AttemptTimesOut,
                    WaitTimesOut, DayOneReports, DayOneWrites, DayOneFails
    <2>3. \A a \in late' : a \in late \/ a.by = starts
        BY <1>2 DEF Run, WriteCompletes, FetchCompletes, DhcpCompletes,
                    RenderCompletes, PublishCompletes, DeviceChecksIn,
                    AttemptFails, PublishBreaksOff, AttemptTimesOut,
                    WaitTimesOut, DayOneReports, DayOneFails
    <2>4. /\ children' \subseteq children \cup {starts}
          /\ servedLate' \subseteq servedLate
        BY <1>2 DEF Run, WriteCompletes, FetchCompletes, DhcpCompletes,
                    RenderCompletes, PublishCompletes, DeviceChecksIn,
                    AttemptFails, PublishBreaksOff, AttemptTimesOut,
                    WaitTimesOut, DayOneReports, DayOneFails
    <2> QED
        BY <2>1, <2>2, <2>3, <2>4, <1>0
<1>3. CASE Elsewhere
    <2>1. starts' = starts /\ (loc' = "idle" <=> loc = "idle")
        BY <1>3, ElsewhereMoves
    <2>2. ASSUME NEW a \in late, LateEffect(a) PROVE NamesInv'
        BY <1>0, <2>1, <2>2 DEF LateEffect, Patch
    <2>3. ASSUME NEW n \in children, DayOneWritesLate(n) PROVE NamesInv'
        BY <1>0, <2>1, <2>3 DEF DayOneWritesLate, DayOneWrites
    <2>4. CASE DayOneProceeds \/ OtherRunWrites
        BY <1>0, <2>1, <2>4
           DEF DayOneProceeds, OtherRunWrites, DayOneWrites
    <2>5. CASE UNCHANGED <<status, late, children, servedLate>>
        BY <2>1, <2>5
    <2> QED
        BY <1>3, <2>2, <2>3, <2>4, <2>5
           DEF Elsewhere, WorkerRestarts, WorkerStops, DayOneConfigures,
               IntentEdited, RouterBoots, RouterWiped, vars
<1> QED
    BY <1>1, <1>2, <1>3, StepIs

LEMMA LocalStep == IInv /\ [Next]_vars => LocalInv'
<1> SUFFICES ASSUME IInv, [Next]_vars PROVE LocalInv'
    OBVIOUS
<1> USE DEF IInv, LocalInv, Fetched, outside, traces
<1>1. ASSUME NEW mac \in BOOLEAN, Start(mac) PROVE LocalInv'
    BY <1>1 DEF Start, Goto
<1>2. CASE FetchCompletes
    BY <1>2, AfterIs DEF FetchCompletes, Goto, TypeOK
<1>3. CASE Run /\ loc # "fetch"
    <2>1. intent' = intent
        BY <1>3, RunMoves
    <2>2. loc' \in Fetched => loc \in Fetched
        BY <1>3, RunMoves, ActivitiesAre, AfterIs
    <2> QED
        BY <2>1, <2>2
<1>4. CASE Run /\ loc = "fetch" /\ ~FetchCompletes
    <2>1. loc' \in {loc, "write_failed", "done"}
        BY <1>4, WriteLocsAre
           DEF Run, WriteCompletes, DhcpCompletes, RenderCompletes,
               PublishCompletes, DeviceChecksIn, AttemptFails,
               PublishBreaksOff, AttemptTimesOut, AttemptEnds, WaitTimesOut,
               DayOneReports, DayOneFails, Goto
    <2> QED
        BY <1>4, <2>1
<1>5. CASE Elsewhere
    <2>1. UNCHANGED intent /\ loc' \in {loc, "write_failed"}
        BY <1>5, ElsewhereMoves
    <2> QED
        BY <2>1
<1> QED
    BY <1>1, <1>2, <1>3, <1>4, <1>5, StepIs

LEMMA ServedStep == IInv /\ [Next]_vars => ServedInv'
<1> SUFFICES ASSUME IInv, [Next]_vars PROVE ServedInv'
    OBVIOUS
<1> USE DEF IInv, ServedInv, Served, outside, traces
<1>0. starts \in Nat
    BY DEF TypeOK
<1>1. ASSUME NEW mac \in BOOLEAN, Start(mac) PROVE ServedInv'
    <2>1. \A a \in late' : a.by # starts'
        BY <1>0, <1>1 DEF Start, NamesInv
    <2> QED
        BY <1>1, <2>1 DEF Start, Goto
<1>2. CASE FetchCompletes
    BY <1>2, AfterIs DEF FetchCompletes, Goto
<1>3. CASE PublishCompletes
    BY <1>3, AfterIs DEF PublishCompletes, Publish, Goto
<1>4. CASE AttemptTimesOut
    <2>1. /\ late' = late \cup {[at |-> loc, by |-> starts, mac |-> hasMac,
                                 version |-> intent]}
          /\ UNCHANGED <<starts, intent, published, servedLate>>
          /\ loc' \in {loc, "write_failed", "done"}
        BY <1>4 DEF AttemptTimesOut, AttemptEnds, Goto
    <2> QED
        BY <2>1, AfterIs
<1>5. CASE Run /\ ~FetchCompletes /\ ~PublishCompletes /\ ~AttemptTimesOut
    <2>1. UNCHANGED <<starts, intent, late, servedLate>>
        BY <1>5 DEF Run, WriteCompletes, DhcpCompletes, RenderCompletes,
                    DeviceChecksIn, AttemptFails, PublishBreaksOff,
                    WaitTimesOut, DayOneReports, DayOneFails
    <2>2. /\ loc' \in Served => loc \in Served
          /\ loc' \in {"write_started", "fetch"} =>
                loc \in {"write_started", "fetch"}
        BY <1>5, WriteLocsAre, AfterIs
           DEF Run, WriteCompletes, DhcpCompletes, RenderCompletes,
               DeviceChecksIn, AttemptFails, PublishBreaksOff, WaitTimesOut,
               DayOneReports, DayOneFails, AttemptEnds, Goto
    <2>3. published' = published \/ loc \notin Served
        BY <1>5 DEF Run, WriteCompletes, DhcpCompletes, RenderCompletes,
                    DeviceChecksIn, AttemptFails, PublishBreaksOff,
                    WaitTimesOut, DayOneReports, DayOneFails
    <2> QED
        BY <2>1, <2>2, <2>3
<1>6. CASE Elsewhere
    <2>1. UNCHANGED <<starts, intent>> /\ loc' \in {loc, "write_failed"}
        BY <1>6, ElsewhereMoves
    <2>2. ASSUME NEW a \in late, LateEffect(a) PROVE ServedInv'
        <3>1. late' \subseteq late
            BY <2>2 DEF LateEffect
        <3>2. CASE UNCHANGED <<published, servedLate>>
            BY <2>1, <3>1, <3>2
        <3>3. CASE /\ a.at = "publish"
                   /\ Publish(a.version) \/ Publish(Torn)
                   /\ servedLate' = servedLate \cup {a.by}
            BY <2>1, <3>1, <3>3 DEF Publish
        <3> QED
            BY <2>2, <3>2, <3>3 DEF LateEffect
    <2>3. CASE UNCHANGED <<published, late, servedLate>>
        BY <2>1, <2>3
    <2> QED
        BY <1>6, <2>2, <2>3
           DEF Elsewhere, WorkerRestarts, WorkerStops, DayOneProceeds,
               DayOneWritesLate, OtherRunWrites, DayOneConfigures,
               IntentEdited, RouterBoots, RouterWiped, vars
<1> QED
    BY <1>1, <1>2, <1>3, <1>4, <1>5, <1>6, StepIs

\* What an execution reports is what the record says by then.
LEMMA ReportStep == IInv /\ [Next]_vars => OpenInv' /\ ReportedIsRecorded'
<1> SUFFICES ASSUME IInv, [Next]_vars PROVE OpenInv' /\ ReportedIsRecorded'
    OBVIOUS
<1> USE DEF IInv, OpenInv, ReportedIsRecorded, Open, outside, traces
<1>0. starts \in Nat
    BY DEF TypeOK
<1>1. ASSUME NEW mac \in BOOLEAN, Start(mac)
      PROVE  OpenInv' /\ ReportedIsRecorded'
    <2>1. status'.by # starts'
        BY <1>0, <1>1 DEF Start, NamesInv
    <2> QED
        BY <1>1, <2>1 DEF Start, Goto
<1>2. CASE WriteCompletes
    <2>1. /\ result = "none" /\ status'.says # "COMPLETE"
          /\ loc = "write_failed" =>
                loc' = "done" /\ status'.says = "FAILED" /\ ~status'.child
          /\ loc # "write_failed" => loc' # "done"
        BY <1>2, StatusIs, WriteLocsAre, AfterIs
           DEF WriteCompletes, Patch, Goto
    <2> QED
        BY <1>2, <2>1 DEF WriteCompletes
<1>3. CASE FetchCompletes \/ DhcpCompletes \/ RenderCompletes
           \/ PublishCompletes \/ DeviceChecksIn
    BY <1>3, AfterIs
       DEF FetchCompletes, DhcpCompletes, RenderCompletes, PublishCompletes,
           DeviceChecksIn, Goto
<1>4. CASE AttemptFails \/ PublishBreaksOff \/ AttemptTimesOut
           \/ WaitTimesOut \/ WorkerStops
    <2>1. Open
        BY <1>4, ActivitiesAre, WriteLocsAre
           DEF AttemptFails, PublishBreaksOff, AttemptTimesOut, WaitTimesOut,
               WorkerStops, Effects
    <2>2. /\ UNCHANGED <<starts, status, wroteLate>>
          /\ \/ loc' = loc /\ result' = result
             \/ loc' = "write_failed" /\ result' = result
             \/ loc' = "done" /\ result' = "error"
        BY <1>4 DEF AttemptFails, PublishBreaksOff, AttemptTimesOut,
                    WaitTimesOut, WorkerStops, AttemptEnds, Goto
    <2> QED
        BY <2>1, <2>2
<1>5. ASSUME NEW success \in BOOLEAN, DayOneReports(success)
      PROVE  OpenInv' /\ ReportedIsRecorded'
    BY <1>5 DEF DayOneReports, DayOneWrites, Goto
<1>6. CASE DayOneFails
    BY <1>6 DEF DayOneFails, Goto
<1>7. CASE DayOneProceeds
    BY <1>7 DEF DayOneProceeds, DayOneWrites
<1>8. ASSUME NEW a \in late, LateEffect(a)
      PROVE  OpenInv' /\ ReportedIsRecorded'
    BY <1>8 DEF LateEffect, Patch
<1>9. ASSUME NEW n \in children, DayOneWritesLate(n)
      PROVE  OpenInv' /\ ReportedIsRecorded'
    BY <1>9 DEF DayOneWritesLate, DayOneWrites
<1>10. CASE OtherRunWrites
    <2>1. Open => starts # 0
        BY DEF NamesInv
    <2>2. result = "none" \/ starts # 0
        BY DEF NamesInv
    <2> QED
        BY <1>10, <2>1, <2>2 DEF OtherRunWrites
<1>11. CASE WorkerRestarts \/ RouterBoots \/ RouterWiped \/ UNCHANGED vars
            \/ \E i \in Intents : DayOneConfigures(i) \/ IntentEdited(i)
    BY <1>11 DEF WorkerRestarts, RouterBoots, RouterWiped, DayOneConfigures,
                 IntentEdited, vars
<1> QED
    BY <1>1, <1>2, <1>3, <1>4, <1>5, <1>6, <1>7, <1>8, <1>9, <1>10, <1>11
    DEF Next, Run

\* At the wait both servers have what the device needs.
LEMMA ReadyHolds ==
    ASSUME LocalInv, ServedInv
    PROVE  ReadyBeforeCheckin
BY BootstrapAssumption
   DEF LocalInv, ServedInv, ReadyBeforeCheckin, Fetched, Served

LEMMA InvInit == Init => IInv
<1> SUFFICES ASSUME Init PROVE IInv
    OBVIOUS
<1>1. NamesInv /\ LocalInv /\ ServedInv /\ OpenInv /\ ReportedIsRecorded
    BY DEF Init, NamesInv, LocalInv, ServedInv, OpenInv, Open, Fetched,
           Served, ReportedIsRecorded
<1> QED
    BY TypeInit, ReadyHolds, <1>1 DEF IInv

LEMMA InvStep == IInv /\ [Next]_vars => IInv'
<1> SUFFICES ASSUME IInv, [Next]_vars PROVE IInv'
    OBVIOUS
<1>1. TypeOK'
    BY TypeStep DEF IInv
<1>2. NamesInv' /\ LocalInv' /\ ServedInv'
    BY NamesStep, LocalStep, ServedStep
<1>3. OpenInv' /\ ReportedIsRecorded'
    BY ReportStep
<1>4. ReadyBeforeCheckin'
    BY <1>2, BootstrapAssumption
       DEF LocalInv, ServedInv, ReadyBeforeCheckin, Fetched, Served
<1> QED
    BY <1>1, <1>2, <1>3, <1>4 DEF IInv

\* The inductive invariant holds throughout, so its parts do.
THEOREM Inductive == Spec => []IInv
BY InvInit, InvStep, PTL DEF Spec

-----------------------------------------------------------------------------
(* What follows.                                                           *)

\* Every local of run(), the record, the DHCP server, the file server and the
\* router keep their types, for any retry limits (bootstrap_device.py).
THEOREM TypeCorrect == Spec => []TypeOK
<1>1. IInv => TypeOK
    BY DEF IInv
<1> QED
    BY Inductive, <1>1, PTL

\* At the 8-hour wait the file server has the script of the intent waited for,
\* whatever earlier executions and broken-off attempts had published, and
\* however often the intent was edited; an attempt that lands after the
\* publication is the only thing that takes it away, and one of this execution
\* can only leave a broken-off file (publish_bootstrap_script: "must be
\* accessible ... before the device boots").
THEOREM ReadyAtCheckin == Spec => []ReadyBeforeCheckin
<1>1. IInv => ReadyBeforeCheckin
    BY DEF IInv
<1> QED
    BY Inductive, <1>1, PTL

\* What an execution reports is what the record of the device says, unless
\* another run or a late write of its own or of its child changed the record.
THEOREM ReportsRecorded == Spec => []ReportedIsRecorded
<1>1. IInv => ReportedIsRecorded
    BY DEF IInv
<1> QED
    BY Inductive, <1>1, PTL

=============================================================================

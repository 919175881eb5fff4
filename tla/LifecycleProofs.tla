---------------------------- MODULE LifecycleProofs ----------------------------
(***************************************************************************)
(* Theorems about Lifecycle for any set of runs, any number of Day 0       *)
(* executions and late attempts, any retry limits, and both contracts of   *)
(* wait_condition.                                                         *)
(***************************************************************************)
EXTENDS LifecycleInvariant, ProvisionProofs

-----------------------------------------------------------------------------
(* The tables of Day 0.                                                    *)

LEMMA ExecutionWritesAre ==
    DayZero!WriteLocs =
        {"write_started", "write_reserved", "write_ready", "write_awaiting",
         "write_bootstrapped", "write_failed"}
BY DEF DayZero!WriteLocs, DayZero!StatusAt

LEMMA ExecutionActivitiesAre ==
    DayZero!Activities =
        {"write_started", "fetch", "dhcp", "write_reserved", "render",
         "publish", "write_ready", "write_awaiting", "wait",
         "write_bootstrapped", "write_failed"}
BY DEF DayZero!Activities, DayZero!After

LEMMA ExecutionAfterIs ==
    /\ DayZero!After["write_started"] = "fetch"
    /\ DayZero!After["fetch"] = "dhcp"
    /\ DayZero!After["dhcp"] = "write_reserved"
    /\ DayZero!After["write_reserved"] = "render"
    /\ DayZero!After["render"] = "publish"
    /\ DayZero!After["publish"] = "write_ready"
    /\ DayZero!After["write_ready"] = "write_awaiting"
    /\ DayZero!After["write_awaiting"] = "wait"
    /\ DayZero!After["wait"] = "write_bootstrapped"
    /\ DayZero!After["write_bootstrapped"] = "day1"
    /\ DayZero!After["write_failed"] = "done"
BY DEF DayZero!After

\* COMPLETE is no status of Day 0.
LEMMA ExecutionStatusIs ==
    ASSUME NEW l \in DayZero!WriteLocs
    PROVE  /\ DayZero!StatusAt[l] \in LifeStatuses \ {"COMPLETE"}
           /\ l = "write_failed" => DayZero!StatusAt[l] = "FAILED"
BY ExecutionWritesAre DEF DayZero!StatusAt, LifeStatuses

-----------------------------------------------------------------------------
(* The steps of the two phases.                                            *)

\* A step of Day 0, and what happens to the router outside of Day 1.
DayZeroStep ==
    \/ DayZeroWrites \/ DayZeroActs \/ HandoffEnds
    \/ \E mac \in BOOLEAN : DayZeroStarts(mac)
    \/ \E a \in late0 : LateZeroEffect(a)
    \/ WorkersGo
    \/ UNCHANGED <<dayOne, nautobot>> /\ DayZero!RouterBoots
    \/ /\ device' = [device EXCEPT ![Device] = NoIntent]
       /\ UNCHANGED <<pc, attempt, local, approval, result, stragglers,
                      history, nautobot>>
       /\ DayZero!RouterWiped

\* What the runs of Day 1 keep to themselves.
runVars == <<pc, attempt, local, approval, result, stragglers, history>>

\* A step of Day 1, and what happens to the device outside of Day 0.
DayOneStep ==
    \/ \E r \in Runs : DayOneStarts(r) \/ DayOneAdvances(r)
    \/ \E r \in Runs : \E choice \in Decisions[r] :
          Signal(r, choice) /\ UNCHANGED <<dayZero, router>>
    \/ \E s \in stragglers : StragglerLands(s) /\ AtRouter /\ UNCHANGED dayZero
    \/ \E i \in Intents :
          IntentEdited(Device, i) /\ UNCHANGED <<dayZero, router>>
    \/ ChangedByHand(Device) /\ UNCHANGED <<dayZero, router>>

LEMMA StepsAre ==
    ASSUME LifeNext
    PROVE  DayZeroStep \/ DayOneStep
<1>1. CASE AtSite
    BY <1>1 DEF AtSite, DayZeroStep, DayOneStep
<1> QED
    BY <1>1 DEF LifeNext, DayZeroStep, DayOneStep

\* A step of Day 1 is one of Provision, and leaves Day 0 alone.
LEMMA DayOneKeeps ==
    ASSUME DayOneStep
    PROVE  Next /\ UNCHANGED dayZero /\ (UNCHANGED router \/ AtRouter)
BY LifecycleAssumption DEF DayOneStep, DayOneStarts, DayOneAdvances, Next

\* A step of Day 0 leaves the runs alone, and writes what its table says.
LEMMA DayZeroKeeps ==
    ASSUME DayZeroStep
    PROVE  /\ UNCHANGED runVars
           /\ nbIntent' = nbIntent
           /\ \/ device' = device
              \/ device' = [device EXCEPT ![Device] = NoIntent]
           /\ \/ UNCHANGED nbStatus
              \/ /\ loc0 \in DayZero!WriteLocs
                 /\ DayZeroPatch(loc0, starts)
              \/ \E a \in late0 : /\ a.at \in DayZero!WriteLocs
                                  /\ DayZeroPatch(a.at, a.by)
<1> USE DEF runVars, dayOne, nautobot, local, history
<1>1. CASE DayZeroWrites
    BY <1>1 DEF DayZeroWrites
<1>2. CASE DayZeroActs
    BY <1>2 DEF DayZeroActs
<1>3. CASE HandoffEnds
    BY <1>3 DEF HandoffEnds, vars
<1>4. ASSUME NEW mac \in BOOLEAN, DayZeroStarts(mac)
      PROVE  UNCHANGED <<dayOne, nautobot>>
    BY <1>4 DEF DayZeroStarts
<1>5. ASSUME NEW a \in late0, LateZeroEffect(a)
      PROVE  /\ UNCHANGED dayOne /\ nbIntent' = nbIntent
             /\ \/ UNCHANGED nbStatus
                \/ a.at \in DayZero!WriteLocs /\ DayZeroPatch(a.at, a.by)
    BY <1>5 DEF LateZeroEffect
<1>6. CASE WorkersGo
    BY <1>6 DEF WorkersGo
<1> QED
    BY <1>1, <1>2, <1>3, <1>4, <1>5, <1>6 DEF DayZeroStep

-----------------------------------------------------------------------------
(* Type correctness.                                                       *)

LEMMA LifeTypeInit == LifeInit => LifeTypeOK
<1> SUFFICES ASSUME LifeInit PROVE LifeTypeOK
    OBVIOUS
<1>1. TypeOK
    BY TypeInit DEF LifeInit
<1>2. RunTypes
    BY <1>1 DEF TypeOK
<1>3. ExecutionTypes
    <2>1. starts \in 0..MaxStarts /\ attempt0 \in Nat \ {0}
        BY LifecycleAssumption DEF LifeInit
    <2>2. hasMac \in BOOLEAN /\ reserved \in BOOLEAN /\ probing \in BOOLEAN
        BY DEF LifeInit
    <2> QED
        BY <2>1, <2>2 DEF LifeInit, ExecutionTypes
<1>4. nbStatus \in [Devices -> [status : LifeStatuses,
                               by : SUBSET (Runs \cup 1..MaxStarts)]]
    BY DEF LifeInit, Init, LifeStatuses
<1> QED
    BY <1>2, <1>3, <1>4 DEF LifeTypeOK

\* What the end of an attempt of Day 0 does: nothing, or the execution leaves
\* for the handler, or it ends without a report.
LEMMA ExecutionAttemptEnds ==
    ASSUME attempt0 \in Nat \ {0}, DayZero!AttemptEnds
    PROVE  /\ attempt0' \in Nat \ {0}
           /\ \/ UNCHANGED <<loc0, result0, probing>>
              \/ /\ loc0 # "write_failed" /\ loc0' = "write_failed"
                 /\ UNCHANGED result0 /\ probing' = FALSE
              \/ /\ loc0 = "write_failed" /\ loc0' = "done"
                 /\ result0' = "error" /\ probing' = FALSE
<1>1. CASE attempt0 < DayZero!Limit(loc0)
    BY <1>1 DEF DayZero!AttemptEnds
<1>2. CASE ~(attempt0 < DayZero!Limit(loc0)) /\ loc0 = "write_failed"
    <2>1. DayZero!Goto("done")
        BY <1>2 DEF DayZero!AttemptEnds
    <2>2. loc0' = "done" /\ attempt0' = 1 /\ probing' = FALSE
        BY <2>1 DEF DayZero!Goto
    <2>3. result0' = "error"
        BY <1>2 DEF DayZero!AttemptEnds
    <2>4. attempt0' \in Nat \ {0}
        BY <2>2
    <2> QED
        BY <1>2, <2>2, <2>3, <2>4, Zenon
<1>3. CASE ~(attempt0 < DayZero!Limit(loc0)) /\ loc0 # "write_failed"
    <2>1. DayZero!Goto("write_failed")
        BY <1>3 DEF DayZero!AttemptEnds
    <2>2. loc0' = "write_failed" /\ attempt0' = 1 /\ probing' = FALSE
        BY <2>1 DEF DayZero!Goto
    <2>3. UNCHANGED result0
        BY <1>3 DEF DayZero!AttemptEnds
    <2>4. attempt0' \in Nat \ {0}
        BY <2>2
    <2> QED
        BY <1>3, <2>2, <2>3, <2>4, Zenon
<1> QED
    BY <1>1, <1>2, <1>3

LEMMA ExecutionTypesStep ==
    ASSUME ExecutionTypes, RunTypes, HandoffInv, ClosedInv, DayZeroStep
    PROVE  ExecutionTypes'
<1> USE DEF DayZero!outside, DayZero!traces
<1>0. /\ {"idle", "day1", "done"} \cup DayZero!Activities
           \subseteq DayZero!Activities \cup {"idle", "day1", "done"}
      /\ {"write_started", "write_failed"} \subseteq DayZero!Activities
      /\ \A l \in DayZero!Activities :
            DayZero!After[l] \in DayZero!Activities \cup {"day1", "done"}
    BY ExecutionActivitiesAre, ExecutionAfterIs
<1>1. DayZero!WriteLocs \subseteq DayZero!Activities
    BY ExecutionActivitiesAre, ExecutionWritesAre
<1>2. ASSUME loc0 # "idle" PROVE starts \in 1..MaxStarts
    BY <1>2 DEF HandoffInv, ExecutionTypes
<1>3. CASE DayZeroWrites
    <2>1. loc0 \in DayZero!WriteLocs /\ DayZero!WriteCompletes
        BY <1>3 DEF DayZeroWrites
    <2>2. starts \in 1..MaxStarts
        BY <1>2, <2>1, ExecutionWritesAre
    <2> QED
        BY <1>0, <1>1, <2>1, <2>2
        DEF DayZero!WriteCompletes, DayZero!Goto, ExecutionTypes
<1>4. CASE DayZeroActs
    <2>1. ASSUME DayZero!FetchCompletes PROVE ExecutionTypes'
        <3>1. nbIntent[Device] \in Intents
            BY LifecycleAssumption DEF RunTypes
        <3> QED
            BY <1>0, <2>1, <3>1, ExecutionActivitiesAre
            DEF DayZero!FetchCompletes, DayZero!Goto, ExecutionTypes
    <2>2. ASSUME DayZero!DhcpCompletes PROVE ExecutionTypes'
        <3>1. reserved' \in BOOLEAN
            BY <2>2 DEF DayZero!DhcpCompletes, DayZero!Reserve, ExecutionTypes
        <3> QED
            BY <1>0, <2>2, <3>1, ExecutionActivitiesAre
            DEF DayZero!DhcpCompletes, DayZero!Goto, ExecutionTypes
    <2>3. ASSUME DayZero!RenderCompletes \/ DayZero!DeviceChecksIn
          PROVE  ExecutionTypes'
        <3>1. /\ loc0 \in {"render", "wait"}
              /\ DayZero!Goto(DayZero!After[loc0])
              /\ UNCHANGED <<starts, hasMac, intent0, result0, reserved,
                             published, router, DayZero!traces>>
            BY <2>3 DEF DayZero!RenderCompletes, DayZero!DeviceChecksIn
        <3> QED
            BY <1>0, <3>1, ExecutionActivitiesAre
            DEF DayZero!Goto, ExecutionTypes
    <2>6. ASSUME DayZero!PublishCompletes PROVE ExecutionTypes'
        BY <1>0, <2>6, ExecutionActivitiesAre
        DEF DayZero!PublishCompletes, DayZero!Publish, DayZero!Goto,
            ExecutionTypes
    <2>4. ASSUME DayZero!WaitTimesOut \/ DayZero!AttemptFails
                 \/ DayZero!PublishBreaksOff
          PROVE  ExecutionTypes'
        <3>1. DayZero!AttemptEnds
            BY <2>4 DEF DayZero!WaitTimesOut, DayZero!AttemptFails,
                        DayZero!PublishBreaksOff
        <3> QED
            BY <1>0, <2>4, <3>1, ExecutionAttemptEnds
            DEF DayZero!WaitTimesOut, DayZero!AttemptFails,
                DayZero!PublishBreaksOff, DayZero!Publish, ExecutionTypes
    <2>5. ASSUME DayZero!AttemptTimesOut PROVE ExecutionTypes'
        <3>1. DayZero!AttemptEnds
            BY <2>5 DEF DayZero!AttemptTimesOut
        <3>2. starts \in 1..MaxStarts /\ loc0 \in DayZero!Effects
            BY <1>2, <2>5, ExecutionWritesAre
            DEF DayZero!AttemptTimesOut, DayZero!Effects
        <3>3. late0' \subseteq [at : DayZero!Effects, by : 1..MaxStarts,
                                mac : BOOLEAN,
                                version : Intents \cup {NoIntent}]
            BY <2>5, <3>2 DEF DayZero!AttemptTimesOut, ExecutionTypes
        <3> QED
            BY <1>0, <2>5, <3>1, <3>3, ExecutionAttemptEnds
            DEF DayZero!AttemptTimesOut, ExecutionTypes
    <2> QED
        BY <1>4, <2>1, <2>2, <2>3, <2>4, <2>5, <2>6 DEF DayZeroActs
<1>5. CASE HandoffEnds
    <2>1. Child \in Runs
        BY <1>2, <1>5, LifecycleAssumption DEF HandoffEnds, ChildAnswers, Child
    <2>2. result0' \in {"none", "success", "failure", "error"}
        BY <1>5, <2>1 DEF HandoffEnds, ChildAnswers, ExecutionTypes, RunTypes
    <2>3. \E l \in {"write_failed", "done"} : DayZero!Goto(l)
        BY <1>5 DEF HandoffEnds, ChildAnswers
    <2>4. /\ loc0' \in DayZero!Activities \cup {"idle", "day1", "done"}
          /\ attempt0' \in Nat \ {0} /\ probing' \in BOOLEAN
        BY <1>0, <2>3 DEF DayZero!Goto
    <2> QED
        BY <1>5, <2>2, <2>4 DEF HandoffEnds, ExecutionTypes
<1>6. ASSUME NEW mac \in BOOLEAN, DayZeroStarts(mac) PROVE ExecutionTypes'
    <2>1. starts' \in 0..MaxStarts
        BY <1>6, LifecycleAssumption
        DEF DayZeroStarts, DayZero!Start, ExecutionTypes
    <2> QED
        BY <1>0, <1>6, <2>1
        DEF DayZeroStarts, DayZero!Start, DayZero!Goto, ExecutionTypes
<1>7. ASSUME NEW a \in late0, LateZeroEffect(a) PROVE ExecutionTypes'
    <2>1. /\ a.by \in 1..MaxStarts /\ a.mac \in BOOLEAN
          /\ a.version \in Intents \cup {NoIntent}
        BY DEF ExecutionTypes
    <2>2. reserved' \in BOOLEAN
        BY <1>7, <2>1 DEF LateZeroEffect, DayZero!LateEffect, DayZero!Reserve,
                          ExecutionTypes
    <2> QED
        BY <1>7, <2>1, <2>2 DEF LateZeroEffect, DayZero!LateEffect,
                                DayZero!Publish, ExecutionTypes
<1>8. CASE WorkersGo
    <2>1. CASE DayZero!WorkerRestarts
        BY <2>1 DEF DayZero!WorkerRestarts, ExecutionTypes
    <2>2. CASE DayZero!WorkerStops
        BY <1>0, <2>2, ExecutionAttemptEnds
        DEF DayZero!WorkerStops, ExecutionTypes
    <2> QED
        BY <1>8, <2>1, <2>2 DEF WorkersGo
<1>9. CASE DayZero!RouterBoots \/ DayZero!RouterWiped
    BY <1>9 DEF DayZero!RouterBoots, DayZero!RouterWiped, ExecutionTypes
<1> QED
    BY <1>3, <1>4, <1>5, <1>6, <1>7, <1>8, <1>9 DEF DayZeroStep

LEMMA LifeTypeStep ==
    ASSUME LifeTypeOK, HandoffInv, ClosedInv, [LifeNext]_lifeVars
    PROVE  LifeTypeOK'
<1> USE DEF LifeTypeOK
<1>1. CASE DayZeroStep
    <2>1. RunTypes'
        BY <1>1, DayZeroKeeps
        DEF RunTypes, runVars, local, history, Configs
    <2>2. ExecutionTypes'
        BY <1>1, ExecutionTypesStep
    <2>3. nbStatus' \in [Devices -> [status : LifeStatuses,
                                     by : SUBSET (Runs \cup 1..MaxStarts)]]
        <3>1. ASSUME NEW l \in DayZero!WriteLocs, NEW n \in 1..MaxStarts,
                     DayZeroPatch(l, n)
              PROVE  nbStatus' \in
                        [Devices -> [status : LifeStatuses,
                                     by : SUBSET (Runs \cup 1..MaxStarts)]]
            <4>1. DayZero!StatusAt[l] \in LifeStatuses
                BY ExecutionStatusIs
            <4>2. {n} \in SUBSET (Runs \cup 1..MaxStarts)
                OBVIOUS
            <4> QED
                BY <3>1, <4>1, <4>2 DEF DayZeroPatch
        <3>2. loc0 \in DayZero!WriteLocs => starts \in 1..MaxStarts
            BY ExecutionWritesAre DEF HandoffInv, ExecutionTypes
        <3>3. \A a \in late0 : a.by \in 1..MaxStarts
            BY DEF ExecutionTypes
        <3> QED
            BY <1>1, <3>1, <3>2, <3>3, DayZeroKeeps
    <2> QED
        BY <2>1, <2>2, <2>3
<1>2. CASE DayOneStep
    <2>1. RunTypes'
        BY <1>2, DayOneKeeps, RunTypesStep
    <2>2. router' \in Intents \cup {NoIntent}
        BY <1>2, DayOneKeeps DEF AtRouter, ExecutionTypes
    <2>3. ExecutionTypes'
        BY <1>2, <2>2, DayOneKeeps DEF ExecutionTypes, dayZero
    <2>4. nbStatus' \in [Devices -> [status : LifeStatuses,
                                     by : SUBSET (Runs \cup 1..MaxStarts)]]
        <3>1. ASSUME NEW r \in Runs, NEW l \in WriteLocs, Patch(r, l)
              PROVE  nbStatus' \in
                        [Devices -> [status : LifeStatuses,
                                     by : SUBSET (Runs \cup 1..MaxStarts)]]
            <4>1. StatusAt[l] \in LifeStatuses
                BY TableTypes DEF LifeStatuses
            <4>2. {r} \in SUBSET (Runs \cup 1..MaxStarts)
                OBVIOUS
            <4> QED
                BY <3>1, <4>1, <4>2 DEF Patch
        <3> QED
            BY <1>2, <3>1, DayOneKeeps, PatchesAre
    <2> QED
        BY <2>1, <2>3, <2>4
<1>3. CASE UNCHANGED lifeVars
    BY <1>3 DEF lifeVars, vars, dayZero, local, nautobot, history,
                RunTypes, ExecutionTypes
<1> QED
    BY <1>1, <1>2, <1>3, StepsAre

-----------------------------------------------------------------------------
(* What a step of Day 0 does to the execution and to the record.           *)

kept0 == <<starts, children, wroteLate0, nbStatus>>

Writes0 ==
    /\ loc0 \in DayZero!WriteLocs
    /\ DayZeroPatch(loc0, starts)
    /\ loc0' = DayZero!After[loc0]
    /\ result0' = IF loc0 = "write_failed" THEN "failure" ELSE result0
    /\ children' = IF loc0 = "write_bootstrapped" THEN children \cup {starts}
                                                  ELSE children
    /\ UNCHANGED <<starts, late0, wroteLate0>>

Goes0 ==
    /\ loc0 \in DayZero!Activities \ DayZero!WriteLocs
    /\ loc0' = DayZero!After[loc0]
    /\ UNCHANGED <<result0, late0, kept0>>

Fails0 ==
    /\ loc0 \in DayZero!Activities
    /\ \/ UNCHANGED <<loc0, result0>>
       \/ /\ loc0 # "write_failed" /\ loc0' = "write_failed"
          /\ UNCHANGED result0
       \/ loc0 = "write_failed" /\ loc0' = "done" /\ result0' = "error"
    /\ \A a \in late0' : a \in late0 \/ (a.by = starts /\ a.at = loc0)
    /\ UNCHANGED kept0

Answers0 ==
    /\ loc0 = "day1" /\ pc[Child] = "done"
    /\ \/ result[Child] = "failure" /\ loc0' = "write_failed"
          /\ UNCHANGED result0
       \/ result[Child] # "failure" /\ loc0' = "done"
          /\ result0' = result[Child]
    /\ UNCHANGED <<late0, kept0>>

Begins0 ==
    /\ loc0 \in {"idle", "done"}
    /\ starts < MaxStarts /\ starts' = starts + 1
    /\ loc0' = "write_started" /\ result0' = "none"
    /\ UNCHANGED <<children, late0, wroteLate0, nbStatus>>

Lands0 ==
    /\ \E a \in late0 :
          \/ /\ UNCHANGED nbStatus
             /\ wroteLate0' \in {wroteLate0, wroteLate0 \cup {a.by}}
          \/ /\ a.at \in DayZero!WriteLocs /\ DayZeroPatch(a.at, a.by)
             /\ wroteLate0' = wroteLate0 \cup {a.by}
    /\ late0' \subseteq late0
    /\ UNCHANGED <<loc0, result0, starts, children>>

Idles0 == UNCHANGED <<loc0, result0, late0, kept0>>

\* What Day 0 sees of a record that one of its executions, the child of one,
\* or nobody of Day 0 has written.
LEMMA ShownIs ==
    ASSUME NEW rec, NEW by, NEW child \in BOOLEAN,
           by = (IF Writers(rec.by) = {} THEN 0
                 ELSE CHOOSE n \in Writers(rec.by) : TRUE),
           child <=> \E n \in Writers(rec.by) : rec.by = {ChildOf[n]}
    PROVE  Shown(rec) = [says |-> Says(rec.status), by |-> by,
                         child |-> child]
<1> DEFINE any == \E n \in Writers(rec.by) : rec.by = {ChildOf[n]}
<1>1. any \in BOOLEAN
    OBVIOUS
<1>2. Shown(rec) = [says |-> Says(rec.status),
                    by |-> IF Writers(rec.by) = {} THEN 0
                           ELSE CHOOSE n \in Writers(rec.by) : TRUE,
                    child |-> any]
    BY DEF Shown
<1>3. any <=> child
    OBVIOUS
<1> HIDE DEF any
<1>4. any = child
    BY <1>1, <1>3
<1> QED
    BY <1>2, <1>4

LEMMA ShownOfOthers ==
    ASSUME NEW rec,
           \A n \in 1..MaxStarts : rec.by # {n} /\ rec.by # {ChildOf[n]}
    PROVE  Shown(rec) = [says |-> Says(rec.status), by |-> 0, child |-> FALSE]
<1>1. Writers(rec.by) = {}
    BY DEF Writers
<1>2. 0 = (IF Writers(rec.by) = {} THEN 0
           ELSE CHOOSE n \in Writers(rec.by) : TRUE)
    BY <1>1
<1>3. FALSE <=> \E n \in Writers(rec.by) : rec.by = {ChildOf[n]}
    BY <1>1
<1> QED
    BY <1>2, <1>3, ShownIs

LEMMA ShownOfExecution ==
    ASSUME NEW rec, NEW n \in 1..MaxStarts, rec.by = {n}
    PROVE  Shown(rec) = [says |-> Says(rec.status), by |-> n, child |-> FALSE]
<1>1. \A m \in 1..MaxStarts : ChildOf[m] # n
    BY LifecycleAssumption
<1>2. Writers(rec.by) = {n}
    BY <1>1 DEF Writers
<1>3. n = (IF Writers(rec.by) = {} THEN 0
           ELSE CHOOSE m \in Writers(rec.by) : TRUE)
    BY <1>2
<1>4. FALSE <=> \E m \in Writers(rec.by) : rec.by = {ChildOf[m]}
    BY <1>1, <1>2
<1> QED
    BY <1>3, <1>4, ShownIs

LEMMA ShownOfChild ==
    ASSUME NEW rec, NEW n \in 1..MaxStarts, rec.by = {ChildOf[n]}
    PROVE  Shown(rec) = [says |-> Says(rec.status), by |-> n, child |-> TRUE]
<1>1. \A m \in 1..MaxStarts : ChildOf[m] \notin 1..MaxStarts
    BY LifecycleAssumption
<1>2. \A m \in 1..MaxStarts : ChildOf[m] = ChildOf[n] => m = n
    BY LifecycleAssumption
<1>3. Writers(rec.by) = {n}
    BY <1>1, <1>2 DEF Writers
<1>4. n = (IF Writers(rec.by) = {} THEN 0
           ELSE CHOOSE m \in Writers(rec.by) : TRUE)
    BY <1>3
<1>5. TRUE <=> \E m \in Writers(rec.by) : rec.by = {ChildOf[m]}
    BY <1>3
<1> QED
    BY <1>4, <1>5, ShownIs

LEMMA ExecutionRecordIs ==
    ASSUME LifeTypeOK, NEW l \in DayZero!WriteLocs, NEW n \in 1..MaxStarts,
           DayZeroPatch(l, n)
    PROVE  Record' = [says |-> DayZero!StatusAt[l], by |-> n, child |-> FALSE]
<1>1. /\ nbStatus'[Device].status = DayZero!StatusAt[l]
      /\ nbStatus'[Device].by = {n}
    BY LifecycleAssumption DEF DayZeroPatch, LifeTypeOK
<1>2. Says(DayZero!StatusAt[l]) = DayZero!StatusAt[l]
    BY ExecutionWritesAre DEF Says, Stage, DayZero!StatusAt
<1>3. Record' = Shown(nbStatus'[Device])
    BY DEF Record
<1> QED
    BY <1>1, <1>2, <1>3, ShownOfExecution

\* A write that does not change what Day 0 sees changes nothing.
LEMMA ExecutionRepeats ==
    ASSUME LifeTypeOK, NEW l \in DayZero!WriteLocs, NEW n \in 1..MaxStarts,
           DayZeroPatch(l, n), Record' = Record
    PROVE  UNCHANGED nbStatus
<1>1. Shown(Rec) = [says |-> DayZero!StatusAt[l], by |-> n, child |-> FALSE]
    BY ExecutionRecordIs DEF Record, Rec
<1>2. /\ Says(Rec.status) = DayZero!StatusAt[l]
      /\ (IF Writers(Rec.by) = {} THEN 0
          ELSE CHOOSE m \in Writers(Rec.by) : TRUE) = n
    BY <1>1 DEF Shown
<1>3. Rec.status = DayZero!StatusAt[l]
    BY <1>2, ExecutionWritesAre DEF DayZero!StatusAt, Says
<1>4. Rec.by = {n}
    <2>1. Writers(Rec.by) # {}
        BY <1>2
    <2>2. n \in Writers(Rec.by)
        BY <1>2, <2>1
    <2>3. Rec.by = {n} \/ Rec.by = {ChildOf[n]}
        BY <2>2 DEF Writers
    <2>4. Shown(Rec).child = FALSE
        BY <1>1
    <2>5. ASSUME Rec.by = {ChildOf[n]} PROVE FALSE
        <3>1. Shown(Rec) = [says |-> Says(Rec.status), by |-> n,
                            child |-> TRUE]
            BY <2>5, ShownOfChild
        <3> QED
            BY <2>4, <3>1
    <2> QED
        BY <2>3, <2>5
<1>5. Rec = [status |-> DayZero!StatusAt[l], by |-> {n}]
    BY <1>3, <1>4, LifecycleAssumption DEF Rec, LifeTypeOK
<1> QED
    BY <1>5, LifecycleAssumption DEF DayZeroPatch, Rec, LifeTypeOK

LEMMA ExecutionMoves ==
    ASSUME LifeTypeOK, HandoffInv, DayZeroStep
    PROVE  \/ Writes0 \/ Goes0 \/ Fails0 \/ Answers0 \/ Begins0 \/ Lands0
           \/ Idles0
<1> USE DEF DayZero!outside, DayZero!traces, LifeTypeOK, ExecutionTypes,
            dayOne, nautobot, kept0
<1>1. CASE DayZeroWrites
    <2>1. DayZero!WriteCompletes
        BY <1>1 DEF DayZeroWrites
    <2> QED
        BY <1>1, <2>1
        DEF DayZeroWrites, DayZero!WriteCompletes, DayZero!Goto, Writes0
<1>2. CASE DayZeroActs
    <2>1. UNCHANGED nbStatus
        BY <1>2 DEF DayZeroActs
    <2>2. ASSUME \/ DayZero!FetchCompletes \/ DayZero!DhcpCompletes
                 \/ DayZero!RenderCompletes \/ DayZero!PublishCompletes
                 \/ DayZero!DeviceChecksIn
          PROVE  Goes0
        <3>1. loc0 \in {"fetch", "dhcp", "render", "publish", "wait"}
            BY <2>2 DEF DayZero!FetchCompletes, DayZero!DhcpCompletes,
                        DayZero!RenderCompletes, DayZero!PublishCompletes,
                        DayZero!DeviceChecksIn
        <3>2. loc0' = DayZero!After[loc0]
            BY <2>2 DEF DayZero!FetchCompletes, DayZero!DhcpCompletes,
                        DayZero!RenderCompletes, DayZero!PublishCompletes,
                        DayZero!DeviceChecksIn, DayZero!Goto
        <3>3. UNCHANGED <<starts, result0, children, late0, wroteLate0>>
            BY <2>2 DEF DayZero!FetchCompletes, DayZero!DhcpCompletes,
                        DayZero!RenderCompletes, DayZero!PublishCompletes,
                        DayZero!DeviceChecksIn
        <3> QED
            BY <2>1, <3>1, <3>2, <3>3, ExecutionActivitiesAre,
               ExecutionWritesAre DEF Goes0
    <2>3. ASSUME \/ DayZero!WaitTimesOut \/ DayZero!AttemptFails
                 \/ DayZero!PublishBreaksOff \/ DayZero!AttemptTimesOut
          PROVE  Fails0
        <3>1. /\ loc0 \in DayZero!Activities /\ DayZero!AttemptEnds
              /\ UNCHANGED <<starts, children, wroteLate0>>
            BY <2>3, ExecutionActivitiesAre, ExecutionWritesAre
            DEF DayZero!WaitTimesOut, DayZero!AttemptFails,
                DayZero!PublishBreaksOff, DayZero!AttemptTimesOut,
                DayZero!Effects
        <3>2. \A a \in late0' :
                 a \in late0 \/ (a.by = starts /\ a.at = loc0)
            BY <2>3 DEF DayZero!WaitTimesOut, DayZero!AttemptFails,
                        DayZero!PublishBreaksOff, DayZero!AttemptTimesOut
        <3> QED
            BY <2>1, <3>1, <3>2, ExecutionAttemptEnds DEF Fails0
    <2> QED
        BY <1>2, <2>2, <2>3 DEF DayZeroActs
<1>3. CASE HandoffEnds
    BY <1>3 DEF HandoffEnds, ChildAnswers, DayZero!Goto, vars, Answers0
<1>4. ASSUME NEW mac \in BOOLEAN, DayZeroStarts(mac) PROVE Begins0
    BY <1>4 DEF DayZeroStarts, DayZero!Start, DayZero!Goto, DayZero!Open,
                Begins0
<1>5. ASSUME NEW a \in late0, LateZeroEffect(a) PROVE Lands0
    <2>1. a.by \in 1..MaxStarts
        OBVIOUS
    <2>2. /\ late0' = late0 \ {a}
          /\ UNCHANGED <<loc0, starts, result0, children>>
        BY <1>5 DEF LateZeroEffect, DayZero!LateEffect
    <2>3. CASE UNCHANGED nbStatus
        <3>1. wroteLate0' \in {wroteLate0, wroteLate0 \cup {a.by}}
            BY <1>5 DEF LateZeroEffect, DayZero!LateEffect
        <3> QED
            BY <2>2, <2>3, <3>1 DEF Lands0
    <2>4. CASE a.at \in DayZero!WriteLocs /\ DayZeroPatch(a.at, a.by)
        <3>1. CASE wroteLate0' = wroteLate0 \cup {a.by}
            BY <2>2, <2>4, <3>1 DEF Lands0
        <3>2. CASE wroteLate0' # wroteLate0 \cup {a.by}
            <4>1. Record' = Record
                BY <1>5, <3>2 DEF LateZeroEffect, DayZero!LateEffect
            <4>2. UNCHANGED nbStatus
                BY <2>1, <2>4, <4>1, ExecutionRepeats
            <4> QED
                BY <2>3, <4>2
        <3> QED
            BY <3>1, <3>2
    <2> QED
        BY <1>5, <2>3, <2>4 DEF LateZeroEffect
<1>6. CASE WorkersGo
    <2>1. CASE DayZero!WorkerRestarts
        BY <1>6, <2>1 DEF WorkersGo, DayZero!WorkerRestarts, Idles0
    <2>2. CASE DayZero!WorkerStops
        <3>1. /\ loc0 = "wait" /\ DayZero!AttemptEnds
              /\ UNCHANGED <<starts, children, wroteLate0, late0, nbStatus>>
            BY <1>6, <2>2 DEF WorkersGo, DayZero!WorkerStops
        <3> QED
            BY <3>1, ExecutionAttemptEnds, ExecutionActivitiesAre DEF Fails0
    <2> QED
        BY <1>6, <2>1, <2>2 DEF WorkersGo
<1>7. CASE /\ UNCHANGED nbStatus
           /\ DayZero!RouterBoots \/ DayZero!RouterWiped
    BY <1>7 DEF DayZero!RouterBoots, DayZero!RouterWiped, Idles0
<1> QED
    BY <1>1, <1>2, <1>3, <1>4, <1>5, <1>6, <1>7 DEF DayZeroStep

-----------------------------------------------------------------------------
(* What a step of Day 1 does to the runs.                                  *)

\* A run that a step starts is a child whose parent waits, or no child.
LEMMA StartsAre ==
    ASSUME RunTypes, DayOneStep, NEW r \in Runs, pc[r] = "idle",
           pc'[r] # "idle"
    PROVE  r \in ChildRuns => loc0 = "day1" /\ Child = r
<1> USE DEF local, nautobot, history
<1>1. ASSUME NEW q \in Runs, DayOneStarts(q)
      PROVE  r \in ChildRuns => loc0 = "day1" /\ Child = r
    <2>1. q = r
        BY <1>1 DEF DayOneStarts, Start, Goto, RunTypes
    <2> QED
        BY <1>1, <2>1 DEF DayOneStarts
<1>2. ASSUME NEW q \in Runs, Advance(q) PROVE pc[q] # "idle" /\ q # r
    BY <1>2, WriteLocsAre
    DEF Advance, WriteCompletes, FetchCompletes, RenderCompletes,
        PushSucceeds, PushReportsFailure, ValidationPasses,
        ValidationFindsDrift, AttemptFails, AttemptTimesOut, Activities,
        Effects, ParkedRunResumes, ParkedRunTimesOut
<1>3. ASSUME NEW q \in Runs, Advance(q) PROVE pc'[r] = pc[r]
    BY <1>2, <1>3
    DEF Advance, WriteCompletes, FetchCompletes, RenderCompletes,
        PushSucceeds, PushReportsFailure, ValidationPasses,
        ValidationFindsDrift, AttemptFails, AttemptTimesOut, AttemptEnds,
        ParkedRunResumes, ParkedRunTimesOut, Goto, RunTypes
<1>4. CASE UNCHANGED pc
    BY <1>4
<1> QED
    BY <1>1, <1>3, <1>4
    DEF DayOneStep, DayOneAdvances, Signal, StragglerLands, IntentEdited,
        ChangedByHand

\* A run that has started never goes back to where it has not.
LEMMA StaysStarted ==
    ASSUME RunTypes, RunTypes', [Next]_vars, NEW r \in Runs, pc[r] # "idle"
    PROVE  pc'[r] # "idle"
<1>1. pc[r] \in Locs /\ Reach(pc[r]) <= Reach(pc'[r])
    BY RunsMove DEF RunTypes
<1>2. Reach(pc[r]) # 0 /\ Reach(pc[r]) \in 0..6
    BY <1>1 DEF Reach
<1> QED
    BY <1>1, <1>2 DEF Reach

\* Only a write that lands late adds to the straggled.
LEMMA StraggledAre ==
    ASSUME [Next]_vars
    PROVE  \/ straggled' = straggled
           \/ \E s \in stragglers : straggled' = straggled \cup {s.run}
BY DEF local, nautobot, history, Next, Start, Signal, Advance,
       FetchCompletes, WriteCompletes, RenderCompletes, PushSucceeds,
       PushReportsFailure, ValidationPasses, ValidationFindsDrift,
       AttemptFails, AttemptTimesOut, ParkedRunResumes, ParkedRunTimesOut,
       StragglerLands, ChangedByHand, IntentEdited, vars

-----------------------------------------------------------------------------
(* How the phases hold each other.                                         *)

LEMMA HandoffInit == LifeInit => WaitInv /\ HandoffInv /\ ClosedInv
<1> SUFFICES ASSUME LifeInit PROVE WaitInv /\ HandoffInv /\ ClosedInv
    OBVIOUS
<1>1. \A n \in 1..MaxStarts : ChildOf[n] \in Runs
    BY LifecycleAssumption
<1> QED
    BY <1>1 DEF LifeInit, Init, WaitInv, HandoffInv, ClosedInv, Open

LEMMA WaitStep ==
    ASSUME LifeTypeOK, WaitInv, [LifeNext]_lifeVars
    PROVE  WaitInv'
<1> USE DEF WaitInv, DayZero!outside, DayZero!traces
<1>1. CASE DayOneStep
    BY <1>1, DayOneKeeps DEF dayZero
<1>2. CASE UNCHANGED lifeVars
    BY <1>2 DEF lifeVars, dayZero
<1>3. CASE DayZeroWrites
    <2>1. DayZero!Goto(DayZero!After[loc0])
        BY <1>3 DEF DayZeroWrites, DayZero!WriteCompletes
    <2> QED
        BY <2>1 DEF DayZero!Goto
<1>4. ASSUME NEW l, DayZero!Goto(l) PROVE WaitInv'
    BY <1>4 DEF DayZero!Goto
<1>5. ASSUME DayZero!AttemptEnds, loc0 # "day1" PROVE WaitInv'
    BY <1>5, ExecutionAttemptEnds DEF LifeTypeOK, ExecutionTypes
<1>6. CASE DayZeroActs
    <2>1. \/ DayZero!Goto(DayZero!After[loc0])
          \/ DayZero!AttemptEnds /\ loc0 # "day1"
        BY <1>6, ExecutionActivitiesAre, ExecutionWritesAre
        DEF DayZeroActs, DayZero!FetchCompletes, DayZero!DhcpCompletes,
            DayZero!RenderCompletes, DayZero!PublishCompletes,
            DayZero!DeviceChecksIn, DayZero!WaitTimesOut,
            DayZero!AttemptFails, DayZero!PublishBreaksOff,
            DayZero!AttemptTimesOut, DayZero!Effects
    <2> QED
        BY <1>4, <1>5, <2>1
<1>7. CASE HandoffEnds
    BY <1>4, <1>7 DEF HandoffEnds, ChildAnswers
<1>8. ASSUME NEW mac \in BOOLEAN, DayZeroStarts(mac) PROVE WaitInv'
    BY <1>4, <1>8 DEF DayZeroStarts, DayZero!Start
<1>9. ASSUME NEW a \in late0, LateZeroEffect(a) PROVE WaitInv'
    BY <1>9 DEF LateZeroEffect, DayZero!LateEffect
<1>10. CASE WorkersGo
    BY <1>5, <1>10
    DEF WorkersGo, DayZero!WorkerRestarts, DayZero!WorkerStops
<1>11. CASE DayZero!RouterBoots \/ DayZero!RouterWiped
    BY <1>11 DEF DayZero!RouterBoots, DayZero!RouterWiped
<1> QED
    BY <1>1, <1>2, <1>3, <1>6, <1>7, <1>8, <1>9, <1>10, <1>11, StepsAre
    DEF DayZeroStep

LEMMA HandoffStep ==
    ASSUME LifeTypeOK, LifeTypeOK', HandoffInv, [LifeNext]_lifeVars
    PROVE  HandoffInv'
<1> USE DEF HandoffInv, Open
<1>0. /\ starts \in 0..MaxStarts /\ MaxStarts \in Nat
      /\ \A n \in 1..MaxStarts : ChildOf[n] \in Runs
      /\ \A m, n \in 1..MaxStarts : ChildOf[m] = ChildOf[n] => m = n
    BY LifecycleAssumption DEF LifeTypeOK, ExecutionTypes
<1>1. CASE UNCHANGED lifeVars
    BY <1>1 DEF lifeVars, vars, dayZero, history
<1>2. CASE DayOneStep
    <2>1. [Next]_vars /\ RunTypes /\ RunTypes' /\ UNCHANGED dayZero
        BY <1>2, DayOneKeeps DEF LifeTypeOK
    <2>2. ASSUME NEW n \in 1..MaxStarts, pc[ChildOf[n]] = "idle",
                 pc'[ChildOf[n]] # "idle"
          PROVE  n = starts /\ loc0 = "day1"
        <3>1. loc0 = "day1" /\ Child = ChildOf[n]
            BY <1>0, <1>2, <2>1, <2>2, StartsAre DEF ChildRuns
        <3>2. starts \in 1..MaxStarts
            BY <1>0, <3>1
        <3> QED
            BY <1>0, <3>1, <3>2 DEF Child
    <2>3. ASSUME NEW n \in 1..MaxStarts, pc'[ChildOf[n]] # "idle"
          PROVE  n \in children
        BY <2>2, <2>3
    <2>4. ASSUME NEW n \in 1..MaxStarts,
                 pc'[ChildOf[n]] \notin {"idle", "done"}
          PROVE  n = starts /\ loc0 = "day1"
        <3>1. ChildOf[n] \in Runs
            BY <1>0
        <3>2. pc[ChildOf[n]] = "idle" \/ pc[ChildOf[n]] # "done"
            BY <2>1, <2>4, <3>1, RunsMove DEF Start
        <3> QED
            BY <2>2, <2>4, <3>2
    <2>5. ASSUME NEW s \in stragglers' PROVE pc'[s.run] # "idle"
        <3>1. CASE s \in stragglers
            BY <2>1, <3>1, StragglerType, StaysStarted
        <3>2. ASSUME NEW r \in Runs, s.run = r, s.at = pc[r]
              PROVE  pc'[s.run] # "idle"
            <4>1. s.at \in Effects
                BY <2>1 DEF RunTypes
            <4>2. pc[r] # "idle"
                BY <3>2, <4>1, WriteLocsAre DEF Effects
            <4> QED
                BY <2>1, <3>2, <4>2, StaysStarted
        <3> QED
            BY <2>1, <3>1, <3>2, StragglersAre
    <2>6. ASSUME NEW r \in straggled' PROVE pc'[r] # "idle"
        <3>1. r \in Runs /\ pc[r] # "idle"
            BY <2>1, <2>6, StraggledAre, StragglerType DEF RunTypes
        <3> QED
            BY <2>1, <3>1, StaysStarted
    <2> QED
        BY <2>1, <2>3, <2>4, <2>5, <2>6 DEF dayZero
<1>3. CASE DayZeroStep
    <2>1. UNCHANGED <<pc, stragglers, straggled>>
        BY <1>3, DayZeroKeeps DEF runVars, history
    <2>2. CASE Writes0
        <3>1. /\ starts \in 1..MaxStarts /\ starts' = starts
              /\ loc0 \in DayZero!WriteLocs
              /\ loc0' = DayZero!After[loc0]
            BY <1>0, <2>2, ExecutionWritesAre DEF Writes0
        <3>2. CASE loc0 = "write_bootstrapped"
            <4>1. children' = children \cup {starts} /\ loc0' = "day1"
                BY <2>2, <3>1, <3>2, ExecutionAfterIs DEF Writes0
            <4>2. /\ starts' # 0 /\ starts' \in children'
                  /\ children' \subseteq 1..starts'
                <5>1. starts \in Nat /\ starts # 0 /\ starts \in 1..starts
                    BY <1>0, <3>1
                <5> QED
                    BY <3>1, <4>1, <5>1
            <4>3. /\ UNCHANGED <<late0, wroteLate0>>
                  /\ \A n \in 1..MaxStarts : ~Open(ChildOf[n])
                BY <2>2, <3>2 DEF Writes0
            <4> QED
                BY <1>0, <2>1, <3>1, <4>1, <4>2, <4>3
        <3>3. CASE loc0 # "write_bootstrapped"
            <4>1. /\ children' = children /\ loc0 # "day1"
                  /\ loc0' \notin {"idle", "day1"}
                  /\ loc0 = "write_failed" => loc0' = "done"
                BY <2>2, <3>1, <3>3, ExecutionAfterIs, ExecutionWritesAre
                DEF Writes0
            <4> QED
                BY <2>1, <2>2, <3>1, <4>1, ExecutionWritesAre DEF Writes0
        <3> QED
            BY <3>2, <3>3
    <2>3. CASE Goes0
        <3>1. /\ loc0 \in {"fetch", "dhcp", "render", "publish", "wait"}
              /\ loc0' \notin {"idle", "day1"}
            BY <2>3, ExecutionActivitiesAre, ExecutionWritesAre,
               ExecutionAfterIs DEF Goes0
        <3> QED
            BY <2>1, <2>3, <3>1 DEF Goes0, kept0
    <2>4. CASE Fails0
        <3>1. /\ loc0 \notin {"idle", "day1"} /\ loc0' \notin {"idle", "day1"}
              /\ starts \in 1..MaxStarts
              /\ loc0 \in {"write_failed", "done"} =>
                    loc0' \in {"write_failed", "done"}
            BY <1>0, <2>4, ExecutionActivitiesAre DEF Fails0
        <3> QED
            BY <1>0, <2>1, <2>4, <3>1 DEF Fails0, kept0
    <2>5. CASE Answers0
        <3>1. /\ loc0 = "day1" /\ loc0' \in {"write_failed", "done"}
              /\ UNCHANGED <<starts, children, late0, wroteLate0>>
              /\ pc[ChildOf[starts]] = "done"
            BY <2>5 DEF Answers0, kept0, Child
        <3> QED
            BY <1>0, <2>1, <3>1
    <2>6. CASE Begins0
        <3>1. /\ starts' = starts + 1 /\ starts' \in 1..MaxStarts
              /\ starts' \notin children
            BY <1>0, <2>6 DEF Begins0
        <3>2. \A n \in 1..MaxStarts : ~Open(ChildOf[n])
            BY <2>6 DEF Begins0
        <3> QED
            BY <1>0, <2>1, <2>6, <3>1, <3>2 DEF Begins0
    <2>7. CASE Lands0
        BY <2>1, <2>7 DEF Lands0
    <2>8. CASE Idles0
        BY <2>1, <2>8 DEF Idles0, kept0
    <2> QED
        BY <1>3, <2>2, <2>3, <2>4, <2>5, <2>6, <2>7, <2>8, ExecutionMoves
<1> QED
    BY <1>1, <1>2, <1>3, StepsAre

\* A run gets its result when it closes.
LEMMA ResultsAre ==
    ASSUME RunTypes, [Next]_vars, NEW r \in Runs,
           pc[r] = "done" <=> result[r] # "none"
    PROVE  pc'[r] = "done" <=> result'[r] # "none"
<1> USE DEF local, nautobot, history
<1> DEFINE Same == pc'[r] = pc[r] /\ result'[r] = result[r]
           Goes == pc[r] # "done" /\ pc'[r] # "done" /\ result'[r] = result[r]
<1>1. CASE Same
    BY <1>1
<1>2. CASE Goes
    BY <1>2
<1>3. CASE WriteCompletes(r)
    <2>1. /\ pc[r] \in WriteLocs /\ pc'[r] = AfterWrite[pc[r]]
          /\ result'[r] = ReturnedAt(pc[r])
        BY <1>3 DEF WriteCompletes, Goto, RunTypes
    <2>2. AfterWrite[pc[r]] = "done" <=> ReturnedAt(pc[r]) # "none"
        BY <2>1, WriteLocsAre DEF AfterWrite, ReturnedAt
    <2> QED
        BY <2>1, <2>2
<1>4. ASSUME NEW q \in Runs, Start(q) PROVE Same \/ Goes
    BY <1>4 DEF Start, Goto, RunTypes
<1>5. ASSUME NEW q \in Runs,
             \/ FetchCompletes(q) \/ RenderCompletes(q) \/ PushSucceeds(q)
             \/ PushReportsFailure(q) \/ ValidationPasses(q)
             \/ ValidationFindsDrift(q) \/ ParkedRunResumes(q)
      PROVE Same \/ Goes
    BY <1>5 DEF FetchCompletes, RenderCompletes, PushSucceeds,
                PushReportsFailure, ValidationPasses, ValidationFindsDrift,
                ParkedRunResumes, Goto, RunTypes
<1>6. ASSUME NEW q \in Runs \ {r}, WriteCompletes(q) \/ ParkedRunTimesOut(q)
      PROVE  Same
    BY <1>6 DEF WriteCompletes, ParkedRunTimesOut, Goto, RunTypes
<1>7. CASE ParkedRunTimesOut(r)
    BY <1>7 DEF ParkedRunTimesOut, Goto, RunTypes
<1>8. ASSUME NEW q \in Runs, AttemptFails(q) \/ AttemptTimesOut(q)
      PROVE  pc'[r] = "done" <=> result'[r] # "none"
    <2>1. AttemptEnds(q) /\ pc[q] \in Activities
        BY <1>8 DEF AttemptFails, AttemptTimesOut, Effects, Activities
    <2>2. pc[q] # "done"
        BY <2>1, WriteLocsAre DEF Activities
    <2> QED
        BY <2>1, <2>2, AttemptEndsMoves
<1>9. CASE UNCHANGED <<pc, result>>
    BY <1>9
<1> QED
    BY <1>1, <1>2, <1>3, <1>4, <1>5, <1>6, <1>7, <1>8, <1>9
    DEF Next, Advance, Signal, StragglerLands, ChangedByHand, IntentEdited,
        vars

LEMMA ClosedStep ==
    ASSUME LifeTypeOK, HandoffInv, ClosedInv, [LifeNext]_lifeVars
    PROVE  ClosedInv'
<1> USE DEF ClosedInv
<1>1. CASE UNCHANGED lifeVars
    BY <1>1 DEF lifeVars, vars, dayZero
<1>2. CASE DayOneStep
    <2>1. [Next]_vars /\ RunTypes /\ UNCHANGED dayZero
        BY <1>2, DayOneKeeps DEF LifeTypeOK
    <2> QED
        BY <2>1, ResultsAre DEF dayZero
<1>3. CASE DayZeroStep
    <2>1. UNCHANGED <<pc, result>>
        BY <1>3, DayZeroKeeps DEF runVars
    <2>2. CASE Writes0
        BY <2>1, <2>2, ExecutionWritesAre, ExecutionAfterIs DEF Writes0
    <2>3. CASE Goes0
        BY <2>1, <2>3, ExecutionActivitiesAre, ExecutionWritesAre,
           ExecutionAfterIs DEF Goes0
    <2>4. CASE Fails0
        BY <2>1, <2>4, ExecutionActivitiesAre DEF Fails0
    <2>5. CASE Answers0
        <3>1. Child \in Runs
            BY <2>5, LifecycleAssumption
            DEF Answers0, Child, HandoffInv, LifeTypeOK, ExecutionTypes
        <3> QED
            BY <2>1, <2>5, <3>1 DEF Answers0
    <2>6. CASE Begins0
        BY <2>1, <2>6 DEF Begins0
    <2>7. CASE Lands0
        BY <2>1, <2>7 DEF Lands0
    <2>8. CASE Idles0
        BY <2>1, <2>8 DEF Idles0
    <2> QED
        BY <1>3, <2>2, <2>3, <2>4, <2>5, <2>6, <2>7, <2>8, ExecutionMoves
<1> QED
    BY <1>1, <1>2, <1>3, StepsAre

-----------------------------------------------------------------------------
(* COMPLETE is earned.                                                     *)

\* What a step may do to what a run has to show for COMPLETE.
LEMMA ShownKeeps ==
    ASSUME RunTypes, [Next]_vars, NEW r \in Runs
    PROVE  /\ pushed[r] \subseteq pushed'[r]
           /\ verdict'[r] = verdict[r] \/ pc[r] = "validate"
           /\ decision'[r] = decision[r] \/ pc[r] = "parked"
<1> USE DEF local, nautobot, history
<1>1. pushed[r] \subseteq pushed'[r]
    <2>1. ASSUME NEW q, NEW c, Deliver(q, c)
          PROVE  pushed[r] \subseteq pushed'[r]
        BY <2>1 DEF Deliver, RunTypes
    <2> QED
        BY <2>1
        DEF Next, Start, Signal, Advance, FetchCompletes, WriteCompletes,
            RenderCompletes, PushSucceeds, PushReportsFailure,
            ValidationPasses, ValidationFindsDrift, AttemptFails,
            AttemptTimesOut, ParkedRunResumes, ParkedRunTimesOut,
            StragglerLands, ChangedByHand, IntentEdited, vars
<1>2. verdict'[r] = verdict[r] \/ pc[r] = "validate"
    <2>1. ASSUME NEW q \in Runs, ValidationPasses(q) \/ ValidationFindsDrift(q)
          PROVE  verdict'[r] = verdict[r] \/ pc[r] = "validate"
        BY <2>1 DEF ValidationPasses, ValidationFindsDrift, RunTypes
    <2> QED
        BY <2>1
        DEF Next, Start, Signal, Advance, FetchCompletes, WriteCompletes,
            RenderCompletes, PushSucceeds, PushReportsFailure, AttemptFails,
            AttemptTimesOut, ParkedRunResumes, ParkedRunTimesOut,
            StragglerLands, ChangedByHand, IntentEdited, vars
<1>3. decision'[r] = decision[r] \/ pc[r] = "parked"
    <2>1. ASSUME NEW q \in Runs, ParkedRunResumes(q)
          PROVE  decision'[r] = decision[r] \/ pc[r] = "parked"
        BY <2>1 DEF ParkedRunResumes, RunTypes
    <2> QED
        BY <2>1
        DEF Next, Start, Signal, Advance, FetchCompletes, WriteCompletes,
            RenderCompletes, PushSucceeds, PushReportsFailure, AttemptFails,
            ValidationPasses, ValidationFindsDrift, AttemptTimesOut,
            ParkedRunTimesOut, StragglerLands, ChangedByHand, IntentEdited,
            vars
<1> QED
    BY <1>1, <1>2, <1>3

\* Who has earned COMPLETE keeps it earned.
LEMMA SoundKeeps ==
    ASSUME RunTypes, RunTypes', [Next]_vars, NEW r \in Runs,
           Sound(r), Ending(r)
    PROVE  Sound(r)' /\ Ending(r)'
<1>1. /\ pc[r] \in Locs /\ pc'[r] \in Locs
      /\ Reach(pc[r]) <= Reach(pc'[r])
    BY RunsMove DEF RunTypes
<1>2. Reach(pc[r]) \in 5..6 /\ Reach(pc'[r]) \in 0..6
    BY ReachType DEF Ending, Reach
<1>3. Reach(pc'[r]) \in 5..6
    BY <1>1, <1>2
<1>4. Ending(r)'
    BY <1>1, <1>3, WriteLocsAre DEF Ending, Reach, Locs, Activities
<1>5. /\ pushed[r] \subseteq pushed'[r]
      /\ verdict'[r] = verdict[r] /\ decision'[r] = decision[r]
    BY ShownKeeps DEF Ending
<1> QED
    BY <1>4, <1>5 DEF Sound

LEMMA EarnedByStep ==
    ASSUME RunTypes, [Next]_vars, NEW r \in Runs, EarnedBy(r)
    PROVE  EarnedBy(r)'
<1> USE DEF local, nautobot, history, EarnedBy, AfterPush
<1>0. pushed[r] \subseteq pushed'[r]
    BY ShownKeeps
<1>1. CASE pc'[r] = pc[r]
    BY <1>0, <1>1, ShownKeeps DEF Sound
<1>2. CASE pc'[r] \in {"write_failed", "done"}
    BY <1>2
<1>3. CASE Start(r) \/ FetchCompletes(r) \/ RenderCompletes(r)
    BY <1>3 DEF Start, FetchCompletes, RenderCompletes, Goto, RunTypes
<1>4. CASE WriteCompletes(r)
    <2>1. /\ pc[r] \in WriteLocs /\ pc'[r] = AfterWrite[pc[r]]
          /\ UNCHANGED <<pushed, verdict, decision>>
        BY <1>4 DEF WriteCompletes, Goto, RunTypes
    <2> QED
        BY <2>1, WriteLocsAre DEF AfterWrite, Sound
<1>5. CASE PushSucceeds(r)
    <2>1. pc'[r] = "write_pushed"
        BY <1>5 DEF PushSucceeds, Goto, RunTypes
    <2>2. pushed'[r] # {}
        BY <1>5 DEF PushSucceeds, Deliver, RunTypes
    <2> QED
        BY <2>1, <2>2
<1>6. CASE PushReportsFailure(r)
    BY <1>2, <1>6 DEF PushReportsFailure, Goto, RunTypes
<1>7. CASE ValidationPasses(r) \/ ValidationFindsDrift(r)
    BY <1>7 DEF ValidationPasses, ValidationFindsDrift, Goto, RunTypes
<1>8. CASE AttemptFails(r) \/ AttemptTimesOut(r)
    <2>1. AttemptEnds(r) /\ pc[r] \in Activities
        BY <1>8 DEF AttemptFails, AttemptTimesOut, Effects, Activities
    <2>2. pc'[r] \in {pc[r], "write_failed", "done"}
        BY <2>1, AttemptEndsMoves
    <2> QED
        BY <1>1, <1>2, <2>2
<1>9. CASE ParkedRunResumes(r)
    <2>1. /\ pc[r] = "parked" /\ pushed' = pushed
          /\ pc'[r] \in {"write_complete", "write_failed"}
          /\ pc'[r] = "write_complete" => decision'[r] = "approved"
        BY <1>9 DEF ParkedRunResumes, Goto, RunTypes
    <2> QED
        BY <2>1 DEF Sound
<1>10. CASE ParkedRunTimesOut(r)
    BY <1>2, <1>10 DEF ParkedRunTimesOut, Goto, RunTypes
<1>11. ASSUME NEW q \in Runs \ {r}, Start(q) \/ Advance(q)
       PROVE  pc'[r] = pc[r]
    BY <1>11
    DEF Start, Advance, WriteCompletes, FetchCompletes, RenderCompletes,
        PushSucceeds, PushReportsFailure, ValidationPasses,
        ValidationFindsDrift, AttemptFails, AttemptTimesOut, AttemptEnds,
        ParkedRunResumes, ParkedRunTimesOut, Goto, RunTypes
<1>12. CASE UNCHANGED pc
    BY <1>1, <1>12
<1> QED
    BY <1>1, <1>3, <1>4, <1>5, <1>6, <1>7, <1>8, <1>9, <1>10, <1>11, <1>12
    DEF Next, Advance, Signal, StragglerLands, ChangedByHand, IntentEdited,
        vars

\* Only one location of either phase writes COMPLETE.
LEMMA CompleteIsAt ==
    ASSUME NEW l \in WriteLocs, StatusAt[l] = "COMPLETE"
    PROVE  l = "write_complete"
BY WriteLocsAre DEF StatusAt

LEMMA EarnedInit == LifeInit => EarnedInv
BY LifecycleAssumption
DEF LifeInit, Init, EarnedInv, EarnedBy, AfterPush, Rec

LEMMA EarnedStep ==
    ASSUME LifeTypeOK, LifeTypeOK', EarnedInv, [LifeNext]_lifeVars
    PROVE  EarnedInv'
<1> USE DEF EarnedInv
<1>1. CASE UNCHANGED lifeVars
    BY <1>1 DEF lifeVars, vars, local, nautobot, history, EarnedBy, Sound,
                Ending, Rec
<1>2. CASE DayOneStep
    <2>1. [Next]_vars /\ RunTypes /\ RunTypes' /\ DOMAIN nbStatus = Devices
        BY <1>2, DayOneKeeps DEF LifeTypeOK
    <2>2. \A r \in Runs : EarnedBy(r)'
        BY <2>1, EarnedByStep
    <2>3. ASSUME NEW s \in stragglers', s.at = "write_complete"
          PROVE  Sound(s.run)' /\ Ending(s.run)'
        <3>1. s.run \in Runs /\ Sound(s.run) /\ Ending(s.run)
            BY <2>1, <2>3, StragglersAre, StragglerType DEF EarnedBy, Ending
        <3> QED
            BY <2>1, <3>1, SoundKeeps
    <2>4. ASSUME Rec'.status = "COMPLETE"
          PROVE  \E r \in Runs : Rec'.by = {r} /\ Sound(r)' /\ Ending(r)'
        <3>1. \E r \in Runs : Rec'.by = {r} /\ Sound(r) /\ Ending(r)
            <4>1. CASE Rec' = Rec
                BY <2>4, <4>1
            <4>2. ASSUME NEW r \in Runs, pc[r] \in WriteLocs,
                         Rec' = [status |-> StatusAt[pc[r]], by |-> {r}]
                  PROVE  Rec'.by = {r} /\ Sound(r) /\ Ending(r)
                BY <2>4, <4>2, CompleteIsAt DEF EarnedBy, Ending
            <4>3. ASSUME NEW s \in stragglers, s.at \in WriteLocs,
                         Rec' = [status |-> StatusAt[s.at], by |-> {s.run}]
                  PROVE  /\ s.run \in Runs /\ Rec'.by = {s.run}
                         /\ Sound(s.run) /\ Ending(s.run)
                BY <2>1, <2>4, <4>3, CompleteIsAt, StragglerType
            <4> QED
                BY <2>1, <4>1, <4>2, <4>3, WriterIs, LifecycleAssumption
                DEF Rec
        <3> QED
            BY <2>1, <3>1, SoundKeeps
    <2> QED
        BY <2>2, <2>3, <2>4
<1>3. CASE DayZeroStep
    <2>1. UNCHANGED runVars
        BY <1>3, DayZeroKeeps
    <2>2. /\ \A r \in Runs : EarnedBy(r)'
          /\ \A s \in stragglers' :
                s.at = "write_complete" => Sound(s.run)' /\ Ending(s.run)'
        BY <2>1 DEF runVars, local, history, EarnedBy, Sound, Ending
    <2>3. Rec'.status = "COMPLETE" => Rec' = Rec
        <3>1. ASSUME NEW l \in DayZero!WriteLocs, NEW n, DayZeroPatch(l, n)
              PROVE  Rec'.status # "COMPLETE"
            BY <3>1, ExecutionStatusIs, LifecycleAssumption
            DEF DayZeroPatch, Rec, LifeTypeOK
        <3> QED
            BY <1>3, <3>1, DayZeroKeeps DEF Rec
    <2> QED
        BY <2>1, <2>2, <2>3 DEF runVars, local, history, Sound, Ending
<1> QED
    BY <1>1, <1>2, <1>3, StepsAre

-----------------------------------------------------------------------------
(* The record is final when everything has closed.                         *)

\* A run that reports has written what it reports.
LEMMA ReportsAreWritten ==
    ASSUME RunTypes, DOMAIN nbStatus = Devices, [Next]_vars, NEW r \in Runs,
           result'[r] # result[r], result'[r] \in {"success", "failure"}
    PROVE  nbStatus'[DeviceOf[r]] =
              [status |-> IF result'[r] = "success" THEN "COMPLETE"
                                                    ELSE "FAILED",
               by |-> {r}]
<1> USE DEF local, nautobot, history
<1>1. CASE WriteCompletes(r)
    <2>1. /\ pc[r] \in WriteLocs /\ result'[r] = ReturnedAt(pc[r])
          /\ nbStatus'[DeviceOf[r]] = [status |-> StatusAt[pc[r]], by |-> {r}]
        BY <1>1, ConstantsAssumption DEF WriteCompletes, Patch, RunTypes
    <2>2. \/ pc[r] = "write_complete" /\ result'[r] = "success"
          \/ pc[r] = "write_failed" /\ result'[r] = "failure"
        BY <2>1 DEF ReturnedAt
    <2> QED
        BY <2>1, <2>2 DEF StatusAt
<1>2. ASSUME NEW q \in Runs \ {r}, WriteCompletes(q) PROVE FALSE
    BY <1>2 DEF WriteCompletes, RunTypes
<1>3. ASSUME NEW q \in Runs, AttemptFails(q) \/ AttemptTimesOut(q) PROVE FALSE
    <2>1. AttemptEnds(q) /\ pc[q] \in Activities
        BY <1>3 DEF AttemptFails, AttemptTimesOut, Effects, Activities
    <2> QED
        BY <2>1, AttemptEndsMoves
<1>4. ASSUME NEW q \in Runs, ParkedRunTimesOut(q) PROVE FALSE
    BY <1>4 DEF ParkedRunTimesOut, RunTypes
<1>5. CASE UNCHANGED result
    BY <1>5
<1> QED
    BY <1>1, <1>2, <1>3, <1>4, <1>5
    DEF Next, Start, Signal, Advance, FetchCompletes, RenderCompletes,
        PushSucceeds, PushReportsFailure, ValidationPasses,
        ValidationFindsDrift, ParkedRunResumes, StragglerLands,
        ChangedByHand, IntentEdited, vars

LEMMA QuietInit == LifeInit => QuietInv
<1> SUFFICES ASSUME LifeInit PROVE QuietInv
    OBVIOUS
<1>1. Rec.by = {} /\ Rec.status = "QUEUED"
    BY LifecycleAssumption DEF LifeInit, Init, Rec
<1> QED
    BY <1>1 DEF QuietInv, WrittenByRun, WrittenByExecution

LEMMA QuietDayOne ==
    ASSUME LifeTypeOK, LifeTypeOK', HandoffInv, ClosedInv, QuietInv, DayOneStep
    PROVE  QuietInv'
<1> USE DEF QuietInv
<1>1. /\ [Next]_vars /\ RunTypes /\ RunTypes' /\ DOMAIN nbStatus = Devices
      /\ UNCHANGED dayZero
    BY DayOneKeeps DEF LifeTypeOK
<1>2. \A r \in Runs : r \notin 1..MaxStarts /\ DeviceOf[r] = Device
    BY LifecycleAssumption, ConstantsAssumption
<1>3. \/ Rec' = Rec
      \/ \E r \in Runs : /\ pc[r] \in WriteLocs
                         /\ Rec' = [status |-> StatusAt[pc[r]], by |-> {r}]
      \/ \E s \in stragglers :
            /\ s.at \in WriteLocs
            /\ straggled' = straggled \cup {s.run}
            /\ Rec' = [status |-> StatusAt[s.at], by |-> {s.run}]
    BY <1>1, WriterIs, LifecycleAssumption DEF Rec
<1>4. Rec' = Rec \/ \E r \in Runs : Rec'.by = {r}
    BY <1>1, <1>3, StragglerType
<1>5. ASSUME NEW r \in Runs, result'[r] # result[r],
             result'[r] \in {"success", "failure"}
      PROVE  Rec' = [status |-> IF result'[r] = "success" THEN "COMPLETE"
                                                          ELSE "FAILED",
                     by |-> {r}]
    BY <1>1, <1>2, <1>5, ReportsAreWritten DEF Rec
<1>6. ASSUME NEW r \in Runs, Rec'.by = {r}, r \notin straggled'
      PROVE  /\ pc'[r] # "idle"
             /\ result'[r] = "success" => Rec'.status = "COMPLETE"
             /\ result'[r] = "failure" => Rec'.status = "FAILED"
    <2> DEFINE Told == /\ pc'[r] # "idle"
                       /\ result'[r] = "success" => Rec'.status = "COMPLETE"
                       /\ result'[r] = "failure" => Rec'.status = "FAILED"
    <2>1. r \notin straggled
        BY <1>1, <1>6, StraggledAre
    <2>2. CASE Rec' = Rec
        <3>1. pc'[r] # "idle"
            BY <1>1, <1>6, <2>1, <2>2, StaysStarted DEF WrittenByRun
        <3> QED
            BY <1>5, <1>6, <2>1, <2>2, <3>1 DEF WrittenByRun
    <2>3. ASSUME NEW q \in Runs, pc[q] \in WriteLocs,
                 Rec' = [status |-> StatusAt[pc[q]], by |-> {q}]
          PROVE  Told
        <3>1. q = r
            BY <1>6, <2>3
        <3>2. pc[r] \notin {"idle", "done"}
            BY <2>3, <3>1, WriteLocsAre
        <3>3. result[r] = "none" /\ pc'[r] # "idle"
            BY <1>1, <3>2, StaysStarted DEF ClosedInv
        <3> QED
            BY <1>5, <3>3
    <2>4. ASSUME NEW s \in stragglers, straggled' = straggled \cup {s.run},
                 Rec' = [status |-> StatusAt[s.at], by |-> {s.run}]
          PROVE  FALSE
        BY <1>6, <2>4
    <2> QED
        BY <1>3, <2>2, <2>3, <2>4
<1>7. ASSUME NEW n \in 1..MaxStarts PROVE WrittenByExecution(n)'
    <2> SUFFICES ASSUME Rec'.by = {n}, n \notin wroteLate0
                 PROVE  WrittenByExecution(n)'
        BY <1>1 DEF WrittenByExecution, dayZero
    <2>1. Rec' = Rec
        BY <1>2, <1>4
    <2>2. ChildOf[n] \in Runs
        BY LifecycleAssumption
    <2>3. result'[ChildOf[n]] = "success" => result[ChildOf[n]] = "success"
        <3>1. ASSUME result'[ChildOf[n]] # result[ChildOf[n]],
                     result'[ChildOf[n]] = "success"
              PROVE  FALSE
            <4>1. Rec'.by = {ChildOf[n]}
                BY <1>5, <2>2, <3>1
            <4> QED
                BY <1>2, <2>2, <4>1
        <3> QED
            BY <3>1
    <2> QED
        BY <1>1, <2>1, <2>3 DEF WrittenByExecution, dayZero
<1> QED
    BY <1>4, <1>6, <1>7 DEF WrittenByRun

LEMMA QuietDayZero ==
    ASSUME LifeTypeOK, HandoffInv, ClosedInv, QuietInv, DayZeroStep
    PROVE  QuietInv'
<1> USE DEF QuietInv
<1>0. /\ starts \in 0..MaxStarts /\ MaxStarts \in Nat
      /\ \A n \in 1..MaxStarts : ChildOf[n] \in Runs /\ n \notin Runs
    BY LifecycleAssumption DEF LifeTypeOK, ExecutionTypes
<1>1. UNCHANGED <<pc, result, straggled>>
    BY DayZeroKeeps DEF runVars, history
<1>2. ASSUME NEW l \in DayZero!WriteLocs, NEW n \in 1..MaxStarts,
             DayZeroPatch(l, n)
      PROVE  Rec' = [status |-> DayZero!StatusAt[l], by |-> {n}]
    BY <1>2, LifecycleAssumption DEF DayZeroPatch, Rec, LifeTypeOK
<1>3. ASSUME UNCHANGED nbStatus, \A n \in 1..MaxStarts : WrittenByExecution(n)'
      PROVE  QuietInv'
    BY <1>1, <1>3 DEF WrittenByRun, Rec
<1>4. ASSUME NEW l \in DayZero!WriteLocs, NEW n \in 1..MaxStarts,
             DayZeroPatch(l, n), WrittenByExecution(n)'
      PROVE  QuietInv'
    <2>1. Rec' = [status |-> DayZero!StatusAt[l], by |-> {n}]
        BY <1>2, <1>4
    <2>2. \A m \in 1..MaxStarts : WrittenByExecution(m)'
        BY <1>4, <2>1 DEF WrittenByExecution
    <2> QED
        BY <1>0, <2>1, <2>2 DEF WrittenByRun
<1>5. CASE Writes0
    <2>1. /\ loc0 \in DayZero!WriteLocs /\ loc0 \notin {"idle", "day1", "done"}
          /\ starts \in 1..MaxStarts /\ result0 = "none"
        BY <1>0, <1>5, ExecutionWritesAre DEF Writes0, HandoffInv, ClosedInv
    <2>2. Rec' = [status |-> DayZero!StatusAt[loc0], by |-> {starts}]
        BY <1>2, <1>5, <2>1 DEF Writes0
    <2>3. ASSUME loc0' = "day1" PROVE result[ChildOf[starts]] # "success"
        <3>1. loc0 = "write_bootstrapped"
            BY <1>5, <2>1, <2>3, ExecutionWritesAre, ExecutionAfterIs
            DEF Writes0
        <3>2. pc[ChildOf[starts]] = "idle"
            BY <2>1, <3>1 DEF HandoffInv
        <3> QED
            BY <1>0, <2>1, <3>2 DEF ClosedInv
    <2>4. result0' = "failure" => Rec'.status = "FAILED"
        BY <1>5, <2>1, <2>2, ExecutionStatusIs DEF Writes0
    <2>5. result0' # "success" /\ starts' = starts
        BY <1>5, <2>1 DEF Writes0
    <2>6. WrittenByExecution(starts)'
        BY <1>0, <1>1, <2>1, <2>3, <2>4, <2>5 DEF WrittenByExecution
    <2> QED
        BY <1>4, <1>5, <2>1, <2>5, <2>6 DEF Writes0
<1>6. ASSUME loc0 \notin {"idle", "done"}, UNCHANGED kept0,
             loc0 \in {"write_started", "write_failed"} =>
                 loc0' \in {"write_started", "write_failed"}
                 \/ result0' = "error",
             result0' \in {result0, "error"}, loc0' # "day1"
      PROVE  QuietInv'
    <2>1. result0 = "none"
        BY <1>6 DEF ClosedInv
    <2>2. ASSUME NEW n \in 1..MaxStarts PROVE WrittenByExecution(n)'
        BY <1>6, <2>1 DEF WrittenByExecution, kept0, Rec
    <2> QED
        BY <1>3, <1>6, <2>2 DEF kept0
<1>7. CASE Goes0
    <2>1. /\ loc0 \in {"fetch", "dhcp", "render", "publish", "wait"}
          /\ loc0' # "day1"
        BY <1>7, ExecutionActivitiesAre, ExecutionWritesAre, ExecutionAfterIs
        DEF Goes0
    <2> QED
        BY <1>6, <1>7, <2>1 DEF Goes0
<1>8. CASE Fails0
    <2>1. loc0 \notin {"idle", "day1", "done"}
        BY <1>8, ExecutionActivitiesAre DEF Fails0
    <2> QED
        BY <1>6, <1>8, <2>1 DEF Fails0
<1>9. CASE Answers0
    <2>1. loc0 = "day1" /\ result0 = "none" /\ UNCHANGED kept0
        BY <1>9 DEF Answers0, ClosedInv
    <2>2. ASSUME NEW n \in 1..MaxStarts PROVE WrittenByExecution(n)'
        BY <1>9, <2>1 DEF WrittenByExecution, kept0, Rec, Answers0, Child
    <2> QED
        BY <1>3, <2>1, <2>2 DEF kept0
<1>10. CASE Begins0
    <2>1. \A n \in 1..starts : n \in 1..starts' /\ n # starts'
        BY <1>0, <1>10 DEF Begins0
    <2>2. ASSUME NEW n \in 1..MaxStarts PROVE WrittenByExecution(n)'
        BY <1>10, <2>1 DEF WrittenByExecution, Rec, Begins0
    <2> QED
        BY <1>3, <1>10, <2>2 DEF Begins0
<1>11. CASE Lands0
    <2>1. PICK a \in late0 :
             \/ /\ UNCHANGED nbStatus
                /\ wroteLate0' \in {wroteLate0, wroteLate0 \cup {a.by}}
             \/ /\ a.at \in DayZero!WriteLocs /\ DayZeroPatch(a.at, a.by)
                /\ wroteLate0' = wroteLate0 \cup {a.by}
        BY <1>11 DEF Lands0
    <2>2. a.by \in 1..MaxStarts
        BY DEF LifeTypeOK, ExecutionTypes
    <2>3. CASE /\ UNCHANGED nbStatus
               /\ wroteLate0' \in {wroteLate0, wroteLate0 \cup {a.by}}
        <3>1. ASSUME NEW n \in 1..MaxStarts PROVE WrittenByExecution(n)'
            BY <1>1, <1>11, <2>3 DEF WrittenByExecution, Rec, Lands0
        <3> QED
            BY <1>3, <2>3, <3>1
    <2>4. CASE /\ a.at \in DayZero!WriteLocs /\ DayZeroPatch(a.at, a.by)
               /\ wroteLate0' = wroteLate0 \cup {a.by}
        <3>1. WrittenByExecution(a.by)'
            BY <2>4 DEF WrittenByExecution
        <3> QED
            BY <1>4, <2>2, <2>4, <3>1
    <2> QED
        BY <2>1, <2>3, <2>4
<1>12. CASE Idles0
    <2>1. ASSUME NEW n \in 1..MaxStarts PROVE WrittenByExecution(n)'
        BY <1>1, <1>12 DEF WrittenByExecution, Rec, Idles0, kept0
    <2> QED
        BY <1>3, <1>12, <2>1 DEF Idles0, kept0
<1> QED
    BY <1>5, <1>7, <1>8, <1>9, <1>10, <1>11, <1>12, ExecutionMoves

LEMMA QuietStep ==
    ASSUME LifeTypeOK, LifeTypeOK', HandoffInv, ClosedInv, QuietInv,
           [LifeNext]_lifeVars
    PROVE  QuietInv'
<1>1. CASE UNCHANGED lifeVars
    BY <1>1 DEF lifeVars, vars, dayZero, nautobot, history, QuietInv,
                WrittenByRun, WrittenByExecution, Rec
<1> QED
    BY <1>1, QuietDayOne, QuietDayZero, StepsAre

-----------------------------------------------------------------------------
(* The stages of both phases.                                              *)

LEMMA LifeStagesAre ==
    /\ \A l \in DayZero!WriteLocs :
          LifeStage(DayZero!StatusAt[l]) = ExecutionReach(l)
    /\ \A l \in WriteLocs : LifeStage(StatusAt[l]) = 5 + Reach(l)
<1>1. \A l \in DayZero!WriteLocs :
         LifeStage(DayZero!StatusAt[l]) = ExecutionReach(l)
    BY ExecutionWritesAre
    DEF LifeStage, ExecutionReach, DayZero!StatusAt, Stage
<1>2. \A l \in WriteLocs : LifeStage(StatusAt[l]) = 5 + Reach(l)
    BY WriteLocsAre DEF LifeStage, StatusAt, Stage, Reach
<1> QED
    BY <1>1, <1>2

LEMMA ExecutionReachType ==
    ASSUME NEW l
    PROVE  /\ ExecutionReach(l) \in 1..11
           /\ ExecutionReach(l) <= ExecutionReach("write_failed")
           /\ ExecutionReach(l) <= ExecutionReach("done")
BY DEF ExecutionReach

LEMMA ExecutionGoesOn ==
    ASSUME NEW l \in DayZero!Activities
    PROVE  ExecutionReach(l) <= ExecutionReach(DayZero!After[l])
BY ExecutionActivitiesAre, ExecutionAfterIs DEF ExecutionReach

LEMMA LifeStageType ==
    ASSUME NEW status
    PROVE  LifeStage(status) \in 0..11
<1>1. Stage(status) \in 0..6
    BY StageType
<1> QED
    BY <1>1 DEF LifeStage

LEMMA OrderInit == LifeInit => OrderInv
<1> SUFFICES ASSUME LifeInit PROVE OrderInv
    OBVIOUS
<1>1. Rec.by = {} /\ late0 = {} /\ stragglers = {}
    BY LifecycleAssumption DEF LifeInit, Init, Rec
<1>2. \A x : Rec.by # {x}
    BY <1>1
<1> QED
    BY <1>1, <1>2 DEF OrderInv

LEMMA OrderDayOne ==
    ASSUME LifeTypeOK, HandoffInv, OrderInv, DayOneStep
    PROVE  OrderInv'
<1>1. /\ [Next]_vars /\ RunTypes /\ DOMAIN nbStatus = Devices
      /\ UNCHANGED dayZero
    BY DayOneKeeps DEF LifeTypeOK
<1>2. \A l : Reach(l) \in Int
    BY ReachType
<1>3. \A r \in Runs : Reach(pc[r]) <= Reach(pc'[r])
    BY <1>1, RunsMove
<1>4. \/ Rec' = Rec
      \/ \E r \in Runs : /\ pc[r] \in WriteLocs
                         /\ Rec' = [status |-> StatusAt[pc[r]], by |-> {r}]
      \/ \E s \in stragglers :
            /\ s.at \in WriteLocs
            /\ Rec' = [status |-> StatusAt[s.at], by |-> {s.run}]
    BY <1>1, WriterIs, LifecycleAssumption DEF Rec
<1>5. Rec' = Rec \/ \E r \in Runs : Rec'.by = {r}
    BY <1>1, <1>4, StragglerType
<1>6. Rec'.by = {starts} => LifeStage(Rec'.status) <= ExecutionReach(loc0)
    <2>1. CASE starts = 0
        <3>1. ExecutionReach(loc0) = 11
            BY <2>1 DEF HandoffInv, ExecutionReach
        <3> QED
            BY <3>1, LifeStageType
    <2>2. CASE starts # 0
        <3>1. starts \in 1..MaxStarts
            BY <2>2, LifecycleAssumption DEF LifeTypeOK, ExecutionTypes
        <3>2. \A r \in Runs : r # starts
            BY <3>1, LifecycleAssumption
        <3> QED
            BY <1>5, <3>2 DEF OrderInv
    <2> QED
        BY <2>1, <2>2
<1>7. ASSUME NEW r \in Runs, Rec'.by = {r}
      PROVE  LifeStage(Rec'.status) <= 5 + Reach(pc'[r])
    <2>1. LifeStage(Rec'.status) <= 5 + Reach(pc[r])
        <3>1. CASE Rec' = Rec
            BY <1>7, <3>1 DEF OrderInv
        <3>2. ASSUME NEW q \in Runs, pc[q] \in WriteLocs,
                     Rec' = [status |-> StatusAt[pc[q]], by |-> {q}]
              PROVE  LifeStage(Rec'.status) <= 5 + Reach(pc[r])
            <4>1. q = r
                BY <1>7, <3>2
            <4>2. LifeStage(Rec'.status) = 5 + Reach(pc[r])
                BY <3>2, <4>1, LifeStagesAre
            <4> QED
                BY <1>2, <4>2
        <3>3. ASSUME NEW s \in stragglers, s.at \in WriteLocs,
                     Rec' = [status |-> StatusAt[s.at], by |-> {s.run}]
              PROVE  LifeStage(Rec'.status) <= 5 + Reach(pc[r])
            <4>1. s.run = r
                BY <1>7, <3>3
            <4>2. LifeStage(Rec'.status) = 5 + Reach(s.at)
                BY <3>3, LifeStagesAre
            <4>3. Reach(s.at) <= Reach(pc[r])
                BY <3>3, <4>1 DEF OrderInv
            <4> QED
                BY <1>2, <4>2, <4>3
        <3> QED
            BY <1>4, <3>1, <3>2, <3>3
    <2> QED
        BY <1>2, <1>3, <2>1, LifeStageType
<1>8. ASSUME NEW s \in stragglers', s.at \in WriteLocs
      PROVE  Reach(s.at) <= Reach(pc'[s.run])
    <2>1. s.run \in Runs
        BY <1>1, StragglersAre, StragglerType
    <2>2. Reach(s.at) <= Reach(pc[s.run])
        BY <1>1, <1>2, <1>8, StragglersAre DEF OrderInv
    <2> QED
        BY <1>2, <1>3, <2>1, <2>2
<1> QED
    BY <1>1, <1>6, <1>7, <1>8 DEF OrderInv, dayZero

LEMMA OrderDayZero ==
    ASSUME LifeTypeOK, HandoffInv, QuietInv, OrderInv, DayZeroStep
    PROVE  OrderInv'
<1>1. UNCHANGED <<pc, stragglers>>
    BY DayZeroKeeps DEF runVars
<1>2. \A l : ExecutionReach(l) \in Int
    BY ExecutionReachType
<1>3. /\ starts \in 0..MaxStarts /\ MaxStarts \in Nat
      /\ \A n \in 1..MaxStarts : n \notin Runs
      /\ \A a \in late0 : a.by \in 1..MaxStarts
    BY LifecycleAssumption DEF LifeTypeOK, ExecutionTypes
<1>4. ASSUME UNCHANGED <<nbStatus, starts>>,
             ExecutionReach(loc0) <= ExecutionReach(loc0'),
             \A a \in late0' : a \in late0 \/ (a.by = starts /\ a.at = loc0)
      PROVE  OrderInv'
    <2>1. Rec'.by = {starts'} => LifeStage(Rec'.status) <= ExecutionReach(loc0')
        <3>1. Rec' = Rec /\ LifeStage(Rec.status) \in Int
            BY <1>4, LifeStageType DEF Rec
        <3> QED
            BY <1>2, <1>4, <3>1 DEF OrderInv
    <2>2. ASSUME NEW a \in late0', a.by = starts', a.at \in DayZero!WriteLocs
          PROVE  ExecutionReach(a.at) <= ExecutionReach(loc0')
        <3>1. ExecutionReach(a.at) <= ExecutionReach(loc0)
            BY <1>2, <1>4, <2>2 DEF OrderInv
        <3> QED
            BY <1>2, <1>4, <3>1
    <2> QED
        BY <1>1, <1>4, <2>1, <2>2 DEF OrderInv, Rec
<1>5. ASSUME NEW l \in DayZero!WriteLocs, NEW n \in 1..MaxStarts,
             DayZeroPatch(l, n), UNCHANGED starts, late0' \subseteq late0,
             ExecutionReach(loc0) <= ExecutionReach(loc0'),
             n = starts => ExecutionReach(l) <= ExecutionReach(loc0)
      PROVE  OrderInv'
    <2>1. Rec' = [status |-> DayZero!StatusAt[l], by |-> {n}]
        BY <1>5, LifecycleAssumption DEF DayZeroPatch, Rec, LifeTypeOK
    <2>2. LifeStage(Rec'.status) = ExecutionReach(l)
        BY <2>1, LifeStagesAre
    <2>3. Rec'.by = {starts'} => LifeStage(Rec'.status) <= ExecutionReach(loc0')
        BY <1>2, <1>5, <2>1, <2>2
    <2>4. ASSUME NEW a \in late0', a.by = starts', a.at \in DayZero!WriteLocs
          PROVE  ExecutionReach(a.at) <= ExecutionReach(loc0')
        <3>1. ExecutionReach(a.at) <= ExecutionReach(loc0)
            BY <1>5, <2>4 DEF OrderInv
        <3> QED
            BY <1>2, <1>5, <3>1
    <2>5. \A r \in Runs : Rec'.by # {r}
        BY <1>3, <2>1
    <2> QED
        BY <1>1, <2>3, <2>4, <2>5 DEF OrderInv
<1>6. CASE Writes0
    <2>1. /\ loc0 \in DayZero!Activities /\ loc0 \in DayZero!WriteLocs
          /\ starts \in 1..MaxStarts
        BY <1>3, <1>6, ExecutionWritesAre, ExecutionActivitiesAre
        DEF Writes0, HandoffInv
    <2>2. ExecutionReach(loc0) <= ExecutionReach(loc0')
        BY <1>6, <2>1, ExecutionGoesOn DEF Writes0
    <2> QED
        BY <1>2, <1>5, <1>6, <2>1, <2>2 DEF Writes0
<1>7. CASE Goes0
    <2>1. ExecutionReach(loc0) <= ExecutionReach(loc0')
        BY <1>7, ExecutionGoesOn DEF Goes0
    <2> QED
        BY <1>4, <1>7, <2>1 DEF Goes0, kept0
<1>8. CASE Fails0
    <2>1. ExecutionReach(loc0) <= ExecutionReach(loc0')
        BY <1>2, <1>8, ExecutionReachType DEF Fails0
    <2> QED
        BY <1>4, <1>8, <2>1 DEF Fails0, kept0
<1>9. CASE Answers0
    <2>1. ExecutionReach(loc0) <= ExecutionReach(loc0')
        BY <1>9, ExecutionReachType DEF Answers0
    <2> QED
        BY <1>4, <1>9, <2>1 DEF Answers0, kept0
<1>10. CASE Begins0
    <2>1. /\ starts' \in 1..MaxStarts /\ starts' \notin 1..starts
          /\ starts' = starts + 1
        BY <1>3, <1>10 DEF Begins0
    <2>2. Rec'.by # {starts'}
        BY <1>10, <2>1 DEF Begins0, Rec, QuietInv, WrittenByExecution, HandoffInv
    <2>3. \A a \in late0' : a.by # starts'
        BY <1>10, <2>1 DEF Begins0, HandoffInv
    <2>4. Rec' = Rec
        BY <1>10 DEF Begins0, Rec
    <2> QED
        BY <1>1, <2>2, <2>3, <2>4 DEF OrderInv
<1>11. CASE Lands0
    <2>1. loc0' = loc0 /\ starts' = starts /\ late0' \subseteq late0
        BY <1>11 DEF Lands0
    <2>2. CASE UNCHANGED nbStatus
        BY <1>2, <1>4, <2>1, <2>2
    <2>3. ASSUME NEW a \in late0, a.at \in DayZero!WriteLocs,
                 DayZeroPatch(a.at, a.by)
          PROVE  OrderInv'
        <3>1. a.by = starts => ExecutionReach(a.at) <= ExecutionReach(loc0)
            BY <2>3 DEF OrderInv
        <3> QED
            BY <1>2, <1>3, <1>5, <2>1, <2>3, <3>1
    <2> QED
        BY <1>11, <2>2, <2>3 DEF Lands0
<1>12. CASE Idles0
    BY <1>2, <1>4, <1>12 DEF Idles0, kept0
<1> QED
    BY <1>6, <1>7, <1>8, <1>9, <1>10, <1>11, <1>12, ExecutionMoves

LEMMA OrderStep ==
    ASSUME LifeTypeOK, HandoffInv, QuietInv, OrderInv, [LifeNext]_lifeVars
    PROVE  OrderInv'
<1>1. CASE UNCHANGED lifeVars
    BY <1>1 DEF lifeVars, vars, dayZero, nautobot, OrderInv, Rec
<1> QED
    BY <1>1, OrderDayOne, OrderDayZero, StepsAre

-----------------------------------------------------------------------------
(* The invariants in every reachable state.                                *)

LEMMA LifeStep == LifeInv /\ [LifeNext]_lifeVars => LifeInv'
<1> SUFFICES ASSUME LifeInv, [LifeNext]_lifeVars PROVE LifeInv'
    OBVIOUS
<1>1. LifeTypeOK'
    BY LifeTypeStep DEF LifeInv
<1> QED
    BY <1>1, WaitStep, HandoffStep, ClosedStep, EarnedStep, QuietStep,
       OrderStep
    DEF LifeInv

\* How the two phases hold each other, in every reachable state, for any
\* number of Day 0 executions and of runs beside them.
THEOREM LifeInductive == LifeSpec => []LifeInv
<1>1. LifeInit => LifeInv
    BY LifeTypeInit, HandoffInit, EarnedInit, QuietInit, OrderInit
    DEF LifeInv
<1> QED
    BY <1>1, LifeStep, PTL DEF LifeSpec

THEOREM LifeTypeCorrect == LifeSpec => []LifeTypeOK
<1>1. LifeInv => LifeTypeOK
    BY DEF LifeInv
<1> QED
    BY <1>1, LifeInductive, PTL

\* COMPLETE is earned by the run that the record names, whoever else writes
\* the record, and however late (models.py line 32).
THEOREM CompleteEarned == LifeSpec => []CompleteIsEarned
<1>1. LifeInv => CompleteIsEarned
    BY DEF LifeInv, EarnedInv, Sound, CompleteIsEarned, Rec
<1> QED
    BY <1>1, LifeInductive, PTL

\* When everything has closed with a report, the record is final.
THEOREM QuietIsFinal == LifeSpec => []QuietRecordIsFinal
<1>1. LifeInv => QuietRecordIsFinal
    <2> SUFFICES ASSUME LifeInv, ~Open0, \A r \in Runs : ~Open(r),
                        result0 # "error", \A r \in Runs : result[r] # "error",
                        wroteLate0 = {}, straggled = {}
                 PROVE  Rec.status \in {"QUEUED", "COMPLETE", "FAILED"}
        BY DEF QuietRecordIsFinal, Rec
    <2> USE DEF LifeInv, QuietInv, LifeTypeOK
    <2>1. CASE Rec.by = {}
        BY <2>1
    <2>2. ASSUME NEW r \in Runs, Rec.by = {r}
          PROVE  Rec.status \in {"COMPLETE", "FAILED"}
        <3>1. pc[r] = "done"
            BY <2>2 DEF WrittenByRun, Open
        <3>2. result[r] \in {"success", "failure"}
            BY <3>1 DEF ClosedInv, RunTypes
        <3> QED
            BY <2>2, <3>2 DEF WrittenByRun
    <2>3. ASSUME NEW n \in 1..MaxStarts, Rec.by = {n}
          PROVE  Rec.status = "FAILED"
        <3>1. loc0 = "done"
            BY <2>3, LifecycleAssumption
            DEF WrittenByExecution, HandoffInv, Open0, DayZero!Open
        <3>2. result0 \in {"success", "failure"}
            BY <3>1 DEF ClosedInv, ExecutionTypes
        <3> QED
            BY <2>3, <3>1, <3>2 DEF WrittenByExecution
    <2> QED
        BY <2>1, <2>2, <2>3
<1> QED
    BY <1>1, LifeInductive, PTL

LEMMA ForwardDayOne ==
    ASSUME LifeInv, DayOneStep, NEW n \in 1..MaxStarts,
           Rec.by = {n} \/ Rec.by = {ChildOf[n]},
           Rec'.by = {n} \/ Rec'.by = {ChildOf[n]},
           stragglers \subseteq stragglers'
    PROVE  LifeStage(Rec.status) <= LifeStage(Rec'.status)
<1>1. [Next]_vars /\ DOMAIN nbStatus = Devices
    BY DayOneKeeps DEF LifeInv, LifeTypeOK
<1>2. \A l : Reach(l) \in 0..6
    BY ReachType
<1>3. CASE Rec' = Rec
    BY <1>3, LifeStageType
<1>4. ASSUME NEW r \in Runs, pc[r] \in WriteLocs,
             Rec' = [status |-> StatusAt[pc[r]], by |-> {r}]
      PROVE  LifeStage(Rec.status) <= LifeStage(Rec'.status)
    <2>1. r = ChildOf[n]
        BY <1>4, LifecycleAssumption
    <2>2. n = starts /\ loc0 = "day1"
        BY <1>4, <2>1, WriteLocsAre DEF LifeInv, HandoffInv, Open
    <2>3. LifeStage(Rec'.status) = 5 + Reach(pc[r]) /\ 1 <= Reach(pc[r])
        BY <1>4, LifeStagesAre, WriteLocsAre DEF Reach
    <2>4. CASE Rec.by = {n}
        <3>1. LifeStage(Rec.status) <= 5
            BY <2>2, <2>4 DEF LifeInv, OrderInv, ExecutionReach
        <3> QED
            BY <1>2, <2>3, <3>1, LifeStageType
    <2>5. CASE Rec.by = {ChildOf[n]}
        <3>1. LifeStage(Rec.status) <= 5 + Reach(pc[r])
            BY <2>1, <2>5 DEF LifeInv, OrderInv
        <3> QED
            BY <2>3, <3>1
    <2> QED
        BY <2>4, <2>5
<1> QED
    BY <1>1, <1>3, <1>4, WriterIs, LifecycleAssumption DEF Rec

LEMMA ForwardDayZero ==
    ASSUME LifeInv, DayZeroStep, NEW n \in 1..MaxStarts,
           Rec.by = {n} \/ Rec.by = {ChildOf[n]},
           Rec'.by = {n} \/ Rec'.by = {ChildOf[n]},
           late0 \subseteq late0'
    PROVE  LifeStage(Rec.status) <= LifeStage(Rec'.status)
<1>1. CASE UNCHANGED nbStatus
    BY <1>1, LifeStageType DEF Rec
<1>2. CASE loc0 \in DayZero!WriteLocs /\ DayZeroPatch(loc0, starts)
    <2>1. loc0 \notin {"idle", "day1", "done"} /\ starts \in 1..MaxStarts
        BY <1>2, ExecutionWritesAre, LifecycleAssumption
        DEF LifeInv, HandoffInv, LifeTypeOK, ExecutionTypes
    <2>2. Rec' = [status |-> DayZero!StatusAt[loc0], by |-> {starts}]
        BY <1>2, LifecycleAssumption
        DEF LifeInv, DayZeroPatch, Rec, LifeTypeOK
    <2>3. n = starts
        BY <2>1, <2>2, LifecycleAssumption
    <2>4. LifeStage(Rec'.status) = ExecutionReach(loc0)
        BY <1>2, <2>2, LifeStagesAre
    <2>5. CASE Rec.by = {n}
        BY <2>3, <2>4, <2>5 DEF LifeInv, OrderInv
    <2>6. CASE Rec.by = {ChildOf[n]}
        <3>1. ChildOf[n] \in Runs
            BY LifecycleAssumption
        <3>2. pc[ChildOf[n]] # "idle"
            BY <2>6, <3>1 DEF LifeInv, HandoffInv, QuietInv, WrittenByRun
        <3>3. loc0 = "write_failed"
            BY <2>1, <2>3, <3>2 DEF LifeInv, HandoffInv
        <3>4. LifeStage(Rec'.status) = 11
            BY <2>4, <3>3 DEF ExecutionReach
        <3> QED
            BY <3>4, LifeStageType
    <2> QED
        BY <2>5, <2>6
<1>3. ASSUME NEW a \in late0, LateZeroEffect(a) PROVE FALSE
    BY <1>3 DEF LateZeroEffect, DayZero!LateEffect
<1> QED
    BY <1>1, <1>2, <1>3
    DEF DayZeroStep, DayZeroWrites, DayZeroActs, HandoffEnds, DayZeroStarts,
        WorkersGo, nautobot, vars

\* Over both phases the stage in the record only moves forward while one
\* execution of Day 0 and its child write it, late writes aside (models.py
\* lines 22 to 38).
THEOREM LifeMovesForward == LifeSpec => LifecycleMovesForward
<1>1. LifeInv /\ [LifeNext]_lifeVars =>
        [LET old == nbStatus[Device] new == nbStatus'[Device] IN
         /\ \E n \in 1..MaxStarts :
               {old.by, new.by} \subseteq {{n}, {ChildOf[n]}}
         /\ late0 \subseteq late0' /\ stragglers \subseteq stragglers'
         => LifeStage(old.status) <= LifeStage(new.status)]_lifeVars
    <2> SUFFICES ASSUME LifeInv, LifeNext,
                        NEW n \in 1..MaxStarts,
                        {Rec.by, Rec'.by} \subseteq {{n}, {ChildOf[n]}},
                        late0 \subseteq late0', stragglers \subseteq stragglers'
                 PROVE  LifeStage(Rec.status) <= LifeStage(Rec'.status)
        BY DEF Rec
    <2> QED
        BY ForwardDayOne, ForwardDayZero, StepsAre
<1> QED
    BY <1>1, LifeInductive, PTL DEF LifeSpec, LifecycleMovesForward

-----------------------------------------------------------------------------
(* With its children, Day 0 behaves as Bootstrap says.                     *)

LEMMA SeenInit == LifeInit => Seen!Init
<1> SUFFICES ASSUME LifeInit PROVE Seen!Init
    OBVIOUS
<1>1. nbIntent[Device] \in Intents
    BY LifecycleAssumption DEF LifeInit, Init
<1>2. nbStatus[Device] = [status |-> "QUEUED", by |-> {}]
    BY LifecycleAssumption DEF LifeInit, Init
<1>3. Says("QUEUED") = "QUEUED"
    BY DEF Says, Stage
<1>4. Record = [says |-> "QUEUED", by |-> 0, child |-> FALSE]
    <2> DEFINE rec == [status |-> "QUEUED", by |-> {}]
    <2>1. /\ rec.status = "QUEUED"
          /\ \A n \in 1..MaxStarts : rec.by # {n} /\ rec.by # {ChildOf[n]}
        OBVIOUS
    <2> HIDE DEF rec
    <2>2. Shown(rec) = [says |-> Says(rec.status), by |-> 0, child |-> FALSE]
        BY <2>1, ShownOfOthers
    <2>3. Record = Shown(rec)
        BY <1>2 DEF Record, rec
    <2> QED
        BY <1>3, <2>1, <2>2, <2>3
<1>5. SeenLoc = "idle" /\ SeenResult = "none" /\ SeenLate = {}
    BY DEF LifeInit, SeenLoc, SeenResult, SeenLate, Answered
<1> QED
    BY <1>1, <1>4, <1>5 DEF LifeInit, Seen!Init

\* An execution that is not at its child is seen where it is.
LEMMA SeenElsewhere ==
    ASSUME loc0 # "day1" \/ pc[Child] # "done"
    PROVE  SeenLoc = loc0 /\ SeenResult = result0
BY DEF SeenLoc, SeenResult, Answered

\* While Day 0 stands and its child neither closes nor reopens, it is seen at
\* the same place.
LEMMA SeenStands ==
    ASSUME UNCHANGED <<loc0, starts, result0>>,
           loc0 = "day1" =>
              /\ pc'[Child] = "done" <=> pc[Child] = "done"
              /\ pc[Child] = "done" => result'[Child] = result[Child]
    PROVE  UNCHANGED <<SeenLoc, SeenResult>>
<1>1. Child' = Child
    BY DEF Child
<1>2. CASE loc0 = "day1" /\ pc[Child] = "done"
    BY <1>1, <1>2 DEF SeenLoc, SeenResult, Answered
<1>3. CASE ~(loc0 = "day1" /\ pc[Child] = "done")
    BY <1>1, <1>3 DEF SeenLoc, SeenResult, Answered
<1> QED
    BY <1>2, <1>3

LEMMA SeenLateStands ==
    ASSUME UNCHANGED <<children, wroteLate0, straggled>>
    PROVE  UNCHANGED SeenLate
BY DEF SeenLate

LEMMA SeenAnswers ==
    ASSUME LifeInv, HandoffEnds
    PROVE  UNCHANGED Seen!vars
<1> USE DEF HandoffEnds, ChildAnswers, vars, nautobot, history
<1>1. UNCHANGED SeenLate
    BY SeenLateStands
<1>2. Record' = Record
    BY DEF Record
<1>3. attempt0 = 1 /\ probing = FALSE
    BY DEF LifeInv, WaitInv
<1>4. CASE result[Child] = "failure"
    <2>1. DayZero!Goto("write_failed") /\ result0' = result0
        BY <1>4
    <2>2. loc0' = "write_failed" /\ attempt0' = 1 /\ probing' = FALSE
        BY <2>1 DEF DayZero!Goto
    <2>3. SeenLoc = "write_failed" /\ SeenResult = result0
        BY <1>4 DEF SeenLoc, SeenResult, Answered
    <2>4. SeenLoc' = "write_failed" /\ SeenResult' = result0'
        BY <2>2 DEF SeenLoc, SeenResult, Answered
    <2> QED
        BY <1>1, <1>2, <1>3, <1>4, <2>1, <2>2, <2>3, <2>4
        DEF Seen!vars, Seen!outside, Seen!traces
<1>5. CASE result[Child] # "failure"
    <2>1. DayZero!Goto("done") /\ result0' = result[Child]
        BY <1>5
    <2>2. loc0' = "done" /\ attempt0' = 1 /\ probing' = FALSE
        BY <2>1 DEF DayZero!Goto
    <2>3. SeenLoc = "done" /\ SeenResult = result[Child]
        BY <1>5 DEF SeenLoc, SeenResult, Answered
    <2>4. SeenLoc' = "done" /\ SeenResult' = result0'
        BY <2>2 DEF SeenLoc, SeenResult, Answered
    <2> QED
        BY <1>1, <1>2, <1>3, <1>5, <2>1, <2>2, <2>3, <2>4
        DEF Seen!vars, Seen!outside, Seen!traces
<1> QED
    BY <1>4, <1>5

\* What the child has not begun, or the execution does not hear of, is not
\* seen.
LEMMA SeenBefore ==
    ASSUME LifeInv, UNCHANGED <<pc, starts, straggled>>,
           loc0 \in DayZero!Activities,
           loc0 = "write_failed" => loc0' # "day1",
           \/ children' = children
           \/ loc0 # "write_failed" /\ children' = children \cup {starts}
    PROVE  /\ SeenLoc = loc0 /\ SeenResult = result0
           /\ SeenLoc' = loc0' /\ SeenResult' = result0'
           /\ wroteLate0' = wroteLate0 => SeenLate' = SeenLate
<1> USE DEF LifeInv, HandoffInv
<1>1. loc0 \notin {"idle", "day1", "done"}
    BY ExecutionActivitiesAre
<1>2. starts \in 1..MaxStarts /\ Child' = Child
    BY <1>1, LifecycleAssumption DEF LifeTypeOK, ExecutionTypes, Child
<1>3. loc0 # "write_failed" => pc[Child] = "idle"
    BY <1>1, <1>2 DEF Child
<1>4. SeenLoc = loc0 /\ SeenResult = result0
    BY <1>1, SeenElsewhere
<1>5. SeenLoc' = loc0' /\ SeenResult' = result0'
    BY <1>2, <1>3 DEF SeenLoc, SeenResult, Answered
<1>6. children' # children => Child \notin straggled
    BY <1>3
<1>7. ASSUME wroteLate0' = wroteLate0 PROVE SeenLate' = SeenLate
    BY <1>6, <1>7 DEF SeenLate, Child
<1> QED
    BY <1>4, <1>5, <1>7

\* A step of Day 0 at an await before the hand-off is seen as it is.
LEMMA SeenWrites ==
    ASSUME LifeInv, DayZeroWrites
    PROVE  Seen!Next
<1> USE DEF DayZero!outside, DayZero!traces, Seen!outside, Seen!traces
<1>1. DayZero!WriteCompletes /\ UNCHANGED <<dayOne, nbIntent>>
    BY DEF DayZeroWrites
<1>2. /\ loc0 \in DayZero!WriteLocs
      /\ loc0' = DayZero!After[loc0]
      /\ children' = IF loc0 = "write_bootstrapped" THEN children \cup {starts}
                                                   ELSE children
      /\ UNCHANGED <<starts, wroteLate0>>
    BY <1>1 DEF DayZero!WriteCompletes, DayZero!Goto
<1>3. /\ SeenLoc = loc0 /\ SeenResult = result0
      /\ SeenLoc' = loc0' /\ SeenResult' = result0'
      /\ SeenLate' = SeenLate
    BY <1>1, <1>2, ExecutionWritesAre, ExecutionActivitiesAre,
       ExecutionAfterIs, SeenBefore
    DEF dayOne, history
<1>4. Seen!WriteCompletes
    BY <1>1, <1>3
    DEF DayZero!WriteCompletes, Seen!WriteCompletes, DayZero!Goto, Seen!Goto,
        DayZero!Patch, Seen!Patch, DayZero!WriteLocs, Seen!WriteLocs,
        DayZero!StatusAt, Seen!StatusAt, DayZero!After, Seen!After
<1> QED
    BY <1>4 DEF Seen!Next, Seen!Run

LEMMA SeenActs ==
    ASSUME LifeInv, DayZeroActs
    PROVE  Seen!Next
<1> USE DEF DayZero!outside, DayZero!traces, Seen!outside, Seen!traces
<1>1. ASSUME DayZero!AttemptEnds, loc0 \in DayZero!Activities
      PROVE  loc0' # "day1"
    BY <1>1, ExecutionActivitiesAre DEF DayZero!AttemptEnds, DayZero!Goto
<1>2. /\ loc0 \in DayZero!Activities
      /\ loc0 = "write_failed" => loc0' # "day1"
      /\ UNCHANGED <<starts, children, wroteLate0>>
    <2> USE ExecutionActivitiesAre, ExecutionWritesAre
    <2>1. CASE \/ DayZero!FetchCompletes \/ DayZero!DhcpCompletes
               \/ DayZero!RenderCompletes \/ DayZero!PublishCompletes
               \/ DayZero!DeviceChecksIn
        BY <2>1
        DEF DayZero!FetchCompletes, DayZero!DhcpCompletes,
            DayZero!RenderCompletes, DayZero!PublishCompletes,
            DayZero!DeviceChecksIn
    <2>2. CASE DayZero!WaitTimesOut \/ DayZero!AttemptFails
        BY <1>1, <2>2 DEF DayZero!WaitTimesOut, DayZero!AttemptFails
    <2>3. CASE DayZero!PublishBreaksOff \/ DayZero!AttemptTimesOut
        BY <1>1, <2>3
        DEF DayZero!PublishBreaksOff, DayZero!AttemptTimesOut,
            DayZero!Effects
    <2> QED
        BY <2>1, <2>2, <2>3 DEF DayZeroActs
<1>3. /\ SeenLoc = loc0 /\ SeenResult = result0
      /\ SeenLoc' = loc0' /\ SeenResult' = result0'
      /\ SeenLate' = SeenLate
    BY <1>2, SeenBefore DEF DayZeroActs, dayOne, history
<1>4. ASSUME DayZero!AttemptEnds PROVE Seen!AttemptEnds
    BY <1>3, <1>4
    DEF DayZero!AttemptEnds, Seen!AttemptEnds, DayZero!Goto, Seen!Goto,
        DayZero!Limit, Seen!Limit, DayZero!WriteLocs, Seen!WriteLocs,
        DayZero!StatusAt, Seen!StatusAt
<1> USE DEF DayZero!Goto, Seen!Goto
<1>5. DayZero!After = Seen!After /\ DayZero!Effects = Seen!Effects
      /\ DayZero!Activities = Seen!Activities
    BY DEF DayZero!After, Seen!After, DayZero!Effects, Seen!Effects,
           DayZero!WriteLocs, Seen!WriteLocs, DayZero!StatusAt,
           Seen!StatusAt, DayZero!Activities, Seen!Activities
<1>6. CASE DayZero!FetchCompletes
    <2>1. Seen!FetchCompletes
        BY <1>3, <1>5, <1>6 DEF DayZero!FetchCompletes, Seen!FetchCompletes
    <2> QED
        BY <2>1 DEF Seen!Next, Seen!Run
<1>7. CASE DayZero!DhcpCompletes
    <2>1. Seen!DhcpCompletes
        BY <1>3, <1>5, <1>7
        DEF DayZero!DhcpCompletes, Seen!DhcpCompletes, DayZero!Reserve,
            Seen!Reserve
    <2> QED
        BY <2>1 DEF Seen!Next, Seen!Run
<1>8. CASE DayZero!RenderCompletes
    <2>1. Seen!RenderCompletes
        BY <1>3, <1>5, <1>8 DEF DayZero!RenderCompletes, Seen!RenderCompletes
    <2> QED
        BY <2>1 DEF Seen!Next, Seen!Run
<1>9. CASE DayZero!PublishCompletes
    <2>1. Seen!PublishCompletes
        BY <1>3, <1>5, <1>9
        DEF DayZero!PublishCompletes, Seen!PublishCompletes, DayZero!Publish,
            Seen!Publish
    <2> QED
        BY <2>1 DEF Seen!Next, Seen!Run
<1>10. CASE DayZero!DeviceChecksIn
    <2>1. Seen!DeviceChecksIn
        BY <1>3, <1>5, <1>10
        DEF DayZero!DeviceChecksIn, Seen!DeviceChecksIn
    <2> QED
        BY <2>1 DEF Seen!Next, Seen!Run
<1>11. CASE DayZero!WaitTimesOut
    <2>1. Seen!WaitTimesOut
        BY <1>3, <1>4, <1>11
        DEF DayZero!WaitTimesOut, Seen!WaitTimesOut, DayZero!RouterIsUp,
            Seen!RouterIsUp
    <2> QED
        BY <2>1 DEF Seen!Next, Seen!Run
<1>12. CASE DayZero!AttemptFails
    <2>1. Seen!AttemptFails
        BY <1>3, <1>4, <1>5, <1>12 DEF DayZero!AttemptFails, Seen!AttemptFails
    <2> QED
        BY <2>1 DEF Seen!Next, Seen!Run
<1>13. CASE DayZero!PublishBreaksOff
    <2>1. Seen!PublishBreaksOff
        BY <1>3, <1>4, <1>13
        DEF DayZero!PublishBreaksOff, Seen!PublishBreaksOff, DayZero!Publish,
            Seen!Publish
    <2> QED
        BY <2>1 DEF Seen!Next, Seen!Run
<1>14. CASE DayZero!AttemptTimesOut
    <2>1. Seen!AttemptTimesOut
        <3>1. Seen!AttemptEnds
            BY <1>4, <1>14 DEF DayZero!AttemptTimesOut
        <3>2. loc0 \in DayZero!Effects
            BY <1>14 DEF DayZero!AttemptTimesOut
        <3>3. Seen!Cardinality(late0) < MaxStragglers
            <4>1. DayZero!Cardinality(late0) < MaxStragglers
                BY <1>14 DEF DayZero!AttemptTimesOut
            <4>2. DayZero!Cardinality(late0) = Seen!Cardinality(late0)
                BY DEF DayZero!Cardinality, Seen!Cardinality
            <4> QED
                BY <4>1, <4>2
        <3>4. late0' = late0 \cup {[at |-> loc0, by |-> starts,
                                   mac |-> hasMac, version |-> intent0]}
            BY <1>14 DEF DayZero!AttemptTimesOut
        <3>5. UNCHANGED <<starts, hasMac, intent0, DayZero!outside, children,
                          wroteLate0, servedLate>>
            BY <1>14 DEF DayZero!AttemptTimesOut
        <3>6. SeenLoc \in Seen!Effects
            BY <1>3, <1>5, <3>2
        <3>7. late0' = late0 \cup {[at |-> SeenLoc, by |-> starts,
                                   mac |-> hasMac, version |-> intent0]}
            BY <1>3, <3>4
        <3>8. UNCHANGED <<starts, hasMac, intent0, Seen!outside, children,
                          SeenLate, servedLate>>
            BY <1>3, <3>5
        <3> QED
            BY <3>1, <3>3, <3>6, <3>7, <3>8 DEF Seen!AttemptTimesOut
    <2> QED
        BY <2>1 DEF Seen!Next, Seen!Run
<1> QED
    BY <1>6, <1>7, <1>8, <1>9, <1>10, <1>11, <1>12, <1>13, <1>14
    DEF DayZeroActs

LEMMA SeenStarts ==
    ASSUME LifeInv, NEW mac \in BOOLEAN, DayZeroStarts(mac)
    PROVE  Seen!Next
<1> USE DEF DayZero!outside, DayZero!traces, Seen!outside, Seen!traces
<1>1. DayZero!Start(mac) /\ UNCHANGED dayOne
    BY DEF DayZeroStarts
<1>2. /\ loc0 \in {"idle", "done"} /\ loc0' = "write_started"
      /\ UNCHANGED <<children, wroteLate0, straggled>>
    BY <1>1 DEF DayZero!Start, DayZero!Open, DayZero!Goto, dayOne, history
<1>3. /\ SeenLoc = loc0 /\ SeenResult = result0
      /\ SeenLoc' = loc0' /\ SeenResult' = result0'
      /\ SeenLate' = SeenLate
    BY <1>2 DEF SeenLoc, SeenResult, Answered, SeenLate
<1>4. Seen!Start(mac)
    BY <1>1, <1>3
    DEF DayZero!Start, Seen!Start, DayZero!Open, Seen!Open, DayZero!Goto,
        Seen!Goto
<1> QED
    BY <1>4 DEF Seen!Next

LEMMA SeenLands ==
    ASSUME LifeInv, NEW a \in late0, LateZeroEffect(a)
    PROVE  Seen!Next
<1> USE DEF DayZero!outside, DayZero!traces, Seen!outside, Seen!traces
<1>1. DayZero!LateEffect(a) /\ UNCHANGED dayOne
    BY DEF LateZeroEffect
<1>2. UNCHANGED <<loc0, starts, result0, children>>
    BY <1>1 DEF DayZero!LateEffect
<1>3. UNCHANGED <<SeenLoc, SeenResult>>
    BY <1>1, <1>2, SeenStands DEF dayOne, Child
<1>4. /\ wroteLate0' = wroteLate0 => SeenLate' = SeenLate
      /\ wroteLate0' = wroteLate0 \cup {a.by}
           => SeenLate' = SeenLate \cup {a.by}
    BY <1>1, <1>2 DEF SeenLate, dayOne, history
<1>5. DayZero!WriteLocs = Seen!WriteLocs
    BY DEF DayZero!WriteLocs, Seen!WriteLocs, DayZero!StatusAt, Seen!StatusAt
<1>6. Seen!LateEffect(a)
    BY <1>1, <1>3, <1>4, <1>5
    DEF DayZero!LateEffect, Seen!LateEffect, DayZero!Patch, Seen!Patch,
        DayZero!Reserve, Seen!Reserve, DayZero!Publish, Seen!Publish,
        DayZero!StatusAt, Seen!StatusAt
<1> QED
    BY <1>6 DEF Seen!Next

LEMMA SeenWorkers ==
    ASSUME LifeInv, WorkersGo
    PROVE  Seen!Next
<1> USE DEF DayZero!outside, DayZero!traces, Seen!outside, Seen!traces
<1>1. UNCHANGED dayOne
    BY DEF WorkersGo
<1>2. /\ loc0 = "wait" /\ loc0' # "day1"
      /\ UNCHANGED <<starts, children, wroteLate0>>
    BY DEF WorkersGo, DayZero!WorkerRestarts, DayZero!WorkerStops,
           DayZero!AttemptEnds, DayZero!Goto
<1>3. /\ SeenLoc = loc0 /\ SeenResult = result0
      /\ SeenLoc' = loc0' /\ SeenResult' = result0'
      /\ SeenLate' = SeenLate
    BY <1>1, <1>2, ExecutionActivitiesAre, SeenBefore DEF dayOne, history
<1>4. CASE DayZero!WorkerRestarts
    <2>1. Seen!WorkerRestarts
        BY <1>3, <1>4 DEF DayZero!WorkerRestarts, Seen!WorkerRestarts
    <2> QED
        BY <2>1 DEF Seen!Next
<1>5. CASE DayZero!WorkerStops
    <2>1. Seen!AttemptEnds
        BY <1>3, <1>5
        DEF DayZero!WorkerStops, DayZero!AttemptEnds, Seen!AttemptEnds,
            DayZero!Goto, Seen!Goto, DayZero!Limit, Seen!Limit,
            DayZero!WriteLocs, Seen!WriteLocs, DayZero!StatusAt,
            Seen!StatusAt
    <2>2. Seen!WorkerStops
        BY <1>3, <1>5, <2>1 DEF DayZero!WorkerStops, Seen!WorkerStops
    <2> QED
        BY <2>2 DEF Seen!Next
<1> QED
    BY <1>4, <1>5 DEF WorkersGo

LEMMA SeenRouter ==
    ASSUME LifeInv, UNCHANGED <<pc, result, straggled>>,
           DayZero!RouterBoots \/ DayZero!RouterWiped
    PROVE  Seen!Next
<1> USE DEF DayZero!outside, DayZero!traces, Seen!outside, Seen!traces
<1>1. UNCHANGED <<loc0, starts, result0, children, wroteLate0>>
    BY DEF DayZero!RouterBoots, DayZero!RouterWiped
<1>2. UNCHANGED <<SeenLoc, SeenResult, SeenLate>>
    BY <1>1, SeenStands, SeenLateStands DEF Child
<1>3. Seen!RouterBoots \/ Seen!RouterWiped
    BY <1>2
    DEF DayZero!RouterBoots, DayZero!RouterWiped, Seen!RouterBoots,
        Seen!RouterWiped
<1> QED
    BY <1>3 DEF Seen!Next

-----------------------------------------------------------------------------
(* The steps of Day 1 as Day 0 sees them.                                  *)

LEMMA SaysOf ==
    ASSUME NEW l \in WriteLocs
    PROVE  Says(StatusAt[l]) = IF l = "write_complete" THEN "COMPLETE"
                               ELSE IF l = "write_failed" THEN "FAILED"
                               ELSE "PROVISIONING"
BY WriteLocsAre DEF Says, Stage, StatusAt

\* What Day 0 sees of the record after a write of a run.
LEMMA RunRecordIs ==
    ASSUME LifeTypeOK, NEW r \in Runs, NEW l \in WriteLocs, Patch(r, l)
    PROVE  /\ r \notin ChildRuns =>
                  Record' = [says |-> Says(StatusAt[l]), by |-> 0,
                             child |-> FALSE]
           /\ \A n \in 1..MaxStarts : r = ChildOf[n] =>
                  Record' = [says |-> Says(StatusAt[l]), by |-> n,
                             child |-> TRUE]
<1>1. DeviceOf[r] = Device
    BY LifecycleAssumption, ConstantsAssumption
<1>2. /\ nbStatus'[Device].status = StatusAt[l]
      /\ nbStatus'[Device].by = {r}
    BY <1>1, LifecycleAssumption DEF Patch, LifeTypeOK
<1>3. Record' = Shown(nbStatus'[Device])
    BY DEF Record
<1>4. CASE r \notin ChildRuns
    <2>1. \A n \in 1..MaxStarts : r # n /\ r # ChildOf[n]
        BY <1>4, LifecycleAssumption DEF ChildRuns
    <2>2. \A n \in 1..MaxStarts : /\ nbStatus'[Device].by # {n}
                                  /\ nbStatus'[Device].by # {ChildOf[n]}
        BY <1>2, <2>1
    <2> QED
        BY <1>2, <1>3, <1>4, <2>2, ShownOfOthers DEF ChildRuns
<1>5. ASSUME NEW n \in 1..MaxStarts, r = ChildOf[n]
      PROVE  Record' = [says |-> Says(StatusAt[l]), by |-> n, child |-> TRUE]
    BY <1>2, <1>3, <1>5, ShownOfChild
<1> QED
    BY <1>4, <1>5 DEF ChildRuns

LEMMA ChildIs ==
    ASSUME LifeInv, loc0 = "day1"
    PROVE  starts \in 1..MaxStarts /\ Child \in Runs /\ Child \in ChildRuns
<1>1. starts \in 1..MaxStarts
    BY LifecycleAssumption
    DEF LifeInv, HandoffInv, LifeTypeOK, ExecutionTypes
<1> QED
    BY <1>1, LifecycleAssumption DEF Child, ChildRuns

\* An open child is the one that Day 0 waits for.
LEMMA OpenChildIs ==
    ASSUME LifeInv, NEW r \in ChildRuns, Open(r)
    PROVE  /\ r = Child /\ starts \in 1..MaxStarts
           /\ loc0 = "day1" /\ attempt0 = 1 /\ probing = FALSE
BY DEF LifeInv, HandoffInv, WaitInv, ChildRuns, Child

\* While no run closes, Day 0 is seen where it was.
LEMMA SeenKeeps ==
    ASSUME LifeInv, UNCHANGED dayZero,
           \A q \in Runs : /\ pc'[q] = "done" <=> pc[q] = "done"
                           /\ pc[q] = "done" => result'[q] = result[q]
    PROVE  UNCHANGED <<SeenLoc, SeenResult>>
<1>1. loc0 = "day1" => Child \in Runs
    BY ChildIs
<1> QED
    BY <1>1, SeenStands DEF dayZero

\* What the end of a run is seen as.
LEMMA SeenCloses ==
    ASSUME LifeInv, NEW r \in Runs, Open(r), UNCHANGED dayZero,
           pc' = [pc EXCEPT ![r] = "done"],
           \A q \in Runs \ {r} : result'[q] = result[q]
    PROVE  /\ r \notin ChildRuns => UNCHANGED <<SeenLoc, SeenResult>>
           /\ r \in ChildRuns =>
                 /\ SeenLoc = "day1" /\ SeenResult = result0
                 /\ SeenLoc' = IF result'[r] = "failure" THEN "write_failed"
                               ELSE "done"
                 /\ SeenResult' = IF result'[r] = "failure" THEN result0
                                  ELSE result'[r]
<1>1. pc \in [Runs -> Locs]
    BY DEF LifeInv, LifeTypeOK, RunTypes
<1>2. Child' = Child /\ loc0' = loc0 /\ result0' = result0
    BY DEF dayZero, Child
<1>3. CASE r \notin ChildRuns
    <2>1. loc0 = "day1" => Child \in Runs \ {r}
        BY <1>3, ChildIs
    <2> QED
        BY <1>1, <1>2, <1>3, <2>1 DEF SeenLoc, SeenResult, Answered
<1>4. CASE r \in ChildRuns
    <2>1. r = Child /\ loc0 = "day1" /\ pc[r] # "done" /\ pc'[r] = "done"
        BY <1>1, <1>4, OpenChildIs DEF Open
    <2> QED
        BY <1>2, <1>4, <2>1 DEF SeenLoc, SeenResult, Answered
<1> QED
    BY <1>3, <1>4

\* What Day 1 leaves alone of what Day 0 sees.
SeenFrame == <<attempt0, starts, hasMac, intent0, reserved, published,
               probing, children, late0, servedLate>>

\* A run writes the record.
LEMMA SeenRunWrites ==
    ASSUME LifeInv, NEW r \in Runs, WriteCompletes(r), UNCHANGED dayZero,
           AtRouter
    PROVE  Seen!Next
<1> USE DEF Seen!outside, Seen!traces
<1> DEFINE l == pc[r]
<1>1. LifeTypeOK /\ RunTypes
    BY DEF LifeInv, LifeTypeOK
<1>2. /\ l \in WriteLocs /\ Patch(r, l)
      /\ pc' = [pc EXCEPT ![r] = AfterWrite[l]]
      /\ result' = [result EXCEPT ![r] = ReturnedAt(l)]
      /\ UNCHANGED <<nbIntent, straggled>>
      /\ device' = device
    BY DEF WriteCompletes, Goto, history
<1>3. /\ UNCHANGED SeenFrame /\ UNCHANGED router
      /\ nbIntent'[Device] = nbIntent[Device]
      /\ UNCHANGED SeenLate
    <2>1. router' = router
        BY <1>2 DEF AtRouter
    <2> QED
        BY <1>2, <2>1 DEF SeenFrame, dayZero, SeenLate
<1>4. l \notin {"idle", "done"} /\ Open(r)
    BY <1>2, WriteLocsAre DEF Open
<1>5. AfterWrite[l] = "done" <=> l \in {"write_complete", "write_failed"}
    BY <1>2, WriteLocsAre DEF AfterWrite
<1>6. Says(StatusAt[l]) \in {"PROVISIONING", "COMPLETE", "FAILED"}
    BY <1>2, SaysOf
<1>7. CASE r \notin ChildRuns
    <2>1. Record' = [says |-> Says(StatusAt[l]), by |-> 0, child |-> FALSE]
        BY <1>1, <1>2, <1>7, RunRecordIs
    <2>2. UNCHANGED <<SeenLoc, SeenResult>>
        <3>1. CASE AfterWrite[l] = "done"
            BY <1>1, <1>2, <1>4, <1>7, <3>1, SeenCloses DEF RunTypes
        <3>2. CASE AfterWrite[l] # "done"
            BY <1>1, <1>2, <1>4, <3>2, SeenKeeps DEF RunTypes
        <3> QED
            BY <3>1, <3>2
    <2>3. Seen!OtherRunWrites
        BY <1>3, <1>6, <2>1, <2>2
        DEF Seen!OtherRunWrites, Seen!DayOneStatuses, SeenFrame
    <2> QED
        BY <2>3 DEF Seen!Next
<1>8. CASE r \in ChildRuns
    <2>1. /\ r = ChildOf[starts] /\ starts \in 1..MaxStarts
          /\ loc0 = "day1" /\ attempt0 = 1 /\ probing = FALSE
        BY <1>4, <1>8, OpenChildIs DEF Child
    <2>2. Record' = [says |-> Says(StatusAt[l]), by |-> starts,
                     child |-> TRUE]
        BY <1>1, <1>2, <2>1, RunRecordIs
    <2>3. SeenLoc = "day1"
        BY <1>4, <2>1, SeenElsewhere DEF Child
    <2>4. CASE l \notin {"write_complete", "write_failed"}
        <3>1. UNCHANGED <<SeenLoc, SeenResult>>
            BY <1>1, <1>2, <1>4, <1>5, <2>4, SeenKeeps DEF RunTypes
        <3>2. Says(StatusAt[l]) = "PROVISIONING"
            BY <1>2, <2>4, SaysOf
        <3>3. Seen!DayOneProceeds
            BY <1>3, <2>2, <2>3, <3>1, <3>2
            DEF Seen!DayOneProceeds, Seen!DayOneWrites, SeenFrame
        <3> QED
            BY <3>3 DEF Seen!Next
    <2>5. CASE l \in {"write_complete", "write_failed"}
        <3>1. pc' = [pc EXCEPT ![r] = "done"]
            BY <1>2, <1>5, <2>5
        <3>2. result'[r] = ReturnedAt(l)
              /\ \A q \in Runs \ {r} : result'[q] = result[q]
            BY <1>1, <1>2 DEF RunTypes
        <3>3. /\ SeenResult = result0
              /\ SeenLoc' = IF result'[r] = "failure" THEN "write_failed"
                            ELSE "done"
              /\ SeenResult' = IF result'[r] = "failure" THEN result0
                               ELSE result'[r]
            BY <1>4, <1>8, <3>1, <3>2, SeenCloses
        <3>4. attempt0' = 1 /\ probing' = FALSE
            BY <1>3, <2>1 DEF SeenFrame
        <3>5. CASE l = "write_complete"
            <4>1. Says(StatusAt[l]) = "COMPLETE" /\ ReturnedAt(l) = "success"
                BY <1>2, <3>5, SaysOf DEF ReturnedAt
            <4>2. SeenLoc' = "done" /\ SeenResult' = "success"
                BY <3>2, <3>3, <4>1
            <4>3. Seen!Goto("done")
                BY <3>4, <4>2 DEF Seen!Goto
            <4>4. Seen!DayOneReports(TRUE)
                BY <1>3, <2>2, <2>3, <4>1, <4>2, <4>3
                DEF Seen!DayOneReports, Seen!DayOneWrites, SeenFrame
            <4> QED
                BY <4>4 DEF Seen!Next, Seen!Run
        <3>6. CASE l = "write_failed"
            <4>1. Says(StatusAt[l]) = "FAILED" /\ ReturnedAt(l) = "failure"
                BY <1>2, <3>6, SaysOf DEF ReturnedAt
            <4>2. SeenLoc' = "write_failed" /\ SeenResult' = SeenResult
                BY <3>2, <3>3, <4>1
            <4>3. Seen!Goto("write_failed")
                BY <3>4, <4>2 DEF Seen!Goto
            <4>4. Seen!DayOneReports(FALSE)
                BY <1>3, <2>2, <2>3, <4>1, <4>2, <4>3
                DEF Seen!DayOneReports, Seen!DayOneWrites, SeenFrame
            <4> QED
                BY <4>4 DEF Seen!Next, Seen!Run
        <3> QED
            BY <2>5, <3>5, <3>6
    <2> QED
        BY <2>4, <2>5
<1> QED
    BY <1>7, <1>8

\* An execution of a run fails: for the child, Day 0 fails with it.
LEMMA SeenRunEnds ==
    ASSUME LifeInv, NEW r \in Runs, Open(r), UNCHANGED dayZero,
           UNCHANGED <<nautobot, router, straggled>>,
           pc' = [pc EXCEPT ![r] = "done"],
           result' = [result EXCEPT ![r] = "error"]
    PROVE  [Seen!Next]_(Seen!vars)
<1> USE DEF Seen!outside, Seen!traces
<1>1. /\ UNCHANGED SeenFrame /\ UNCHANGED SeenLate
      /\ UNCHANGED <<nbIntent[Device], Record, router>>
    BY DEF SeenFrame, dayZero, SeenLate, nautobot, Record
<1>2. /\ result'[r] = "error"
      /\ \A q \in Runs \ {r} : result'[q] = result[q]
    BY DEF LifeInv, LifeTypeOK, RunTypes
<1>3. CASE r \notin ChildRuns
    <2>1. UNCHANGED <<SeenLoc, SeenResult>>
        BY <1>2, <1>3, SeenCloses
    <2> QED
        BY <1>1, <2>1 DEF Seen!vars, SeenFrame
<1>4. CASE r \in ChildRuns
    <2>1. SeenLoc = "day1" /\ SeenLoc' = "done" /\ SeenResult' = "error"
        BY <1>2, <1>4, SeenCloses
    <2>2. attempt0' = 1 /\ probing' = FALSE
        BY <1>1, <1>4, OpenChildIs DEF SeenFrame
    <2>3. Seen!Goto("done")
        BY <2>1, <2>2 DEF Seen!Goto
    <2>4. Seen!DayOneFails
        BY <1>1, <2>1, <2>3 DEF Seen!DayOneFails, SeenFrame
    <2> QED
        BY <2>4 DEF Seen!Next, Seen!Run
<1> QED
    BY <1>3, <1>4

\* Whoever configures the router, it is one that is up.
LEMMA SeenRouterGoes ==
    ASSUME LifeInv, UNCHANGED dayZero, UNCHANGED <<nautobot, straggled>>,
           UNCHANGED <<SeenLoc, SeenResult>>, AtRouter \/ UNCHANGED router
    PROVE  [Seen!Next]_(Seen!vars)
<1> USE DEF Seen!outside, Seen!traces
<1>1. /\ UNCHANGED SeenFrame /\ UNCHANGED SeenLate
      /\ UNCHANGED <<nbIntent[Device], Record>>
    BY DEF SeenFrame, dayZero, SeenLate, nautobot, Record
<1>2. CASE router' = router
    BY <1>1, <1>2 DEF Seen!vars, SeenFrame
<1>3. CASE router' # router
    <2>1. router # NoIntent /\ router' \in Intents
        BY <1>3 DEF AtRouter
    <2>2. Seen!DayOneConfigures(router')
        BY <1>1, <2>1 DEF Seen!DayOneConfigures, SeenFrame
    <2> QED
        BY <2>1, <2>2 DEF Seen!Next
<1> QED
    BY <1>2, <1>3

\* A step of a run that neither writes the record nor ends the run.
LEMMA SeenRunGoes ==
    ASSUME LifeInv, NEW r \in Runs, pc[r] # "done", UNCHANGED dayZero,
           UNCHANGED <<nautobot, straggled, result>>,
           pc' = pc \/ \E l \in Locs \ {"done"} : pc' = [pc EXCEPT ![r] = l],
           AtRouter \/ UNCHANGED router
    PROVE  [Seen!Next]_(Seen!vars)
<1>1. \A q \in Runs : pc'[q] = "done" <=> pc[q] = "done"
    BY DEF LifeInv, LifeTypeOK, RunTypes
<1>2. UNCHANGED <<SeenLoc, SeenResult>>
    BY <1>1, SeenKeeps
<1> QED
    BY <1>2, SeenRouterGoes

\* The attempt of a run ends.
LEMMA SeenRunRetries ==
    ASSUME LifeInv, NEW r \in Runs, AttemptEnds(r), pc[r] \in Activities,
           UNCHANGED dayZero, UNCHANGED <<nautobot, straggled, device>>,
           AtRouter
    PROVE  [Seen!Next]_(Seen!vars)
<1>1. pc[r] \notin {"idle", "done"} /\ Open(r)
    BY WriteLocsAre DEF Activities, Open
<1>2. UNCHANGED router
    BY DEF AtRouter
<1>3. CASE attempt[r] < Limit(pc[r])
    BY <1>1, <1>2, <1>3, SeenRunGoes DEF AttemptEnds
<1>4. CASE ~(attempt[r] < Limit(pc[r])) /\ pc[r] = "write_failed"
    BY <1>1, <1>2, <1>4, SeenRunEnds DEF AttemptEnds, Goto
<1>5. CASE ~(attempt[r] < Limit(pc[r])) /\ pc[r] # "write_failed"
    <2>1. pc' = [pc EXCEPT ![r] = "write_failed"] /\ UNCHANGED result
        BY <1>5 DEF AttemptEnds, Goto
    <2>2. "write_failed" \in Locs \ {"done"}
        BY WriteLocsAre DEF Locs, Activities
    <2> QED
        BY <1>1, <1>2, <2>1, <2>2, SeenRunGoes
<1> QED
    BY <1>3, <1>4, <1>5

LEMMA SeenRunAdvances ==
    ASSUME LifeInv, NEW r \in Runs, DayOneAdvances(r)
    PROVE  [Seen!Next]_(Seen!vars)
<1> USE DEF local, nautobot, history
<1>1. Advance(r) /\ AtRouter /\ UNCHANGED dayZero
    BY DEF DayOneAdvances
<1>2. /\ {"render", "write_rendered", "write_pushed", "write_failed",
          "write_passed", "write_awaiting", "write_complete"}
             \subseteq Locs \ {"done"}
    BY WriteLocsAre DEF Locs, Activities
<1>3. CASE WriteCompletes(r)
    BY <1>1, <1>3, SeenRunWrites
<1>4. CASE \/ FetchCompletes(r) \/ RenderCompletes(r) \/ PushSucceeds(r)
           \/ PushReportsFailure(r) \/ ValidationPasses(r)
           \/ ValidationFindsDrift(r) \/ ParkedRunResumes(r)
    <2>1. /\ pc[r] # "done"
          /\ UNCHANGED <<nbIntent, nbStatus, straggled, result>>
          /\ \E l \in Locs \ {"done"} : pc' = [pc EXCEPT ![r] = l]
        BY <1>2, <1>4
        DEF FetchCompletes, RenderCompletes, PushSucceeds,
            PushReportsFailure, ValidationPasses, ValidationFindsDrift,
            ParkedRunResumes, Goto
    <2> QED
        BY <1>1, <2>1, SeenRunGoes
<1>5. CASE AttemptFails(r) \/ AttemptTimesOut(r)
    <2>1. AttemptEnds(r) /\ pc[r] \in Activities
        BY <1>5 DEF AttemptFails, AttemptTimesOut, Effects, Activities
    <2>2. UNCHANGED <<nbIntent, nbStatus, straggled, device>>
        BY <1>5 DEF AttemptFails, AttemptTimesOut
    <2> QED
        BY <1>1, <2>1, <2>2, SeenRunRetries
<1>6. CASE ParkedRunTimesOut(r)
    <2>1. /\ pc[r] = "parked" /\ Open(r)
          /\ UNCHANGED <<nbIntent, nbStatus, straggled, device>>
        BY <1>6 DEF ParkedRunTimesOut, Open
    <2>2. UNCHANGED router
        BY <1>1, <2>1 DEF AtRouter
    <2>3. CASE WaitReturnsBool
        <3>1. pc' = [pc EXCEPT ![r] = "write_failed"] /\ UNCHANGED result
            BY <1>6, <2>3 DEF ParkedRunTimesOut, Goto
        <3> QED
            BY <1>1, <1>2, <2>1, <3>1, SeenRunGoes
    <2>4. CASE ~WaitReturnsBool
        <3>1. /\ pc' = [pc EXCEPT ![r] = "done"]
              /\ result' = [result EXCEPT ![r] = "error"]
            BY <1>6, <2>4 DEF ParkedRunTimesOut, Goto
        <3> QED
            BY <1>1, <2>1, <2>2, <3>1, SeenRunEnds
    <2> QED
        BY <2>3, <2>4
<1> QED
    BY <1>1, <1>3, <1>4, <1>5, <1>6 DEF Advance

\* A timed-out attempt of a run takes effect after all.
LEMMA SeenRunLands ==
    ASSUME LifeInv, NEW s \in stragglers, StragglerLands(s), AtRouter,
           UNCHANGED dayZero
    PROVE  [Seen!Next]_(Seen!vars)
<1> USE DEF Seen!outside, Seen!traces
<1>1. LifeTypeOK /\ s.run \in Runs /\ pc[s.run] # "idle"
    BY StragglerType DEF LifeInv, LifeTypeOK, HandoffInv
<1>2. UNCHANGED <<pc, result, nbIntent>>
    BY DEF StragglerLands
<1>3. UNCHANGED <<SeenLoc, SeenResult>>
    BY <1>2, SeenStands DEF dayZero, Child
<1>4. CASE UNCHANGED <<nbStatus, straggled>>
    BY <1>2, <1>3, <1>4, SeenRouterGoes DEF nautobot
<1>5. CASE /\ s.at \in WriteLocs /\ Patch(s.run, s.at)
           /\ straggled' = straggled \cup {s.run}
           /\ device' = device
    <2>1. /\ UNCHANGED SeenFrame /\ UNCHANGED router
          /\ nbIntent'[Device] = nbIntent[Device]
        BY <1>2, <1>5 DEF SeenFrame, dayZero, AtRouter
    <2>2. Says(StatusAt[s.at]) \in {"PROVISIONING", "COMPLETE", "FAILED"}
        BY <1>5, SaysOf
    <2>3. CASE s.run \notin ChildRuns
        <3>1. Record' = [says |-> Says(StatusAt[s.at]), by |-> 0,
                         child |-> FALSE]
            BY <1>1, <1>5, <2>3, RunRecordIs
        <3>2. \A n \in children : ChildOf[n] # s.run
            BY <2>3 DEF ChildRuns, LifeInv, LifeTypeOK, ExecutionTypes
        <3>3. UNCHANGED SeenLate
            BY <1>5, <3>2 DEF SeenLate, dayZero
        <3>4. Seen!OtherRunWrites
            BY <1>3, <2>1, <2>2, <3>1, <3>3
            DEF Seen!OtherRunWrites, Seen!DayOneStatuses, SeenFrame
        <3> QED
            BY <3>4 DEF Seen!Next
    <2>4. ASSUME NEW n \in 1..MaxStarts, s.run = ChildOf[n]
          PROVE  Seen!Next
        <3>1. Record' = [says |-> Says(StatusAt[s.at]), by |-> n,
                         child |-> TRUE]
            BY <1>1, <1>5, <2>4, RunRecordIs
        <3>2. n \in children
            BY <1>1, <2>4 DEF LifeInv, HandoffInv
        <3>3. \A m \in children : ChildOf[m] = ChildOf[n] => m = n
            BY LifecycleAssumption DEF LifeInv, LifeTypeOK, ExecutionTypes
        <3>4. SeenLate' = SeenLate \cup {n}
            BY <1>5, <2>4, <3>2, <3>3 DEF SeenLate, dayZero
        <3>5. Seen!DayOneWritesLate(n)
            BY <1>3, <2>1, <2>2, <3>1, <3>2, <3>4
            DEF Seen!DayOneWritesLate, Seen!DayOneWrites,
                Seen!DayOneStatuses, SeenFrame
        <3> QED
            BY <3>2, <3>5 DEF Seen!Next
    <2> QED
        BY <2>3, <2>4 DEF ChildRuns
<1> QED
    BY <1>4, <1>5 DEF StragglerLands, history

LEMMA SeenDayOne ==
    ASSUME LifeInv, DayOneStep
    PROVE  [Seen!Next]_(Seen!vars)
<1> USE DEF local, nautobot, history
<1>1. ASSUME NEW r \in Runs, DayOneStarts(r)
      PROVE  [Seen!Next]_(Seen!vars)
    <2>1. /\ pc[r] # "done" /\ UNCHANGED dayZero /\ UNCHANGED router
          /\ UNCHANGED <<nbIntent, nbStatus, straggled, result>>
          /\ pc' = [pc EXCEPT ![r] = "write_started"]
        BY <1>1 DEF DayOneStarts, Start, Goto
    <2>2. "write_started" \in Locs \ {"done"}
        BY WriteLocsAre DEF Locs, Activities
    <2> QED
        BY <2>1, <2>2, SeenRunGoes
<1>2. ASSUME NEW r \in Runs, DayOneAdvances(r)
      PROVE  [Seen!Next]_(Seen!vars)
    BY <1>2, SeenRunAdvances
<1>3. ASSUME NEW r \in Runs, NEW choice, Signal(r, choice),
             UNCHANGED <<dayZero, router>>
      PROVE  [Seen!Next]_(Seen!vars)
    <2>1. /\ pc[r] # "done" /\ UNCHANGED pc
          /\ UNCHANGED <<nbIntent, nbStatus, straggled, result>>
        BY <1>3 DEF Signal, Open
    <2> QED
        BY <1>3, <2>1, SeenRunGoes
<1>4. ASSUME NEW s \in stragglers, StragglerLands(s), AtRouter,
             UNCHANGED dayZero
      PROVE  [Seen!Next]_(Seen!vars)
    BY <1>4, SeenRunLands
<1>5. ASSUME NEW i \in Intents, IntentEdited(Device, i),
             UNCHANGED <<dayZero, router>>
      PROVE  [Seen!Next]_(Seen!vars)
    <2>1. UNCHANGED <<pc, result, nbStatus, straggled>>
        BY <1>5 DEF IntentEdited
    <2>2. nbIntent'[Device] = i
        BY <1>5, LifecycleAssumption
        DEF IntentEdited, LifeInv, LifeTypeOK, RunTypes
    <2>3. UNCHANGED <<SeenLoc, SeenResult, SeenLate, Record>>
        BY <1>5, <2>1, SeenStands DEF dayZero, Child, SeenLate, Record
    <2>4. Seen!IntentEdited(i)
        BY <1>5, <2>2, <2>3
        DEF Seen!IntentEdited, Seen!outside, Seen!traces, dayZero
    <2> QED
        BY <2>4 DEF Seen!Next
<1>6. CASE ChangedByHand(Device) /\ UNCHANGED <<dayZero, router>>
    <2>1. UNCHANGED <<pc, result, nbIntent, nbStatus, straggled>>
        BY <1>6 DEF ChangedByHand
    <2>2. UNCHANGED <<SeenLoc, SeenResult>>
        BY <1>6, <2>1, SeenStands DEF dayZero, Child
    <2> QED
        BY <1>6, <2>1, <2>2, SeenRouterGoes
<1> QED
    BY <1>1, <1>2, <1>3, <1>4, <1>5, <1>6 DEF DayOneStep

LEMMA SeenDayZero ==
    ASSUME LifeInv, DayZeroStep
    PROVE  [Seen!Next]_(Seen!vars)
<1>1. CASE WorkersGo
    BY <1>1, SeenWorkers
<1>2. CASE \/ UNCHANGED <<dayOne, nautobot>> /\ DayZero!RouterBoots
           \/ /\ UNCHANGED <<pc, attempt, local, approval, result, stragglers,
                             history, nautobot>>
              /\ DayZero!RouterWiped
    <2>1. UNCHANGED <<pc, result, straggled>>
        BY <1>2 DEF dayOne, history
    <2> QED
        BY <1>2, <2>1, SeenRouter
<1> QED
    BY <1>1, <1>2, SeenWrites, SeenActs, SeenAnswers, SeenStarts, SeenLands
    DEF DayZeroStep

LEMMA SeenStep == LifeInv /\ [LifeNext]_lifeVars => [Seen!Next]_(Seen!vars)
<1> SUFFICES ASSUME LifeInv, [LifeNext]_lifeVars
             PROVE  [Seen!Next]_(Seen!vars)
    OBVIOUS
<1>1. CASE UNCHANGED lifeVars
    <2>1. UNCHANGED <<SeenLoc, SeenResult, SeenLate, Record>>
        BY <1>1, SeenStands
        DEF lifeVars, dayZero, vars, nautobot, history, Child, SeenLate,
            Record
    <2> QED
        BY <1>1, <2>1
        DEF lifeVars, dayZero, vars, nautobot, Seen!vars, Seen!outside,
            Seen!traces
<1>2. CASE LifeNext
    BY <1>2, SeenDayZero, SeenDayOne, StepsAre
<1> QED
    BY <1>1, <1>2

\* The composition behaves as Bootstrap says, with a child and with runs of
\* the API that do only what Bootstrap allows them (bootstrap_device.py lines
\* 188 to 209).
THEOREM Implemented == LifeSpec => ImplementsBootstrap
<1>1. LifeInit => Seen!Init
    BY SeenInit
<1>2. LifeInv /\ [LifeNext]_lifeVars => [Seen!Next]_(Seen!vars)
    BY SeenStep
<1> QED
    BY <1>1, <1>2, LifeInductive, PTL
    DEF LifeSpec, ImplementsBootstrap, Seen!Spec

=============================================================================

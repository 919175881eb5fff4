------------------------ MODULE ComplianceScanProofs ------------------------
(***************************************************************************)
(* Theorems about ComplianceScan for any devices, any lists of them with   *)
(* repetitions, and any retry limits.                                      *)
(***************************************************************************)
EXTENDS ComplianceScan, TLAPS

-----------------------------------------------------------------------------
(* Sequences and the loop.                                                 *)

LEMMA LimitType ==
    ASSUME NEW l
    PROVE  Limit(l) \in Nat \ {0}
BY ScanAssumption DEF Limit

LEMMA LoopIs ==
    ASSUME NEW ds \in Seq(Devices), NEW n \in 0..Len(ds)
    PROVE  \/ Loop(ds, n) = "fetch" /\ n < Len(ds)
           \/ Loop(ds, n) = "returned" /\ n = Len(ds)
BY DEF Loop

LEMMA CurrentType ==
    ASSUME TypeOK, scanned < Len(targets)
    PROVE  Current \in Devices
BY DEF TypeOK, Current

\* The verdict on the device that was validated last.
LEMMA VerdictIs ==
    /\ Verdict \in {"COMPLIANCE_PASSED", "COMPLIANCE_DRIFTED"}
    /\ Verdict = "COMPLIANCE_PASSED" <=> passed
BY DEF Verdict

Results == [device : Devices, passed : BOOLEAN, error : BOOLEAN]

\* One more result, for the next device of the list.
LEMMA NextInOrder ==
    ASSUME NEW rs \in Seq(Results), NEW ds, NEW n \in Nat, NEW r \in Results,
           Reports(rs, ds, n), r.device = ds[n + 1]
    PROVE  Reports(Append(rs, r), ds, n + 1)
<1> DEFINE len == Len(rs)
           more == Append(rs, r)
<1>0. /\ len \in Nat /\ Len(more) = len + 1 /\ more[len + 1] = r
      /\ \A k \in 1..len : more[k] = rs[k]
    OBVIOUS
<1>1. PICK of \in [1..len -> 1..n] :
         /\ \A i \in 1..n : \E k \in 1..len : of[k] = i
         /\ \A k \in 1..len : rs[k].device = ds[of[k]]
         /\ \A k, l \in 1..len :
               k < l => \/ of[k] < of[l]
                        \/ /\ of[k] = of[l] /\ l = k + 1
                           /\ ~rs[k].error /\ rs[l].error
    BY DEF Reports, ReportsInOrder
<1> DEFINE on == [k \in 1..len + 1 |-> IF k <= len THEN of[k] ELSE n + 1]
<1>2. /\ on \in [1..len + 1 -> 1..n + 1] /\ on[len + 1] = n + 1
      /\ \A k \in 1..len : on[k] = of[k] /\ of[k] \in 1..n
    BY <1>0
<1> HIDE DEF len, more, on
<1>3. ASSUME NEW i \in 1..n + 1 PROVE \E k \in 1..len + 1 : on[k] = i
    <2>1. CASE i \in 1..n
        <3>1. PICK k \in 1..len : of[k] = i
            BY <1>1, <2>1
        <3> QED
            BY <1>0, <1>2, <3>1
    <2>2. CASE i = n + 1
        BY <1>0, <1>2, <2>2
    <2> QED
        BY <2>1, <2>2
<1>4. ASSUME NEW k \in 1..len + 1 PROVE more[k].device = ds[on[k]]
    <2>1. CASE k \in 1..len
        BY <1>0, <1>1, <1>2, <2>1
    <2>2. CASE k = len + 1
        BY <1>0, <1>2, <2>2
    <2> QED
        BY <1>0, <2>1, <2>2
<1>5. ASSUME NEW k \in 1..len + 1, NEW l \in 1..len + 1, k < l
      PROVE  \/ on[k] < on[l]
             \/ /\ on[k] = on[l] /\ l = k + 1
                /\ ~more[k].error /\ more[l].error
    <2>0. k \in 1..len
        BY <1>0, <1>5
    <2>1. CASE l \in 1..len
        <3>1. /\ on[k] = of[k] /\ on[l] = of[l]
              /\ more[k] = rs[k] /\ more[l] = rs[l]
            BY <1>0, <1>2, <2>0, <2>1
        <3>2. \/ of[k] < of[l]
              \/ /\ of[k] = of[l] /\ l = k + 1
                 /\ ~rs[k].error /\ rs[l].error
            BY <1>1, <1>5, <2>0, <2>1
        <3> QED
            BY <3>1, <3>2
    <2>2. CASE l = len + 1
        BY <1>2, <2>0, <2>2
    <2> QED
        BY <1>0, <2>1, <2>2
<1>6. ReportsInOrder(on, more, ds, n + 1)
    BY <1>0, <1>3, <1>4, <1>5 DEF ReportsInOrder
<1>7. Reports(more, ds, n + 1)
    BY <1>0, <1>2, <1>6 DEF Reports
<1> QED
    BY <1>7 DEF more

\* An error on top of the verdict of the last device.
LEMMA AgainInOrder ==
    ASSUME NEW rs \in Seq(Results), NEW ds, NEW n \in Nat, NEW r \in Results,
           Reports(rs, ds, n), r.device = ds[n],
           rs # <<>>, ~rs[Len(rs)].error, r.error
    PROVE  Reports(Append(rs, r), ds, n)
<1> DEFINE len == Len(rs)
           more == Append(rs, r)
<1>0. /\ len \in Nat /\ len > 0 /\ Len(more) = len + 1
      /\ more[len + 1] = r /\ \A k \in 1..len : more[k] = rs[k]
    OBVIOUS
<1>1. PICK of \in [1..len -> 1..n] :
         /\ \A i \in 1..n : \E k \in 1..len : of[k] = i
         /\ \A k \in 1..len : rs[k].device = ds[of[k]]
         /\ \A k, l \in 1..len :
               k < l => \/ of[k] < of[l]
                        \/ /\ of[k] = of[l] /\ l = k + 1
                           /\ ~rs[k].error /\ rs[l].error
    BY DEF Reports, ReportsInOrder
<1> DEFINE on == [k \in 1..len + 1 |-> IF k <= len THEN of[k] ELSE n]
<1>2. n \in 1..n
    BY <1>0, <1>1
<1>3. /\ on \in [1..len + 1 -> 1..n] /\ on[len + 1] = n
      /\ \A k \in 1..len : on[k] = of[k] /\ of[k] \in 1..n
    BY <1>0, <1>2
<1>4. ~rs[len].error
    OBVIOUS
<1> HIDE DEF len, more, on
<1>5. of[len] = n
    <2>1. PICK k \in 1..len : of[k] = n
        BY <1>1, <1>2
    <2>2. len \in 1..len
        BY <1>0
    <2>3. CASE k < len
        <3>1. of[k] < of[len] \/ of[k] = of[len]
            BY <1>1, <2>2, <2>3
        <3> QED
            BY <1>3, <2>1, <2>2, <3>1
    <2> QED
        BY <1>0, <2>1, <2>3
<1>6. \A i \in 1..n : \E k \in 1..len + 1 : on[k] = i
    <2> SUFFICES ASSUME NEW i \in 1..n PROVE \E k \in 1..len + 1 : on[k] = i
        OBVIOUS
    <2>1. PICK k \in 1..len : of[k] = i
        BY <1>1
    <2> QED
        BY <1>0, <1>3, <2>1
<1>7. ASSUME NEW k \in 1..len + 1 PROVE more[k].device = ds[on[k]]
    <2>1. CASE k \in 1..len
        BY <1>0, <1>1, <1>3, <2>1
    <2>2. CASE k = len + 1
        BY <1>0, <1>3, <2>2
    <2> QED
        BY <1>0, <2>1, <2>2
<1>8. ASSUME NEW k \in 1..len + 1, NEW l \in 1..len + 1, k < l
      PROVE  \/ on[k] < on[l]
             \/ /\ on[k] = on[l] /\ l = k + 1
                /\ ~more[k].error /\ more[l].error
    <2>0. k \in 1..len
        BY <1>0, <1>8
    <2>1. CASE l \in 1..len
        <3>1. /\ on[k] = of[k] /\ on[l] = of[l]
              /\ more[k] = rs[k] /\ more[l] = rs[l]
            BY <1>0, <1>3, <2>0, <2>1
        <3>2. \/ of[k] < of[l]
              \/ /\ of[k] = of[l] /\ l = k + 1
                 /\ ~rs[k].error /\ rs[l].error
            BY <1>1, <1>8, <2>0, <2>1
        <3> QED
            BY <3>1, <3>2
    <2>2. CASE l = len + 1 /\ k < len
        <3>1. of[k] < of[len]
            BY <1>0, <1>1, <1>4, <2>0, <2>2
        <3> QED
            BY <1>3, <1>5, <2>0, <2>2, <3>1
    <2>3. CASE l = len + 1 /\ k = len
        BY <1>0, <1>3, <1>4, <1>5, <2>0, <2>3
    <2> QED
        BY <1>0, <2>0, <2>1, <2>2, <2>3
<1>9. ReportsInOrder(on, more, ds, n)
    BY <1>0, <1>6, <1>7, <1>8 DEF ReportsInOrder
<1>10. Reports(more, ds, n)
    BY <1>0, <1>3, <1>9 DEF Reports
<1> QED
    BY <1>10 DEF more

\* Results are only ever added.
Grows ==
    \A k \in DOMAIN results : k \in DOMAIN results' /\ results'[k] = results[k]

LEMMA ReportAppends ==
    ASSUME TypeOK, scanned < Len(targets), NEW ok \in BOOLEAN,
           NEW error \in BOOLEAN, Report(ok, error)
    PROVE  /\ results' \in Seq(Results) /\ Grows
           /\ Len(results') = Len(results) + 1
           /\ results'[Len(results')] =
                 [device |-> Current, passed |-> ok, error |-> error]
<1>1. [device |-> Current, passed |-> ok, error |-> error] \in Results
    BY CurrentType DEF Results
<1>2. results \in Seq(Results)
    BY DEF TypeOK, Results
<1> QED
    BY <1>1, <1>2 DEF Report, Grows

LEMMA GrowthKeeps ==
    ASSUME Grows
    PROVE  /\ Drifted \subseteq Drifted'
           /\ \A d, verdict : Measured(d, verdict) => Measured(d, verdict)'
<1>1. Drifted \subseteq Drifted'
    BY DEF Grows, Drifted
<1>2. ASSUME NEW d, NEW verdict, Measured(d, verdict)
      PROVE  Measured(d, verdict)'
    BY <1>2 DEF Grows, Measured
<1> QED
    BY <1>1, <1>2

\* What one more result adds.
LEMMA ReportAdds ==
    ASSUME TypeOK, scanned < Len(targets), NEW ok \in BOOLEAN,
           NEW error \in BOOLEAN, Report(ok, error)
    PROVE  /\ Current \in Drifted' \/ ok
           /\ \A d, verdict :
                 d = Current /\ ~error /\ (ok <=> verdict = "COMPLIANCE_PASSED")
                    => Measured(d, verdict)'
<1> DEFINE new == Len(results')
<1>1. /\ new \in DOMAIN results' /\ new = Len(results) + 1
      /\ results'[new] = [device |-> Current, passed |-> ok, error |-> error]
    BY ReportAppends DEF TypeOK
<1>2. Current \in Drifted' \/ ok
    BY <1>1 DEF Drifted
<1>3. ASSUME NEW d, NEW verdict, d = Current, ~error,
             ok <=> verdict = "COMPLIANCE_PASSED"
      PROVE  Measured(d, verdict)'
    BY <1>1, <1>3 DEF Measured
<1> QED
    BY <1>2, <1>3

\* The loop goes on to the next device, or returns.
LEMMA NextDeviceIs ==
    ASSUME TypeOK, scanned < Len(targets), NextDevice, UNCHANGED targets
    PROVE  /\ scanned' = scanned + 1 /\ scanned' \in 0..Len(targets')
           /\ attempt' = 1
           /\ \/ loc' = "fetch" /\ scanned' < Len(targets')
              \/ loc' = "returned" /\ scanned' = Len(targets')
<1>1. scanned + 1 \in 0..Len(targets) /\ targets \in Seq(Devices)
    BY DEF TypeOK
<1> QED
    BY <1>1, LoopIs DEF NextDevice, Goto

\* An attempt that failed is repeated; or there is no list of devices; or the
\* device is given up with a result that says so.
GivesUp == /\ scanned < Len(targets) /\ loc \in {"fetch", "validate", "write"}
           /\ Report(FALSE, TRUE) /\ NextDevice

LEMMA AttemptEndsIs ==
    ASSUME TypeOK, LoopInv, loc \notin Ended, AttemptEnds
    PROVE  \/ /\ loc' = loc /\ attempt' \in 1..Limit(loc)
              /\ UNCHANGED <<scanned, results>>
           \/ /\ loc = "list" /\ loc' = "failed" /\ attempt' = 1
              /\ UNCHANGED <<scanned, results>>
           \/ GivesUp
<1>1. CASE attempt < Limit(loc)
    <2>1. Limit(loc) \in Nat \ {0}
        BY LimitType
    <2> QED
        BY <1>1, <2>1 DEF AttemptEnds, TypeOK
<1>2. CASE ~(attempt < Limit(loc))
    BY <1>2 DEF AttemptEnds, GiveUp, Goto, GivesUp, TypeOK, LoopInv, Ended
<1> QED
    BY <1>1, <1>2

-----------------------------------------------------------------------------
(* Type correctness.                                                       *)

LEMMA TypeInit == Init => TypeOK
<1> SUFFICES ASSUME Init PROVE TypeOK
    OBVIOUS
<1>1. targets \in Seq(Devices) /\ Len(targets) \in Nat
    BY ScanAssumption DEF Init
<1>2. attempt \in 1..Limit(loc)
    BY LimitType DEF Init
<1>3. loc \in {"list", "fetch"} /\ scanned \in 0..Len(targets)
    BY <1>1 DEF Init
<1>4. results \in Seq([device : Devices, passed : BOOLEAN, error : BOOLEAN])
    BY DEF Init
<1>5. late \cup written = {}
    BY DEF Init
<1> QED
    BY <1>1, <1>2, <1>3, <1>4, <1>5 DEF Init, TypeOK

LEMMA TypeStep == TypeOK /\ LoopInv /\ [Next]_vars => TypeOK'
<1> SUFFICES ASSUME TypeOK, LoopInv, [Next]_vars PROVE TypeOK'
    OBVIOUS
<1> DEFINE Verdicts == {"COMPLIANCE_PASSED", "COMPLIANCE_DRIFTED"}
<1>0. ASSUME NEW l PROVE 1 \in 1..Limit(l)
    BY LimitType
<1>1. ASSUME NEW d \in Devices, NEW verdict \in Verdicts, Patch(d, verdict)
      PROVE  /\ status' \in [Devices -> {"other", "COMPLIANCE_PASSED",
                                         "COMPLIANCE_DRIFTED"}]
             /\ late \cup written' \subseteq Devices \X Verdicts
    BY <1>1 DEF Patch, TypeOK
<1>2. CASE ListCompletes
    <2>1. SiteDevices \in Seq(Devices) /\ 0 \in 0..Len(SiteDevices)
        BY ScanAssumption
    <2>2. loc' \in {"fetch", "returned"} /\ attempt' = 1
        BY <1>2, <2>1, LoopIs DEF ListCompletes, Goto
    <2> QED
        BY <1>0, <1>2, <2>1, <2>2
           DEF ListCompletes, TypeOK, LoopInv, Limit, Ended
<1>3. CASE FetchCompletes
    BY <1>0, <1>3 DEF FetchCompletes, Goto, TypeOK, Limit
<1>4. CASE ValidateCompletes
    <2>1. results' \in Seq(Results) /\ passed' \in BOOLEAN
        BY <1>4, ReportAppends DEF ValidateCompletes, LoopInv
    <2> QED
        BY <1>0, <1>4, <2>1 DEF ValidateCompletes, Goto, TypeOK, Results, Limit
<1>5. CASE WriteCompletes
    <2>1. scanned < Len(targets)
        BY <1>5 DEF WriteCompletes, LoopInv
    <2>2. /\ status' \in [Devices -> {"other", "COMPLIANCE_PASSED",
                                      "COMPLIANCE_DRIFTED"}]
          /\ late \cup written' \subseteq Devices \X Verdicts
        BY <1>1, <1>5, <2>1, CurrentType, VerdictIs DEF WriteCompletes
    <2> QED
        BY <1>0, <1>5, <2>1, <2>2, NextDeviceIs
           DEF WriteCompletes, TypeOK, Ended
<1>6. ASSUME loc \notin Ended, AttemptEnds, UNCHANGED targets
      PROVE  /\ loc' \in {"list", "fetch", "validate", "write"} \cup Ended
             /\ attempt' \in 1..Limit(loc')
             /\ scanned' \in 0..Len(targets')
             /\ results' \in Seq([device : Devices, passed : BOOLEAN,
                                  error : BOOLEAN])
    <2>1. CASE loc' = loc /\ attempt' \in 1..Limit(loc)
               /\ UNCHANGED <<scanned, results>>
        BY <1>6, <2>1 DEF TypeOK
    <2>2. CASE loc' = "failed" /\ attempt' = 1 /\ UNCHANGED <<scanned, results>>
        BY <1>0, <1>6, <2>2 DEF TypeOK, Ended
    <2>3. CASE GivesUp
        BY <1>0, <1>6, <2>3, NextDeviceIs, ReportAppends
           DEF GivesUp, Ended, Results
    <2> QED
        BY <1>6, <2>1, <2>2, <2>3, AttemptEndsIs
<1>7. CASE AttemptFails
    BY <1>6, <1>7 DEF AttemptFails, TypeOK
<1>8. CASE WriteTimesOut
    <2>1. <<Current, Verdict>> \in Devices \X Verdicts
        BY <1>8, CurrentType, VerdictIs DEF WriteTimesOut, LoopInv
    <2>2. late' \cup written' \subseteq Devices \X Verdicts
        BY <1>8, <2>1 DEF WriteTimesOut, TypeOK
    <2> QED
        BY <1>6, <1>8, <2>2 DEF WriteTimesOut, TypeOK, Ended
<1>9. ASSUME NEW w \in late, LateWrite(w) PROVE TypeOK'
    <2>1. w[1] \in Devices /\ w[2] \in Verdicts
        BY DEF TypeOK
    <2> QED
        BY <1>1, <1>9, <2>1 DEF LateWrite, TypeOK
<1>10. ASSUME NEW d \in Devices, OtherWrite(d) PROVE TypeOK'
    BY <1>10 DEF OtherWrite, TypeOK
<1>11. CASE UNCHANGED vars
    BY <1>11 DEF vars, TypeOK, Limit
<1> QED
    BY <1>2, <1>3, <1>4, <1>5, <1>7, <1>8, <1>9, <1>10, <1>11 DEF Next, Run


-----------------------------------------------------------------------------
(* The inductive invariant, part by part.                                  *)

\* How a step treats the loop and the results: it waits, takes the list, goes
\* to the next await of a device, reports one, or goes on to the next.
Waits == UNCHANGED <<loc, targets, scanned, passed, results>>
Lists == ListCompletes \/ (/\ loc = "list" /\ loc' = "failed"
                           /\ UNCHANGED <<targets, scanned, results>>)
Skips == GivesUp /\ UNCHANGED <<targets, passed>>

LEMMA StepIs ==
    ASSUME TypeOK, LoopInv, [Next]_vars
    PROVE  Waits \/ Lists \/ FetchCompletes \/ ValidateCompletes
              \/ WriteCompletes \/ Skips
<1>1. CASE AttemptFails \/ WriteTimesOut
    BY <1>1, AttemptEndsIs
       DEF AttemptFails, WriteTimesOut, Ended, Waits, Lists, Skips
<1> QED
    BY <1>1 DEF Next, Run, LateWrite, OtherWrite, vars, Waits, Lists

\* Only a write of the scan changes what it has written.
LEMMA WrittenIs ==
    ASSUME [Next]_vars
    PROVE  /\ written \subseteq written'
           /\ ListCompletes \/ FetchCompletes \/ ValidateCompletes
                 => UNCHANGED <<status, late, written>>
BY DEF Next, Run, ListCompletes, FetchCompletes, ValidateCompletes, Goto,
       WriteCompletes, AttemptFails, WriteTimesOut, LateWrite, OtherWrite,
       Patch, vars

LEMMA LoopStep == IInv /\ [Next]_vars => LoopInv'
<1> SUFFICES ASSUME IInv, [Next]_vars PROVE LoopInv'
    OBVIOUS
<1> USE DEF IInv, LoopInv
<1>1. CASE Lists
    <2>1. SiteDevices \in Seq(Devices) /\ 0 \in 0..Len(SiteDevices)
        BY ScanAssumption
    <2> QED
        BY <1>1, <2>1, LoopIs DEF Lists, ListCompletes, Goto
<1>2. CASE FetchCompletes \/ ValidateCompletes
    BY <1>2 DEF FetchCompletes, ValidateCompletes, Goto
<1>3. CASE WriteCompletes \/ Skips
    BY <1>3, NextDeviceIs DEF WriteCompletes, Skips, GivesUp
<1>4. CASE Waits
    BY <1>4 DEF Waits
<1> QED
    BY <1>1, <1>2, <1>3, <1>4, StepIs

\* Nothing is reported before the first device.
LEMMA NoneInOrder ==
    ASSUME NEW ds PROVE Reports(<<>>, ds, 0)
<1>1. Len(<<>>) = 0 /\ 1..0 = {}
    OBVIOUS
<1>2. [k \in 1..0 |-> k] \in [1..0 -> 1..0]
    OBVIOUS
<1> QED
    BY <1>1, <1>2 DEF Reports, ReportsInOrder

LEMMA ReportedStep == IInv /\ [Next]_vars => ReportedInv'
<1> SUFFICES ASSUME IInv, [Next]_vars PROVE ReportedInv'
    OBVIOUS
<1> USE DEF IInv
<1>0. /\ scanned \in Nat /\ results \in Seq(Results)
      /\ Reports(results, targets,
                 IF loc = "write" THEN scanned + 1 ELSE scanned)
      /\ loc = "write" => results # <<>> /\ ~results[Len(results)].error
    BY DEF TypeOK, Results, ReportedInv
<1>1. CASE Lists
    <2>1. scanned' = 0 /\ results' = <<>> /\ loc' # "write"
        BY <1>1 DEF Lists, ListCompletes, LoopInv, Goto, Loop
    <2> QED
        BY <2>1, NoneInOrder DEF ReportedInv
<1>2. CASE FetchCompletes
    BY <1>0, <1>2 DEF FetchCompletes, Goto, ReportedInv
<1>3. CASE ValidateCompletes
    <2>1. PICK ok \in BOOLEAN : Report(ok, FALSE)
        BY <1>3 DEF ValidateCompletes
    <2> DEFINE r == [device |-> Current, passed |-> ok, error |-> FALSE]
    <2>2. /\ scanned < Len(targets) /\ scanned' = scanned /\ loc' = "write"
          /\ targets' = targets /\ loc # "write"
        BY <1>3 DEF ValidateCompletes, Goto, LoopInv
    <2>3. /\ r \in Results /\ r.device = targets[scanned + 1] /\ ~r.error
          /\ results' = Append(results, r)
        BY <2>1, <2>2, CurrentType DEF Report, Results, Current
    <2> HIDE DEF r
    <2>4. Reports(results', targets', scanned + 1)
        BY <1>0, <2>2, <2>3, NextInOrder
    <2>5. results' # <<>> /\ results'[Len(results')] = r
        BY <1>0, <2>3
    <2> QED
        BY <2>2, <2>3, <2>4, <2>5 DEF ReportedInv
<1>4. CASE WriteCompletes
    <2>1. /\ scanned' = scanned + 1 /\ loc' # "write" /\ loc = "write"
          /\ targets' = targets /\ results' = results
        BY <1>4, NextDeviceIs DEF WriteCompletes, LoopInv
    <2> QED
        BY <1>0, <2>1 DEF ReportedInv
<1>5. CASE Skips
    <2> DEFINE r == [device |-> Current, passed |-> FALSE, error |-> TRUE]
    <2>1. /\ scanned < Len(targets) /\ scanned' = scanned + 1
          /\ loc' # "write" /\ targets' = targets
        BY <1>5, NextDeviceIs DEF Skips, GivesUp
    <2>2. /\ r \in Results /\ r.device = targets[scanned + 1] /\ r.error
          /\ results' = Append(results, r)
        BY <1>5, <2>1, CurrentType DEF Skips, GivesUp, Report, Results, Current
    <2> HIDE DEF r
    <2>3. CASE loc = "write"
        <3>1. scanned + 1 \in Nat
            BY <1>0
        <3>2. Reports(results', targets', scanned + 1)
            BY <1>0, <2>1, <2>2, <2>3, <3>1, AgainInOrder
        <3> QED
            BY <2>1, <3>2 DEF ReportedInv
    <2>4. CASE loc # "write"
        <3>1. Reports(results', targets', scanned + 1)
            BY <1>0, <2>1, <2>2, <2>4, NextInOrder
        <3> QED
            BY <2>1, <3>1 DEF ReportedInv
    <2> QED
        BY <2>3, <2>4
<1>6. CASE Waits
    BY <1>6 DEF Waits, ReportedInv
<1> QED
    BY <1>1, <1>2, <1>3, <1>4, <1>5, <1>6, StepIs

LEMMA SilenceStep == IInv /\ [Next]_vars => SilenceInv'
<1> SUFFICES ASSUME IInv, [Next]_vars PROVE SilenceInv'
    OBVIOUS
<1> USE DEF IInv, SilenceInv
<1>0. scanned \in Nat /\ written \subseteq written'
    BY WrittenIs DEF TypeOK
<1>1. CASE Lists
    BY <1>1, LoopIs, ScanAssumption
       DEF Lists, ListCompletes, LoopInv, Goto, Loop
<1>2. CASE FetchCompletes
    BY <1>0, <1>2 DEF FetchCompletes, Goto, Drifted
<1>3. CASE ValidateCompletes
    <2>1. Current' = Current /\ Drifted \subseteq Drifted'
        BY <1>3, ReportAppends, GrowthKeeps
           DEF ValidateCompletes, LoopInv, Current
    <2>2. Current \in Drifted' \/ passed'
        <3>1. PICK ok \in BOOLEAN : passed' = ok /\ Report(ok, FALSE)
            BY <1>3 DEF ValidateCompletes
        <3>2. TypeOK /\ scanned < Len(targets)
            BY <1>3 DEF ValidateCompletes, LoopInv
        <3> QED
            BY <3>1, <3>2, ReportAdds
    <2> QED
        BY <1>0, <1>3, <2>1, <2>2 DEF ValidateCompletes
<1>4. CASE WriteCompletes
    <2>1. passed => <<targets[scanned + 1], "COMPLIANCE_PASSED">> \in written'
        BY <1>4 DEF WriteCompletes, Patch, Verdict, Current
    <2>2. /\ scanned' = scanned + 1 /\ loc' # "write"
          /\ targets' = targets /\ Drifted' = Drifted
        BY <1>4, NextDeviceIs DEF WriteCompletes, LoopInv, Drifted
    <2> QED
        BY <1>0, <1>4, <2>1, <2>2 DEF WriteCompletes, Current
<1>5. CASE Skips
    <2>1. Drifted \subseteq Drifted' /\ targets[scanned + 1] \in Drifted'
        BY <1>5, ReportAppends, GrowthKeeps, ReportAdds
           DEF Skips, GivesUp, Current
    <2>2. scanned' = scanned + 1 /\ loc' # "write" /\ targets' = targets
        BY <1>5, NextDeviceIs DEF Skips, GivesUp
    <2> QED
        BY <1>0, <2>1, <2>2
<1>6. CASE Waits
    BY <1>0, <1>6 DEF Waits, Drifted, Current
<1> QED
    BY <1>1, <1>2, <1>3, <1>4, <1>5, <1>6, StepIs

\* What was measured stays so, whatever the step.
LEMMA MeasuredStays ==
    ASSUME IInv, [Next]_vars, NEW d, NEW verdict, Measured(d, verdict)
    PROVE  Measured(d, verdict)'
<1>1. Waits \/ Lists \/ FetchCompletes \/ WriteCompletes => results' = results
    BY DEF Waits, Lists, ListCompletes, FetchCompletes, WriteCompletes
<1>2. ValidateCompletes \/ Skips => Grows
    BY ReportAppends
       DEF ValidateCompletes, Skips, GivesUp, IInv, LoopInv
<1>3. CASE results' = results
    BY <1>3 DEF Measured
<1>4. CASE Grows
    BY <1>4, GrowthKeeps
<1> QED
    BY <1>1, <1>2, <1>3, <1>4, StepIs DEF IInv

\* Writes and late writes carry what was measured; nothing else but the other
\* runs changes a record.
LEMMA MeasuredStep == IInv /\ [Next]_vars => MeasuredInv' /\ RecordsAreMeasured'
<1> SUFFICES ASSUME IInv, [Next]_vars
             PROVE  MeasuredInv' /\ RecordsAreMeasured'
    OBVIOUS
<1>1. \A w \in late' \cup written' : Measured(w[1], w[2])
    <2>1. \A w \in late' \cup written' :
             \/ w \in late \cup written
             \/ loc = "write" /\ w = <<Current, Verdict>>
        <3>1. CASE Run
            BY <3>1
               DEF Run, ListCompletes, FetchCompletes, ValidateCompletes,
                   WriteCompletes, AttemptFails, WriteTimesOut, Patch
        <3>2. ASSUME NEW w \in late, LateWrite(w)
              PROVE  late' \cup written' \subseteq late \cup written
            <4>1. <<w[1], w[2]>> = w
                BY DEF IInv, TypeOK
            <4> QED
                BY <3>2, <4>1 DEF LateWrite, Patch
        <3>3. CASE UNCHANGED <<late, written>>
            BY <3>3
        <3> QED
            BY <3>1, <3>2, <3>3 DEF Next, OtherWrite, vars
    <2> QED
        BY <2>1 DEF IInv, MeasuredInv
<1>2. ASSUME NEW d \in Devices, status'[d] # "other"
      PROVE  Measured(d, status'[d])
    <2>1. CASE status'[d] = status[d]
        BY <1>2, <2>1 DEF IInv, RecordsAreMeasured
    <2>2. CASE <<d, status'[d]>> \in written'
        BY <1>1, <2>2
    <2>3. \/ status'[d] = status[d] \/ <<d, status'[d]>> \in written'
          \/ status'[d] = "other"
        BY DEF Next, Run, ListCompletes, FetchCompletes, ValidateCompletes,
               WriteCompletes, AttemptFails, WriteTimesOut, LateWrite,
               OtherWrite, Patch, vars, IInv, TypeOK
    <2> QED
        BY <1>2, <2>1, <2>2, <2>3
<1>3. ASSUME loc' = "write" PROVE Measured(Current, Verdict)'
    <2>1. CASE ValidateCompletes
        <3>1. Current' = Current /\ (passed' <=> Verdict' = "COMPLIANCE_PASSED")
            BY <2>1 DEF ValidateCompletes, Current, Verdict
        <3> QED
            BY <2>1, <3>1, ReportAdds DEF ValidateCompletes, IInv, LoopInv
    <2>2. CASE Waits
        BY <1>3, <2>2 DEF Waits, IInv, MeasuredInv, Measured, Current, Verdict
    <2>3. ~Lists /\ ~FetchCompletes /\ ~WriteCompletes /\ ~Skips
        BY <1>3, NextDeviceIs, LoopIs, ScanAssumption
           DEF Lists, ListCompletes, FetchCompletes, WriteCompletes, Skips,
               GivesUp, Goto, IInv, LoopInv, Loop
    <2> QED
        BY <2>1, <2>2, <2>3, StepIs DEF IInv
<1> QED
    BY <1>1, <1>2, <1>3, MeasuredStays DEF MeasuredInv, RecordsAreMeasured

LEMMA InvInit == Init => IInv
<1> SUFFICES ASSUME Init PROVE IInv
    OBVIOUS
<1>1. targets \in Seq(Devices)
    BY ScanAssumption DEF Init
<1>2. LoopInv /\ ReportedInv /\ SilenceInv
    BY <1>1, NoneInOrder DEF Init, LoopInv, ReportedInv, SilenceInv
<1>3. MeasuredInv /\ RecordsAreMeasured
    BY DEF Init, MeasuredInv, RecordsAreMeasured
<1> QED
    BY TypeInit, <1>2, <1>3 DEF IInv

LEMMA InvStep == IInv /\ [Next]_vars => IInv'
BY TypeStep, LoopStep, ReportedStep, SilenceStep, MeasuredStep DEF IInv

\* The inductive invariant holds throughout, so its parts do.
THEOREM Inductive == Spec => []IInv
BY InvInit, InvStep, PTL DEF Spec

-----------------------------------------------------------------------------
(* What follows.                                                           *)

\* The locals of run() and the records keep their types, for any lists of
\* devices and any retry limits (compliance_scan.py).
THEOREM TypeCorrect == Spec => []TypeOK
<1>1. IInv => TypeOK
    BY DEF IInv
<1> QED
    BY Inductive, <1>1, PTL

\* A scan that returns has reported every device it was to scan, in the order
\* of its list and no other, each with one result or with a verdict and an
\* error right after it; a scan that fails has no results ("an unreachable
\* device does not abort the scan of the site", compliance_scan.py line 126).
THEOREM EveryReported == Spec => []EveryDeviceReported
<1>1. IInv => EveryDeviceReported
    BY DEF IInv, LoopInv, ReportedInv, EveryDeviceReported
<1> QED
    BY Inductive, <1>1, PTL

\* A device that a finished scan does not list as drifted was recorded as
\* passed, however the attempts went (run(): drifted_devices of the result).
THEOREM SilencePassed == Spec => []SilenceMeansPassed
<1>1. IInv => SilenceMeansPassed
    BY DEF IInv, TypeOK, LoopInv, SilenceInv, SilenceMeansPassed
<1> QED
    BY Inductive, <1>1, PTL

\* Whatever writes time out and land late, a record never holds a verdict of
\* the scan that none of its results gives (run(), set_device_status).
THEOREM RecordsMeasured == Spec => []RecordsAreMeasured
<1>1. IInv => RecordsAreMeasured
    BY DEF IInv
<1> QED
    BY Inductive, <1>1, PTL

=============================================================================

---------------------------- MODULE ComplianceScan ----------------------------
(***************************************************************************)
(* ComplianceScanWorkflow (temporal/workflows/compliance_scan.py), Day 2:  *)
(* one scan validates the devices of a site in turn and writes what it     *)
(* found to their records, which Day 1 runs write as well.  A device that  *)
(* cannot be scanned is reported and skipped.                              *)
(***************************************************************************)
EXTENDS Integers, Sequences, FiniteSets

CONSTANTS
    Devices,      \* Nautobot device ids
    SiteDevices,  \* what fetch_site_devices answers: a sequence of devices
    Requests,     \* the values of input.device_ids, sequences of devices
    Attempts,     \* _RETRY_STANDARD.maximum_attempts
    WriteAttempts \* _RETRY_WRITE_STATUS.maximum_attempts

ASSUME ScanAssumption ==
    /\ SiteDevices \in Seq(Devices)
    /\ Requests \subseteq Seq(Devices)
    /\ {Attempts, WriteAttempts} \subseteq Nat \ {0}

VARIABLES
    loc,      \* the await run() is at, or how it ended
    attempt,  \* number of the attempt in progress
    targets,  \* local device_ids
    scanned,  \* devices the loop is done with
    passed,   \* local validation.passed
    results,  \* local results
    status,   \* Nautobot: the status of each device, "other" for Day 0 and 1
    late,     \* timed-out status writes whose thread still runs
    written   \* history: the statuses the scan has written, by device

vars == <<loc, attempt, targets, scanned, passed, results, status, late, written>>

Current == targets[scanned + 1]
Limit(l) == IF l = "write" THEN WriteAttempts ELSE Attempts
Ended == {"returned", "failed"}

\* Where the loop goes after n of the devices ds.
Loop(ds, n) == IF n < Len(ds) THEN "fetch" ELSE "returned"

\* An explicit list is taken as it is; an empty one means the whole site.
Init ==
    /\ targets \in Requests
    /\ loc = IF targets # <<>> THEN "fetch" ELSE "list"
    /\ attempt = 1
    /\ scanned = 0
    /\ passed = FALSE
    /\ results = <<>>
    /\ status = [d \in Devices |-> "other"]
    /\ late = {}
    /\ written = {}

-----------------------------------------------------------------------------
(* run().                                                                  *)

Goto(l) == loc' = l /\ attempt' = 1

ListCompletes ==
    /\ loc = "list"
    /\ targets' = SiteDevices
    /\ Goto(Loop(SiteDevices, 0))
    /\ UNCHANGED <<scanned, passed, results, status, late, written>>

FetchCompletes ==
    /\ loc = "fetch"
    /\ Goto("validate")
    /\ UNCHANGED <<targets, scanned, passed, results, status, late, written>>

Report(ok, error) ==
    results' = Append(results, [device |-> Current, passed |-> ok,
                                error |-> error])

\* The live state meets the intent that was fetched, or not; the result is
\* appended before the status is written.
ValidateCompletes ==
    /\ loc = "validate"
    /\ \E ok \in BOOLEAN : passed' = ok /\ Report(ok, FALSE)
    /\ Goto("write")
    /\ UNCHANGED <<targets, scanned, status, late, written>>

\* Mutant of Verdict: the status does not depend on the validation.
VerdictPassed == "COMPLIANCE_PASSED"

Verdict == IF passed THEN "COMPLIANCE_PASSED" ELSE "COMPLIANCE_DRIFTED"

Patch(d, verdict) ==
    /\ status' = [status EXCEPT ![d] = verdict]
    /\ written' = written \cup {<<d, verdict>>}

NextDevice == scanned' = scanned + 1 /\ Goto(Loop(targets, scanned + 1))

WriteCompletes ==
    /\ loc = "write"
    /\ Patch(Current, Verdict)
    /\ NextDevice
    /\ UNCHANGED <<targets, passed, results, late>>

\* Mutant of GiveUp: a device that cannot be scanned is left out.
GiveUpSilently == NextDevice /\ UNCHANGED results

\* The attempts are exhausted: the except clause reports the device as failed
\* and goes on; nothing catches it when there is no list of devices.
GiveUp ==
    IF loc = "list"
    THEN Goto("failed") /\ UNCHANGED <<scanned, results>>
    ELSE Report(FALSE, TRUE) /\ NextDevice

\* Mutants of AttemptEnds: one attempt too many; attempts without end.
AttemptEndsOneLater ==
    IF attempt <= Limit(loc)
    THEN attempt' = attempt + 1 /\ UNCHANGED <<loc, scanned, results>>
    ELSE GiveUp

AttemptEndsUncounted == UNCHANGED <<loc, attempt, scanned, results>>

AttemptEnds ==
    IF attempt < Limit(loc)
    THEN attempt' = attempt + 1 /\ UNCHANGED <<loc, scanned, results>>
    ELSE GiveUp

AttemptFails ==
    /\ loc \notin Ended
    /\ AttemptEnds
    /\ UNCHANGED <<targets, passed, status, late, written>>

\* start_to_close_timeout fires while the PATCH is under way.
WriteTimesOut ==
    /\ loc = "write"
    /\ late' = late \cup {<<Current, Verdict>>}
    /\ AttemptEnds
    /\ UNCHANGED <<targets, passed, status, written>>

\* It lands after all; other attempts at the same write may follow.
LateWrite(w) ==
    /\ late' \in {late, late \ {w}}
    /\ Patch(w[1], w[2])
    /\ UNCHANGED <<loc, attempt, targets, scanned, passed, results>>

-----------------------------------------------------------------------------
(* The surroundings.                                                       *)

\* A Day 0 or Day 1 run writes the record of a device.
OtherWrite(d) ==
    /\ status' = [status EXCEPT ![d] = "other"]
    /\ UNCHANGED <<loc, attempt, targets, scanned, passed, results, late,
                   written>>

Run == \/ ListCompletes \/ FetchCompletes \/ ValidateCompletes
       \/ WriteCompletes \/ AttemptFails \/ WriteTimesOut

Next ==
    \/ Run
    \/ \E w \in late : LateWrite(w)
    \/ \E d \in Devices : OtherWrite(d)

Spec == Init /\ [][Next]_vars
FairSpec == Spec /\ WF_vars(Run)

-----------------------------------------------------------------------------
(* What must hold.                                                         *)

\* drifted_devices of the result.
Drifted == {results[k].device : k \in {j \in DOMAIN results :
                                          ~results[j].passed}}

\* The type invariant of the locals of run() and of the records.
TypeOK ==
    /\ loc \in {"list", "fetch", "validate", "write"} \cup Ended
    /\ attempt \in 1..Limit(loc)
    /\ targets \in Seq(Devices)
    /\ scanned \in 0..Len(targets)
    /\ passed \in BOOLEAN
    /\ results \in Seq([device : Devices, passed : BOOLEAN, error : BOOLEAN])
    /\ status \in [Devices -> {"other", "COMPLIANCE_PASSED",
                               "COMPLIANCE_DRIFTED"}]
    /\ late \cup written \subseteq
          Devices \X {"COMPLIANCE_PASSED", "COMPLIANCE_DRIFTED"}

\* of says which device each of the results rs reports: all the first n of the
\* devices ds in their order, each with one result, or with a verdict that an
\* error follows at once.
ReportsInOrder(of, rs, ds, n) ==
    /\ \A i \in 1..n : \E k \in 1..Len(rs) : of[k] = i
    /\ \A k \in 1..Len(rs) : rs[k].device = ds[of[k]]
    /\ \A k, l \in 1..Len(rs) :
          k < l => \/ of[k] < of[l]
                   \/ /\ of[k] = of[l] /\ l = k + 1
                      /\ ~rs[k].error /\ rs[l].error

Reports(rs, ds, n) ==
    \E of \in [1..Len(rs) -> 1..n] : ReportsInOrder(of, rs, ds, n)

\* An unreachable device does not abort the scan of the site (comment at
\* compliance_scan.py line 126): a scan that ends reports every device it was
\* to scan, in the order of the list, and nothing else; or it reports nothing
\* at all when it has no list of them.
EveryDeviceReported ==
    /\ loc = "failed" => results = <<>>
    /\ loc = "returned" => Reports(results, targets, Len(targets))

\* No device slips through: one that a finished scan does not list as drifted
\* is recorded as passed in Nautobot, by the scan itself.
SilenceMeansPassed ==
    loc = "returned" =>
        \A k \in DOMAIN targets :
            targets[k] \notin Drifted => <<targets[k], "COMPLIANCE_PASSED">> \in written

\* There is a result that says what the verdict says of the device.
Measured(d, verdict) ==
    \E k \in DOMAIN results :
        /\ results[k].device = d
        /\ ~results[k].error
        /\ results[k].passed <=> verdict = "COMPLIANCE_PASSED"

\* What the scan leaves in a record is what one of its results says: no write,
\* retried or late, marks a device that was not measured.
RecordsAreMeasured ==
    \A d \in Devices : status[d] # "other" => Measured(d, status[d])

\* The scan ends, however many devices cannot be reached.
ScanEnds == <>(loc \in Ended)

-----------------------------------------------------------------------------
(* Why the invariants hold: with these parts added they are inductive.     *)

\* The loop is at a device of the list, or through with all of them.
LoopInv ==
    /\ loc \in {"fetch", "validate", "write"} => scanned < Len(targets)
    /\ loc \in {"list", "failed"} => scanned = 0 /\ results = <<>>
    /\ loc = "returned" => scanned = Len(targets)

\* The devices the loop has passed are reported, and the current one once it
\* is validated.
ReportedInv ==
    /\ Reports(results, targets,
               IF loc = "write" THEN scanned + 1 ELSE scanned)
    /\ loc = "write" => results # <<>> /\ ~results[Len(results)].error

\* A device the loop has passed is listed as drifted or recorded as passed.
SilenceInv ==
    /\ \A k \in 1..scanned :
          \/ targets[k] \in Drifted
          \/ <<targets[k], "COMPLIANCE_PASSED">> \in written
    /\ loc = "write" => passed \/ Current \in Drifted

\* What is written, may still be written, or is about to be, was measured.
MeasuredInv ==
    /\ loc = "write" => Measured(Current, Verdict)
    /\ \A w \in late \cup written : Measured(w[1], w[2])

IInv ==
    /\ TypeOK /\ LoopInv /\ ReportedInv /\ SilenceInv /\ MeasuredInv
    /\ RecordsAreMeasured

-----------------------------------------------------------------------------
(* What the repository says, and the code does not do.                     *)

\* README, Day 2, step 3, and the docstring of run(): the result has one pass
\* or drift verdict for each device.
OneResultPerDevice ==
    loc = "returned" => Len(results) = Len(targets)

=============================================================================

-------------------------- MODULE ProvisionInvariant --------------------------
(***************************************************************************)
(* The inductive strengthening of the safety invariants of Provision: what *)
(* a control location says about the local variables, the records of       *)
(* Nautobot and the router.                                                *)
(***************************************************************************)
EXTENDS ProvisionRefinement

BeforeRender == {"idle", "write_started", "fetch", "render"}

\* Where run() can only be after a successful push.
AfterPush == {"write_pushed", "validate", "write_passed", "write_awaiting",
              "parked", "write_complete"}

\* Where run() can be once validate_device_state has answered.
AfterVerdict == {"write_passed", "write_awaiting", "parked", "write_complete",
                 "write_failed", "done"}

\* The artifact exists from the end of render_config on and renders the
\* intent of the run; nothing is pushed before.
ArtifactInv ==
    \A r \in Runs :
        /\ pc[r] \in BeforeRender => rendered[r] = NoIntent /\ pushed[r] = {}
        /\ pc[r] = "render" => intent[r] # NoIntent
        /\ pc[r] \in AfterPush \cup {"write_rendered", "push"} =>
              rendered[r] = intent[r] /\ rendered[r] # NoIntent
        /\ pc[r] \in AfterPush => pushed[r] # {}
        /\ pushed[r] \subseteq {rendered[r]}

\* A straggling push belongs to a run that has its artifact.
StragglerInv ==
    \A s \in stragglers : s.at = "push" =>
        pc[s.run] \notin BeforeRender /\ rendered[s.run] # NoIntent

\* A router runs its factory config, something done by hand or half done, or
\* a config that some run for it has pushed.
RouterInv ==
    \A d \in Devices : device[d] \notin {NoIntent, OffIntent} =>
        \E q \in Runs : DeviceOf[q] = d /\ device[d] \in pushed[q]

\* What the verdict and the decision are where run() depends on them.
Justified(r) == \/ verdict[r] = "passed"
                \/ verdict[r] = "drift" /\ decision[r] = "approved"

VerdictOf(r) ==
    /\ pc[r] = "write_passed" => verdict[r] = "passed"
    /\ pc[r] \in {"write_awaiting", "parked"} => verdict[r] = "drift"
    /\ pc[r] = "write_complete" => Justified(r)
    /\ result[r] = "success" => Justified(r)
    /\ result[r] # "none" => pc[r] = "done"
    /\ verdict[r] # "none" =>
          pc[r] \in AfterVerdict /\ rendered[r] = intent[r]
    /\ pc[r] \in AfterPush \/ verdict[r] # "none" =>
          device[DeviceOf[r]] # NoIntent

VerdictInv == \A r \in Runs : VerdictOf(r)

\* An open run that owns the record, and has no late write, has not yet
\* written a final status there.
RecordOf(r) ==
    nbStatus[DeviceOf[r]].by = {r} /\ r \notin straggled =>
        \/ pc[r] = "done"
        \/ nbStatus[DeviceOf[r]].status \notin {"COMPLETE", "FAILED"}

RecordInv == \A r \in Runs : RecordOf(r)

\* The stage a run has shown, or is about to show, at a location.
Reach(l) ==
    CASE l = "idle" -> 0
      [] l \in {"write_started", "fetch", "render"} -> 1
      [] l \in {"write_rendered", "push"} -> 2
      [] l \in {"write_pushed", "validate"} -> 3
      [] l \in {"write_passed", "write_awaiting", "parked"} -> 4
      [] l = "write_complete" -> 5
      [] OTHER -> 6

\* Neither what a run has written nor what it may still write late is ahead of
\* the run.
StageInv ==
    /\ \A d \in Devices, r \in Runs :
          nbStatus[d].by = {r} => Stage(nbStatus[d].status) <= Reach(pc[r])
    /\ \A s \in stragglers :
          s.at \in WriteLocs => Stage(StatusAt[s.at]) <= Reach(pc[s.run])

\* One open execution per workflow id.
ExclusiveInv ==
    \A q, r \in Runs : IdOf[q] = IdOf[r] /\ Open(q) /\ Open(r) => q = r

\* Another run for the device of r has put its config there: one under another
\* id, beside r, or one that has pushed late.
Displaced(r) ==
    \E q \in Runs \ {r} :
        /\ DeviceOf[q] = DeviceOf[r]
        /\ device[DeviceOf[r]] \in pushed[q]
        /\ IdOf[q] # IdOf[r] \/ q \in latePushed

\* Nothing else comes between an open run and the config it has pushed, but a
\* change by hand.
OwnConfigOf(r) ==
    pc[r] \in AfterPush =>
        device[DeviceOf[r]] \in {intent[r], OffIntent} \/ Displaced(r)

OwnConfigInv == \A r \in Runs : OwnConfigOf(r)

\* The inductive invariant; its parts are about run() at provision_site.py
\* lines 163 to 306.
IInv ==
    /\ TypeOK
    /\ ArtifactInv
    /\ StragglerInv
    /\ RouterInv
    /\ VerdictInv
    /\ RecordInv
    /\ ReportedIsRecorded
    /\ StageInv
    /\ ExclusiveInv
    /\ OwnConfigInv
=============================================================================

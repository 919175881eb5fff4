-------------------------- MODULE LifecycleInvariant --------------------------
(***************************************************************************)
(* The inductive strengthening of the safety invariants of Lifecycle: how  *)
(* the two phases hold each other, what a run has to show for COMPLETE, who *)
(* can have written the record last, and how far that one has come.        *)
(***************************************************************************)
EXTENDS Lifecycle, ProvisionInvariant

Rec == nbStatus[Device]

LifeStatuses ==
    Statuses \cup {"QUEUED"}
             \cup {DayZero!StatusAt[l] : l \in DayZero!WriteLocs}

\* The domain of every variable of Day 0.
ExecutionTypes ==
    /\ loc0 \in DayZero!Activities \cup {"idle", "day1", "done"}
    /\ attempt0 \in Nat \ {0}
    /\ starts \in 0..MaxStarts
    /\ hasMac \in BOOLEAN
    /\ reserved \in BOOLEAN
    /\ probing \in BOOLEAN
    /\ intent0 \in Intents \cup {NoIntent}
    /\ router \in Intents \cup {NoIntent}
    /\ published \in Intents \cup {NoIntent, Torn}
    /\ result0 \in {"none", "success", "failure", "error"}
    /\ late0 \subseteq [at : DayZero!Effects, by : 1..MaxStarts, mac : BOOLEAN,
                        version : Intents \cup {NoIntent}]
    /\ children \cup wroteLate0 \cup servedLate \subseteq 1..MaxStarts

\* The type invariant of both phases: the record, which they share, takes the
\* statuses and the names of both.
LifeTypeOK ==
    /\ RunTypes
    /\ ExecutionTypes
    /\ nbStatus \in [Devices -> [status : LifeStatuses,
                                 by : SUBSET (Runs \cup 1..MaxStarts)]]

\* While Day 0 waits for its child, no attempt and no probe of it is under way.
WaitInv == loc0 = "day1" => attempt0 = 1 /\ probing = FALSE

\* Only the execution that waits for it has an open child; who has not started
\* has left nothing behind.
HandoffInv ==
    /\ loc0 = "idle" <=> starts = 0
    /\ loc0 = "day1" => starts \in children
    /\ children \subseteq 1..starts
    /\ starts \in children => loc0 \in {"day1", "write_failed", "done"}
    /\ \A n \in 1..MaxStarts : pc[ChildOf[n]] # "idle" => n \in children
    /\ \A n \in 1..MaxStarts :
          Open(ChildOf[n]) => n = starts /\ loc0 = "day1"
    /\ \A s \in stragglers : pc[s.run] # "idle"
    /\ \A r \in straggled : pc[r] # "idle"
    /\ \A a \in late0 : a.by \in 1..starts
    /\ wroteLate0 \subseteq 1..starts

\* An execution has a result when it is closed, and only then.
ClosedInv ==
    /\ \A r \in Runs : pc[r] = "done" <=> result[r] # "none"
    /\ loc0 = "done" <=> result0 # "none"

\* What COMPLETE stands for, and where nothing takes it back.
Sound(r) == /\ pushed[r] # {}
            /\ verdict[r] = "passed" \/ decision[r] = "approved"

Ending(r) == pc[r] \in {"write_complete", "write_failed", "done"}

EarnedBy(r) ==
    /\ pc[r] \in AfterPush => pushed[r] # {}
    /\ pc[r] = "write_passed" => verdict[r] = "passed"
    /\ pc[r] = "write_complete" => Sound(r)

\* Every way to COMPLETE, the late one included, leads over a push and a
\* verdict or a decision.
EarnedInv ==
    /\ \A r \in Runs : EarnedBy(r)
    /\ \A s \in stragglers :
          s.at = "write_complete" => Sound(s.run) /\ Ending(s.run)
    /\ Rec.status = "COMPLETE" =>
          \E r \in Runs : Rec.by = {r} /\ Sound(r) /\ Ending(r)

\* What the record says of the execution that wrote it last: nobody, a run of
\* Day 1, the current execution of Day 0, or an earlier one while the current
\* one has not written yet.
WrittenByRun(r) ==
    Rec.by = {r} /\ r \notin straggled =>
        /\ pc[r] # "idle"
        /\ result[r] = "success" => Rec.status = "COMPLETE"
        /\ result[r] = "failure" => Rec.status = "FAILED"

WrittenByExecution(n) ==
    Rec.by = {n} /\ n \notin wroteLate0 =>
        /\ n \in 1..starts
        /\ n = starts =>
              /\ result0 = "failure" => Rec.status = "FAILED"
              /\ result0 # "success"
              /\ loc0 = "day1" => result[ChildOf[n]] # "success"
        /\ n # starts =>
              loc0 \in {"write_started", "write_failed"} \/ result0 = "error"

QuietInv ==
    /\ Rec.by \in {{}} \cup {{x} : x \in Runs \cup 1..MaxStarts}
    /\ Rec.by = {} => Rec.status = "QUEUED"
    /\ \A r \in Runs : WrittenByRun(r)
    /\ \A n \in 1..MaxStarts : WrittenByExecution(n)

\* The stage that an execution of Day 0 has shown, or is about to show.
ExecutionReach(l) ==
    CASE l \in {"write_started", "fetch", "dhcp"} -> 1
      [] l \in {"write_reserved", "render", "publish"} -> 2
      [] l = "write_ready" -> 3
      [] l \in {"write_awaiting", "wait"} -> 4
      [] l \in {"write_bootstrapped", "day1"} -> 5
      [] OTHER -> 11

\* Neither the record nor what may still be written late is ahead of the one
\* who wrote it.
OrderInv ==
    /\ Rec.by = {starts} => LifeStage(Rec.status) <= ExecutionReach(loc0)
    /\ \A a \in late0 : a.by = starts /\ a.at \in DayZero!WriteLocs =>
          ExecutionReach(a.at) <= ExecutionReach(loc0)
    /\ \A r \in Runs : Rec.by = {r} =>
          LifeStage(Rec.status) <= 5 + Reach(pc[r])
    /\ \A s \in stragglers : s.at \in WriteLocs =>
          Reach(s.at) <= Reach(pc[s.run])

\* The inductive invariant; its parts are about bootstrap_device.py lines 95
\* to 209 and provision_site.py lines 163 to 306.
LifeInv ==
    /\ LifeTypeOK
    /\ WaitInv
    /\ HandoffInv
    /\ ClosedInv
    /\ EarnedInv
    /\ QuietInv
    /\ OrderInv
=============================================================================

---------------------------- MODULE BulkOnboarding ----------------------------
(***************************************************************************)
(* BulkOnboardingWorkflow (temporal/workflows/bulk_onboarding.py): one     *)
(* batch that starts an OnboardSiteWorkflow child for each of its entries, *)
(* while operators pause it and change its rate, and while the API starts  *)
(* onboardings of single sites under the same workflow ids.                *)
(*                                                                         *)
(* A location is an await of run(); the code between two awaits is one     *)
(* step, since signals are only handled while the workflow is waiting.     *)
(* OnboardSite models what a child does; here it only runs and ends.       *)
(***************************************************************************)
EXTENDS Integers, Sequences, FiniteSets

CONSTANTS
    Sites,         \* Nautobot site ids
    Batch,         \* inp.site_ids: a sequence of sites, repetitions allowed
    MaxConcurrent, \* inp.max_concurrent
    Rates          \* the values adjust_rate may give to max_concurrent

ASSUME BatchAssumption ==
    /\ Batch \in Seq(Sites)
    /\ MaxConcurrent \in 1..50  \* models.py, Field(ge=1, le=50)
    /\ Rates \subseteq Int      \* the signal is not validated

VARIABLES
    loc,           \* the await run() is at, or how it ended
    paused,        \* self._paused
    maxConcurrent, \* self._max_concurrent
    popped,        \* entries taken from the front of pending
    inFlight,      \* the handles, as the entries they belong to
    polled,        \* handles _poll_children has got a result of
    counts,        \* self._counts
    child,         \* the execution of each entry's child workflow
    single,        \* sites with an open onboarding that the API started
    highest,       \* history: the highest limit that was ever in force
    afterPause     \* history: entries taken since the batch was paused

vars == <<loc, paused, maxConcurrent, popped, inFlight, polled, counts, child,
          single, highest, afterPause>>

Entries == 1..Len(Batch)
Ended == {"success", "rejected", "error"}
Running == {i \in Entries : child[i] = "running"}

\* Executions open under the id onboard-site-{s}.
OpenFor(s) == {i \in Running : Batch[i] = s}

\* Temporal refuses a second open execution under the id of the site.
IdTaken(s) == s \in single \/ OpenFor(s) # {}

Open == loc \notin {"returned", "failed"}

Init ==
    /\ loc = "begin"
    /\ paused = FALSE
    /\ maxConcurrent = 10
    /\ popped = 0
    /\ inFlight = <<>>
    /\ polled = 0
    /\ counts = [pending |-> 0, in_flight |-> 0, managed |-> 0, failed |-> 0]
    /\ child = [i \in Entries |-> "none"]
    /\ single = {}
    /\ highest = MaxConcurrent
    /\ afterPause = 0

-----------------------------------------------------------------------------
(* run().                                                                  *)

\* Mutant of OuterLoop: a batch without entries left does not return.
OuterLoopForever(pending, handles) == "waiting"

\* The outer loop: back to the pause point, or out of it.
OuterLoop(pending, handles) ==
    IF pending \/ handles # <<>> THEN "waiting" ELSE "returned"

\* run() starts; a rate that was signalled before is overwritten, a pause is
\* not.
Begin ==
    /\ loc = "begin"
    /\ maxConcurrent' = MaxConcurrent
    /\ counts' = [counts EXCEPT !.pending = Len(Batch)]
    /\ loc' = OuterLoop(Batch # <<>>, <<>>)
    /\ UNCHANGED <<paused, popped, inFlight, polled, child, single, highest,
                   afterPause>>

\* Mutant of HasRoom: one child too many.
HasRoomForOneMore == Len(inFlight) <= maxConcurrent

\* The limit in force leaves room for another child.
HasRoom == Len(inFlight) < maxConcurrent

\* The test of the inner loop: take the next entry and start its child, or
\* go on to await the children there are.  The pause is not looked at.
InnerLoop ==
    /\ IF popped < Len(Batch) /\ HasRoom
       THEN /\ popped' = popped + 1
            /\ counts' = [counts EXCEPT !.pending = @ - 1, !.in_flight = @ + 1]
            /\ loc' = "starting"
            /\ afterPause' = IF paused THEN afterPause + 1 ELSE 0
       ELSE /\ loc' = IF inFlight # <<>> THEN "polling"
                      ELSE OuterLoop(popped < Len(Batch), inFlight)
            /\ UNCHANGED <<popped, counts, afterPause>>
    /\ UNCHANGED <<paused, maxConcurrent, inFlight, polled, child, single,
                   highest>>

\* Mutant of MayPass: the pause is not waited out.
MayAlwaysPass == TRUE

\* The condition of the wait before the inner loop.
MayPass == ~paused

\* wait_condition(not paused) lets run() into the inner loop.
PassPausePoint == loc = "waiting" /\ MayPass /\ InnerLoop

\* workflow.sleep between two spawns is over.
SleepEnds == loc = "sleeping" /\ InnerLoop

\* Temporal has no open execution for the site: the child starts.
ChildStarts ==
    /\ loc = "starting"
    /\ ~IdTaken(Batch[popped])
    /\ child' = [child EXCEPT ![popped] = "running"]
    /\ inFlight' = Append(inFlight, popped)
    /\ loc' = "sleeping"
    /\ UNCHANGED <<paused, maxConcurrent, popped, polled, counts, single,
                   highest, afterPause>>

\* The id is taken: nothing catches WorkflowAlreadyStartedError, the batch
\* fails, and with it Temporal terminates the children that are running.
ChildConflicts ==
    /\ loc = "starting"
    /\ IdTaken(Batch[popped])
    /\ loc' = "failed"
    /\ child' = [i \in Entries |-> IF child[i] = "running" THEN "error"
                                                           ELSE child[i]]
    /\ UNCHANGED <<paused, maxConcurrent, popped, inFlight, polled, counts,
                   single, highest, afterPause>>

\* Mutants of Counted: a child that returned counts as managed whatever it
\* says; the entry is taken out of in_flight twice.
CountedAnyReturn(outcome) ==
    IF outcome # "error"
    THEN [counts EXCEPT !.managed = @ + 1, !.in_flight = @ - 1]
    ELSE [counts EXCEPT !.failed = @ + 1, !.in_flight = @ - 1]

CountedTwice(outcome) ==
    [counts EXCEPT !.failed = @ + 1, !.in_flight = @ - 2]

\* What _poll_children makes of an awaited handle.
Counted(outcome) ==
    IF outcome = "success"
    THEN [counts EXCEPT !.managed = @ + 1, !.in_flight = @ - 1]
    ELSE [counts EXCEPT !.failed = @ + 1, !.in_flight = @ - 1]

\* _poll_children awaits the handles in the order of their start; it leaves
\* none of them running.
HandleResolves ==
    LET next == inFlight[polled + 1] IN
    /\ loc = "polling"
    /\ child[next] \in Ended
    /\ counts' = Counted(child[next])
    /\ IF polled + 1 < Len(inFlight)
       THEN polled' = polled + 1 /\ UNCHANGED <<loc, inFlight>>
       ELSE /\ polled' = 0
            /\ inFlight' = <<>>
            /\ loc' = OuterLoop(popped < Len(Batch), <<>>)
    /\ UNCHANGED <<paused, maxConcurrent, popped, child, single, highest,
                   afterPause>>

-----------------------------------------------------------------------------
(* Operators, children and the API.                                        *)

Pause ==
    /\ Open
    /\ paused' = TRUE
    /\ UNCHANGED <<loc, maxConcurrent, popped, inFlight, polled, counts,
                   child, single, highest, afterPause>>

Resume ==
    /\ Open
    /\ paused' = FALSE
    /\ afterPause' = 0
    /\ UNCHANGED <<loc, maxConcurrent, popped, inFlight, polled, counts,
                   child, single, highest>>

AdjustRate(limit) ==
    /\ Open
    /\ maxConcurrent' = limit
    /\ highest' = IF loc # "begin" /\ limit > highest THEN limit ELSE highest
    /\ UNCHANGED <<loc, paused, popped, inFlight, polled, counts, child,
                   single, afterPause>>

\* A child returns success or not (its remediation was rejected), or its
\* execution fails or is terminated.
ChildEnds(i, outcome) ==
    /\ child[i] = "running"
    /\ child' = [child EXCEPT ![i] = outcome]
    /\ UNCHANGED <<loc, paused, maxConcurrent, popped, inFlight, polled,
                   counts, single, highest, afterPause>>

\* POST /onboarding/sites/{site}: the same workflow id, refused with 409
\* while an execution is open under it.
SingleStarts(s) ==
    /\ ~IdTaken(s)
    /\ single' = single \cup {s}
    /\ UNCHANGED <<loc, paused, maxConcurrent, popped, inFlight, polled,
                   counts, child, highest, afterPause>>

SingleEnds(s) ==
    /\ s \in single
    /\ single' = single \ {s}
    /\ UNCHANGED <<loc, paused, maxConcurrent, popped, inFlight, polled,
                   counts, child, highest, afterPause>>

\* A step of run() that Temporal and the workers drive.
Run == \/ Begin \/ PassPausePoint \/ SleepEnds
       \/ ChildStarts \/ ChildConflicts \/ HandleResolves

Next ==
    \/ Run
    \/ Pause \/ Resume \/ \E limit \in Rates : AdjustRate(limit)
    \/ \E i \in Entries, outcome \in Ended : ChildEnds(i, outcome)
    \/ \E s \in Sites : SingleStarts(s) \/ SingleEnds(s)

\* Children end: each of their awaits has a timeout and a retry limit.
Fairness ==
    /\ WF_vars(Run)
    /\ \A i \in Entries : WF_vars(\E outcome \in Ended : ChildEnds(i, outcome))

Spec == Init /\ [][Next]_vars
FairSpec == Spec /\ Fairness

-----------------------------------------------------------------------------
(* What must hold.                                                         *)

\* The type invariant of the workflow's attributes, of the locals of run()
\* and of the executions.
TypeOK ==
    /\ loc \in {"begin", "waiting", "starting", "sleeping", "polling",
                "returned", "failed"}
    /\ paused \in BOOLEAN
    /\ maxConcurrent \in Int
    /\ popped \in 0..Len(Batch)
    /\ inFlight \in Seq(Entries)
    /\ polled \in 0..Len(Batch)
    /\ counts \in [pending : Nat, in_flight : Nat, managed : Nat, failed : Nat]
    /\ child \in [Entries -> {"none", "running"} \cup Ended]
    /\ single \subseteq Sites
    /\ highest \in Int
    /\ afterPause \in Nat

\* get_status never claims what has not happened: an entry it counts as
\* managed or failed has a child that ended so, every running child is among
\* the in_flight ones, and no entry is lost or counted twice.
StatusIsTrue ==
    /\ counts.managed <= Cardinality({i \in Entries : child[i] = "success"})
    /\ counts.failed <=
          Cardinality({i \in Entries : child[i] \in {"rejected", "error"}})
    /\ counts.in_flight >= Cardinality(Running)
    /\ loc # "begin" =>
          counts.pending + counts.in_flight + counts.managed + counts.failed
            = Len(Batch)

\* A batch that returns has waited for all its children, however often it was
\* paused and whatever its limit became, and its result says how they ended.
ResultIsTrue ==
    loc = "returned" =>
        /\ \A i \in Entries : child[i] \in Ended
        /\ counts.managed = Cardinality({i \in Entries : child[i] = "success"})
        /\ counts.failed =
              Cardinality({i \in Entries : child[i] \in {"rejected", "error"}})

\* The batch never has more children running than the highest limit that was
\* in force, although a limit may change between the test of the loop and the
\* start of the child (tutorial 05: "`max_concurrent` limits how many child
\* workflows run simultaneously").
RunningWithinLimit == Cardinality(Running) <= highest

\* A pause does not stop the inner loop, but it holds at the next pause point:
\* a batch that is paused at most fills up the children of its current round,
\* so it takes fewer entries than the highest limit that was in force before it
\* stands still, whatever is signalled meanwhile.
PauseTakesHold == afterPause > 0 => afterPause < highest

\* Unless it stays paused, or its limit stays below one, a batch ends.
BatchEnds ==
    <>[](~paused /\ maxConcurrent >= 1) => <>~Open

-----------------------------------------------------------------------------
(* Why the invariants hold: these parts are inductive.                     *)

\* Entries whose child was started: an entry is taken before its child is.
Started == IF loc \in {"starting", "failed"} THEN popped - 1 ELSE popped

\* Entries whose child was awaited.
Settled == Started - Len(inFlight) + polled

\* Those of the awaited children that ended in one of the outcomes.
SettledAs(outcomes) == {i \in 1..Settled : child[i] \in outcomes}

\* The batch is taken from its front: first the entries that are settled, then
\* the ones in flight, in order, then the ones without a child.
FlightInv ==
    /\ Started \in 0..popped /\ Len(inFlight) <= Started
    /\ \A k \in 1..Len(inFlight) : inFlight[k] = Started - Len(inFlight) + k
    /\ \A i \in Entries : child[i] = "none" <=> i > Started
    /\ \A i \in 1..Settled : child[i] \in Ended
    /\ IF loc = "polling" THEN polled < Len(inFlight) ELSE polled = 0
    /\ loc = "begin" => popped = 0
    /\ loc = "returned" => popped = Len(Batch) /\ inFlight = <<>>

\* The counters are the sizes of these parts.
CountInv ==
    /\ counts.pending = IF loc = "begin" THEN 0 ELSE Len(Batch) - popped
    /\ counts.in_flight = popped - Settled
    /\ counts.managed = Cardinality(SettledAs({"success"}))
    /\ counts.failed = Cardinality(SettledAs({"rejected", "error"}))

\* The handles, with the one that is about to be added, are within the limit.
LimitInv ==
    /\ MaxConcurrent <= highest
    /\ loc # "begin" => maxConcurrent <= highest
    /\ Len(inFlight) + (IF loc = "starting" THEN 1 ELSE 0) <= highest

\* What is taken while the batch is paused joins at least one child that was
\* taken before.
PauseInv ==
    /\ ~paused => afterPause = 0
    /\ loc = "starting" => afterPause <= Len(inFlight)
    /\ loc = "sleeping" => afterPause < Len(inFlight)
    /\ PauseTakesHold

IInv == TypeOK /\ FlightInv /\ CountInv /\ LimitInv /\ PauseInv

-----------------------------------------------------------------------------
(* What the repository says, and the code does not do.                     *)

\* Platform design, section 5.2: pause stops spawning new child workflows, so
\* no entry is taken from the batch while it is paused.
PauseStopsSpawning ==
    [][paused => popped' = popped]_vars

=============================================================================

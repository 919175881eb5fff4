------------------------- MODULE BulkOnboardingProofs -------------------------
(***************************************************************************)
(* Theorems about BulkOnboarding for any batch of any sites, repetitions   *)
(* included, any limit the input may give, and any limits the operators    *)
(* may signal.                                                             *)
(***************************************************************************)
EXTENDS BulkOnboarding, FiniteSetTheorems, TLAPS

-----------------------------------------------------------------------------
(* The parts of the batch.                                                 *)

LEMMA BatchIs ==
    /\ Len(Batch) \in Nat
    /\ \A i \in Entries : Batch[i] \in Sites
BY BatchAssumption DEF Entries

\* The bounds of the parts, and the entry whose handle is awaited next.
LEMMA PartsAre ==
    ASSUME TypeOK, FlightInv
    PROVE  /\ popped \in 0..Len(Batch) /\ Started \in 0..popped
           /\ Len(inFlight) \in 0..Started /\ polled \in 0..Len(inFlight)
           /\ Settled \in 0..Started
           /\ loc = "polling" =>
                 /\ inFlight[polled + 1] = Settled + 1
                 /\ Settled + 1 \in Entries /\ Settled + 1 <= Started
<1>1. /\ Len(Batch) \in Nat /\ Len(inFlight) \in Nat
      /\ popped \in 0..Len(Batch) /\ polled \in 0..Len(Batch)
      /\ Started \in 0..popped
    BY BatchIs DEF TypeOK, FlightInv
<1>2. Len(inFlight) \in 0..Started /\ polled \in 0..Len(inFlight)
    BY <1>1 DEF FlightInv
<1>3. Settled \in 0..Started
    BY <1>1, <1>2 DEF Settled
<1>4. ASSUME loc = "polling"
      PROVE  /\ inFlight[polled + 1] = Settled + 1
             /\ Settled + 1 \in Entries /\ Settled + 1 <= Started
    <2>1. polled + 1 \in 1..Len(inFlight)
        BY <1>1, <1>4 DEF FlightInv
    <2>2. inFlight[polled + 1] = Started - Len(inFlight) + (polled + 1)
        BY <2>1 DEF FlightInv
    <2> QED
        BY <1>1, <1>2, <2>1, <2>2 DEF Settled, Entries
<1> QED
    BY <1>1, <1>2, <1>3, <1>4

\* At the start of a child its entry is the last one that was taken.
LEMMA StartingIs ==
    ASSUME TypeOK, FlightInv, loc \in {"starting", "failed"}
    PROVE  /\ popped \in Entries /\ Started = popped - 1
           /\ child[popped] = "none"
<1>1. popped \in 0..Len(Batch) /\ Started \in 0..popped /\ Len(Batch) \in Nat
    BY BatchIs, PartsAre
<1>2. Started = popped - 1
    BY DEF Started
<1>3. popped \in Entries
    BY <1>1, <1>2 DEF Entries
<1>4. popped > Started
    BY <1>1, <1>2
<1> QED
    BY <1>2, <1>3, <1>4 DEF FlightInv

LEMMA IntervalSize ==
    ASSUME NEW m \in Nat, NEW n \in Nat, m <= n
    PROVE  /\ IsFiniteSet(m + 1..n)
           /\ Cardinality(m + 1..n) = n - m
<1> DEFINE low == m + 1
<1>1. low \in Int /\ n \in Int
    OBVIOUS
<1> HIDE DEF low
<1>2. /\ IsFiniteSet(low..n)
      /\ Cardinality(low..n) = IF low > n THEN 0 ELSE n - low + 1
    BY <1>1, FS_Interval
<1>3. (IF low > n THEN 0 ELSE n - low + 1) = n - m
    BY DEF low
<1> QED
    BY <1>2, <1>3 DEF low

\* The sets that are counted.
LEMMA SettledFinite ==
    ASSUME TypeOK, FlightInv, NEW outcomes
    PROVE  /\ IsFiniteSet(SettledAs(outcomes))
           /\ Cardinality(SettledAs(outcomes)) \in Nat
<1>1. IsFiniteSet(1..Settled)
    BY PartsAre, FS_Interval
<1> QED
    BY <1>1, FS_Subset, FS_CardinalityType DEF SettledAs

LEMMA SettledSame ==
    ASSUME Settled' = Settled, \A i \in 1..Settled : child'[i] = child[i]
    PROVE  \A outcomes : SettledAs(outcomes)' = SettledAs(outcomes)
BY DEF SettledAs

\* One more entry is settled.
LEMMA SettledNext ==
    ASSUME TypeOK, FlightInv, Settled' = Settled + 1, child' = child,
           NEW outcomes
    PROVE  Cardinality(SettledAs(outcomes)') =
              Cardinality(SettledAs(outcomes))
                 + (IF child[Settled + 1] \in outcomes THEN 1 ELSE 0)
<1> DEFINE S == SettledAs(outcomes)
<1>0. Settled \in Nat
    BY PartsAre
<1>1. IsFiniteSet(S) /\ Cardinality(S) \in Nat
    BY SettledFinite
<1>2. Settled + 1 \notin S
    BY <1>0 DEF SettledAs
<1>3. CASE child[Settled + 1] \in outcomes
    <2>1. SettledAs(outcomes)' = S \cup {Settled + 1}
        BY <1>0, <1>3 DEF SettledAs
    <2> QED
        BY <1>1, <1>2, <1>3, <2>1, FS_AddElement
<1>4. CASE child[Settled + 1] \notin outcomes
    <2>1. SettledAs(outcomes)' = S
        BY <1>0, <1>4 DEF SettledAs
    <2> QED
        BY <1>1, <1>4, <2>1
<1> QED
    BY <1>3, <1>4

-----------------------------------------------------------------------------
(* The inductive invariant, action by action.                              *)

Counts == [pending : Nat, in_flight : Nat, managed : Nat, failed : Nat]

\* The counters are natural numbers when nothing is taken from zero.
LEMMA CountsType ==
    ASSUME counts \in Counts, NEW n \in Nat
    PROVE  /\ [counts EXCEPT !.pending = n] \in Counts
           /\ counts.pending > 0 =>
                 [counts EXCEPT !.pending = @ - 1, !.in_flight = @ + 1]
                    \in Counts
           /\ counts.in_flight > 0 => \A outcome : Counted(outcome) \in Counts
<1>1. /\ counts.pending \in Nat /\ counts.in_flight \in Nat
      /\ counts.managed \in Nat /\ counts.failed \in Nat
    BY DEF Counts
<1>2. [counts EXCEPT !.pending = n] \in Counts
    BY DEF Counts
<1>3. ASSUME counts.pending > 0
      PROVE  [counts EXCEPT !.pending = counts.pending - 1,
                            !.in_flight = counts.in_flight + 1] \in Counts
    <2>1. counts.pending - 1 \in Nat /\ counts.in_flight + 1 \in Nat
        BY <1>1, <1>3
    <2> QED
        BY <2>1 DEF Counts
<1>4. ASSUME counts.in_flight > 0, NEW outcome
      PROVE  Counted(outcome) \in Counts
    <2>1. /\ counts.in_flight - 1 \in Nat /\ counts.managed + 1 \in Nat
          /\ counts.failed + 1 \in Nat
        BY <1>1, <1>4
    <2>2. [counts EXCEPT !.managed = counts.managed + 1,
                         !.in_flight = counts.in_flight - 1] \in Counts
        BY <2>1 DEF Counts
    <2>3. [counts EXCEPT !.failed = counts.failed + 1,
                         !.in_flight = counts.in_flight - 1] \in Counts
        BY <2>1 DEF Counts
    <2> QED
        BY <2>2, <2>3 DEF Counted
<1> QED
    BY <1>2, <1>3, <1>4

\* Steps that take no entry: the pause may begin, or end with a fresh count.
LEMMA PauseSame ==
    ASSUME IInv, highest' \in Int, highest <= highest',
           \/ afterPause' = afterPause /\ (paused' = paused \/ paused')
           \/ afterPause' = 0,
           \/ loc' = loc /\ inFlight' = inFlight
           \/ loc' \notin {"starting", "sleeping"}
    PROVE  PauseInv' /\ afterPause' \in Nat
<1>1. /\ afterPause \in Nat /\ highest \in Int /\ Len(inFlight) \in Nat
      /\ PauseInv
    BY DEF IInv, TypeOK
<1>2. CASE afterPause' = afterPause /\ (paused' = paused \/ paused')
    BY <1>1, <1>2 DEF PauseInv, PauseTakesHold
<1>3. CASE afterPause' = 0
    BY <1>1, <1>3 DEF PauseInv, PauseTakesHold
<1> QED
    BY <1>2, <1>3

\* Steps that leave the entries and their children alone.
LEMMA BatchSame ==
    ASSUME IInv, UNCHANGED <<popped, inFlight, polled, child>>,
           loc' = loc \/ (loc = "begin" /\ loc' \in {"waiting", "returned"}),
           loc' = "returned" => popped = Len(Batch) /\ inFlight = <<>>
    PROVE  /\ FlightInv' /\ Settled' = Settled
           /\ \A outcomes : SettledAs(outcomes)' = SettledAs(outcomes)
<1>1. Started' = Started /\ Settled' = Settled
    BY DEF Started, Settled
<1>2. FlightInv'
    BY <1>1 DEF IInv, FlightInv
<1> QED
    BY <1>1, <1>2, SettledSame

LEMMA BeginStep == IInv /\ Begin => IInv'
<1> SUFFICES ASSUME IInv, Begin PROVE IInv'
    OBVIOUS
<1> USE DEF IInv
<1>1. popped = 0 /\ inFlight = <<>> /\ Settled = 0 /\ Len(Batch) \in Nat
    BY BatchIs, PartsAre DEF Begin, FlightInv, TypeOK
<1>2. /\ loc' \in {"waiting", "returned"}
      /\ loc' = "returned" => popped = Len(Batch)
    BY <1>1, BatchAssumption DEF Begin, OuterLoop
<1>3. /\ FlightInv' /\ Settled' = Settled
      /\ \A outcomes : SettledAs(outcomes)' = SettledAs(outcomes)
    BY <1>1, <1>2, BatchSame DEF Begin
<1>4. TypeOK'
    <2>1. counts \in Counts
        BY DEF TypeOK, Counts
    <2>2. counts' \in Counts
        BY <1>1, <2>1, CountsType DEF Begin
    <2>3. maxConcurrent' \in Int
        <3>1. maxConcurrent' = MaxConcurrent
            BY DEF Begin
        <3> QED
            BY <3>1, BatchAssumption
    <2> QED
        BY <1>2, <2>2, <2>3 DEF Begin, TypeOK, Counts
<1>5. CountInv'
    BY <1>1, <1>2, <1>3 DEF Begin, CountInv, TypeOK
<1>6. LimitInv'
    BY <1>1, <1>2, BatchAssumption DEF Begin, LimitInv
<1>7. PauseInv'
    <2>1. highest' \in Int /\ highest <= highest'
        BY DEF Begin, TypeOK
    <2> QED
        BY <1>2, <2>1, PauseSame DEF Begin
<1> QED
    BY <1>3, <1>4, <1>5, <1>6, <1>7

LEMMA InnerLoopStep ==
    ASSUME IInv, InnerLoop,
           (loc = "waiting" /\ MayPass) \/ loc = "sleeping"
    PROVE  IInv'
<1> USE DEF IInv
<1>0. /\ Len(Batch) \in Nat /\ popped \in 0..Len(Batch) /\ polled = 0
      /\ Started = popped /\ Len(inFlight) \in 0..popped
      /\ Settled = popped - Len(inFlight)
    BY BatchIs, PartsAre DEF FlightInv, Started, Settled
<1>1. afterPause \in Nat /\ highest \in Int
    BY DEF TypeOK
<1>2. CASE popped < Len(Batch) /\ HasRoom
    <2>1. /\ popped' = popped + 1 /\ loc' = "starting"
          /\ counts' = [counts EXCEPT !.pending = @ - 1, !.in_flight = @ + 1]
          /\ afterPause' = IF paused THEN afterPause + 1 ELSE 0
          /\ UNCHANGED <<paused, maxConcurrent, inFlight, polled, child,
                         single, highest>>
        BY <1>2 DEF InnerLoop
    <2>2. Started' = Started /\ Settled' = Settled
        BY <1>0, <2>1 DEF Started, Settled
    <2>3. \A outcomes : SettledAs(outcomes)' = SettledAs(outcomes)
        BY <2>1, <2>2, SettledSame
    <2>4. TypeOK'
        <3>1. counts.pending > 0
            BY <1>0, <1>2, BatchIs DEF CountInv
        <3>2. counts' \in Counts
            BY <2>1, <3>1, CountsType DEF TypeOK, Counts
        <3> QED
            BY <1>0, <1>1, <1>2, <2>1, <3>2 DEF TypeOK, Counts
    <2>5. FlightInv'
        BY <1>0, <2>1, <2>2 DEF FlightInv
    <2>6. CountInv'
        BY <1>0, <2>1, <2>2, <2>3 DEF CountInv, TypeOK
    <2>7. LimitInv'
        BY <1>0, <1>2, <2>1, BatchAssumption DEF LimitInv, HasRoom, TypeOK
    <2>8. PauseInv'
        <3>1. paused => afterPause < Len(inFlight)
            BY DEF PauseInv, MayPass
        <3>2. Len(inFlight') + 1 <= highest' /\ Len(inFlight) \in Nat
            BY <1>0, <2>1, <2>7 DEF LimitInv
        <3> QED
            BY <1>1, <2>1, <3>1, <3>2 DEF PauseInv, PauseTakesHold
    <2> QED
        BY <2>4, <2>5, <2>6, <2>7, <2>8
<1>3. CASE ~(popped < Len(Batch) /\ HasRoom)
    <2>1. /\ \/ loc' = "polling" /\ inFlight # <<>>
             \/ loc' = "waiting"
             \/ loc' = "returned" /\ popped = Len(Batch) /\ inFlight = <<>>
          /\ UNCHANGED <<paused, maxConcurrent, popped, inFlight, polled,
                         counts, child, single, highest, afterPause>>
        BY <1>0, <1>3 DEF InnerLoop, OuterLoop
    <2>2. Started' = Started /\ Settled' = Settled
        BY <1>0, <2>1 DEF Started, Settled
    <2>3. \A outcomes : SettledAs(outcomes)' = SettledAs(outcomes)
        BY <2>1, <2>2, SettledSame
    <2>4. TypeOK'
        BY <2>1 DEF TypeOK
    <2>5. inFlight # <<>> => 0 < Len(inFlight)
        BY DEF TypeOK
    <2>6. FlightInv'
        BY <1>0, <2>1, <2>2, <2>5 DEF FlightInv
    <2>7. CountInv'
        BY <2>1, <2>2, <2>3 DEF CountInv
    <2>8. LimitInv'
        BY <1>0, <2>1, BatchAssumption DEF LimitInv, TypeOK
    <2>9. PauseInv'
        BY <1>1, <2>1, PauseSame
    <2> QED
        BY <2>4, <2>6, <2>7, <2>8, <2>9
<1> QED
    BY <1>2, <1>3

LEMMA ChildStartsStep == IInv /\ ChildStarts => IInv'
<1> SUFFICES ASSUME IInv, ChildStarts PROVE IInv'
    OBVIOUS
<1> USE DEF IInv
<1>0. /\ Len(Batch) \in Nat /\ popped \in Entries /\ Started = popped - 1
      /\ Len(inFlight) \in 0..Started /\ polled = 0
      /\ Settled = Started - Len(inFlight) /\ child[popped] = "none"
      /\ inFlight \in Seq(Entries) /\ popped \in Int
    BY BatchIs, PartsAre, StartingIs
       DEF ChildStarts, FlightInv, Settled, TypeOK, Entries
<1>1. /\ Len(inFlight') = Len(inFlight) + 1
      /\ inFlight' \in Seq(Entries)
      /\ \A k \in 1..Len(inFlight') :
            inFlight'[k] = IF k <= Len(inFlight) THEN inFlight[k] ELSE popped
    BY <1>0 DEF ChildStarts
<1>2. /\ Started' = popped /\ Settled' = Settled
    BY <1>0, <1>1 DEF ChildStarts, Started, Settled
<1>3. /\ child' \in [Entries -> {"none", "running"} \cup Ended]
      /\ child'[popped] = "running"
      /\ \A i \in Entries : i # popped => child'[i] = child[i]
    BY <1>0 DEF ChildStarts, TypeOK
<1>4. \A i \in 1..Settled : i \in Entries /\ i # popped
    BY <1>0 DEF Entries
<1>5. \A outcomes : SettledAs(outcomes)' = SettledAs(outcomes)
    BY <1>2, <1>3, <1>4, SettledSame
<1>6. TypeOK'
    BY <1>1, <1>3 DEF ChildStarts, TypeOK
<1>7. FlightInv'
    <2>1. \A k \in 1..Len(inFlight)' :
             inFlight'[k] = Started' - Len(inFlight)' + k
        <3>1. \A k \in 1..Len(inFlight) :
                 inFlight[k] = Started - Len(inFlight) + k
            BY DEF FlightInv
        <3>2. ASSUME NEW k \in 1..Len(inFlight) + 1
              PROVE  inFlight'[k] = popped - (Len(inFlight) + 1) + k
            <4>1. CASE k <= Len(inFlight)
                BY <1>0, <1>1, <3>1, <4>1
            <4>2. CASE k = Len(inFlight) + 1
                BY <1>0, <1>1, <4>2
            <4> QED
                BY <1>0, <4>1, <4>2
        <3> QED
            BY <1>1, <1>2, <3>2
    <2>2. \A i \in Entries : child'[i] = "none" <=> i > Started'
        BY <1>0, <1>2, <1>3 DEF FlightInv, Entries
    <2>3. \A i \in 1..Settled' : child'[i] \in Ended
        BY <1>2, <1>3, <1>4 DEF FlightInv
    <2> QED
        BY <1>0, <1>1, <1>2, <2>1, <2>2, <2>3
           DEF ChildStarts, FlightInv, Entries
<1>8. CountInv'
    BY <1>2, <1>5 DEF ChildStarts, CountInv
<1>9. LimitInv'
    BY <1>0, <1>1 DEF ChildStarts, LimitInv
<1>10. PauseInv'
    BY <1>0, <1>1 DEF ChildStarts, PauseInv, PauseTakesHold, TypeOK
<1> QED
    BY <1>6, <1>7, <1>8, <1>9, <1>10

\* Children that end, by themselves or with the batch.
LEMMA ChildrenEnd ==
    ASSUME IInv, UNCHANGED <<paused, maxConcurrent, popped, inFlight, polled,
                             counts, single, highest, afterPause>>,
           loc' = loc \/ (loc = "starting" /\ loc' = "failed"),
           child' \in [Entries -> {"none", "running"} \cup Ended],
           \A i \in Entries :
              \/ child'[i] = child[i]
              \/ child[i] = "running" /\ child'[i] \in Ended
    PROVE  IInv'
<1> USE DEF IInv
<1>0. Settled \in 0..Started /\ Started \in 0..Len(Batch) /\ Len(Batch) \in Nat
    BY BatchIs, PartsAre
<1>1. Started' = Started /\ Settled' = Settled
    BY DEF Started, Settled
<1>2. \A i \in 1..Settled : child'[i] = child[i]
    BY <1>0 DEF FlightInv, Entries, Ended
<1>3. \A outcomes : SettledAs(outcomes)' = SettledAs(outcomes)
    BY <1>1, <1>2, SettledSame
<1>4. TypeOK'
    BY DEF TypeOK
<1>5. FlightInv'
    BY <1>1, <1>2 DEF FlightInv, Ended
<1>6. CountInv'
    BY <1>1, <1>3 DEF CountInv
<1>7. LimitInv'
    BY <1>0, PartsAre, BatchAssumption DEF LimitInv, TypeOK
<1>8. PauseInv'
    BY PauseSame DEF TypeOK
<1> QED
    BY <1>4, <1>5, <1>6, <1>7, <1>8

LEMMA HandleResolvesStep == IInv /\ HandleResolves => IInv'
<1> SUFFICES ASSUME IInv, HandleResolves PROVE IInv'
    OBVIOUS
<1> USE DEF IInv
<1> DEFINE next == Settled + 1
<1>0. /\ Len(Batch) \in Nat /\ popped \in 0..Len(Batch) /\ Started = popped
      /\ Len(inFlight) \in 1..popped /\ polled \in 0..Len(inFlight) - 1
      /\ Settled \in 0..popped - 1
      /\ Settled = popped - Len(inFlight) + polled
      /\ inFlight[polled + 1] = next /\ next \in Entries
    BY BatchIs, PartsAre
       DEF HandleResolves, FlightInv, Started, Settled
<1>1. /\ child[next] \in Ended /\ counts' = Counted(child[next])
      /\ UNCHANGED <<paused, maxConcurrent, popped, child, single, highest,
                     afterPause>>
    BY <1>0 DEF HandleResolves
<1>2. \/ /\ polled + 1 < Len(inFlight) /\ polled' = polled + 1
         /\ UNCHANGED <<loc, inFlight>>
      \/ /\ polled + 1 = Len(inFlight) /\ polled' = 0 /\ inFlight' = <<>>
         /\ \/ loc' = "waiting"
            \/ loc' = "returned" /\ popped = Len(Batch)
    BY <1>0 DEF HandleResolves, OuterLoop
<1>3. /\ Started' = popped /\ Settled' = Settled + 1
    BY <1>0, <1>1, <1>2 DEF HandleResolves, Started, Settled
<1>4. \A outcomes : Cardinality(SettledAs(outcomes)') =
         Cardinality(SettledAs(outcomes))
            + (IF child[next] \in outcomes THEN 1 ELSE 0)
    BY <1>1, <1>3, SettledNext
<1>5. TypeOK'
    <2>1. counts.in_flight > 0
        BY <1>0 DEF CountInv
    <2>2. counts' \in Counts
        <3>1. counts \in Counts
            BY DEF TypeOK, Counts
        <3> QED
            BY <1>1, <2>1, <3>1, CountsType
    <2>3. polled' \in 0..Len(Batch) /\ inFlight' \in Seq(Entries)
        <3>1. inFlight \in Seq(Entries) /\ polled + 1 \in 0..Len(Batch)
            BY <1>0 DEF TypeOK
        <3>2. CASE polled + 1 < Len(inFlight) /\ polled' = polled + 1
                   /\ inFlight' = inFlight
            BY <3>1, <3>2
        <3>3. CASE polled' = 0 /\ inFlight' = <<>>
            BY <1>0, <3>3
        <3> QED
            BY <1>2, <3>2, <3>3
    <2> QED
        BY <1>1, <1>2, <2>2, <2>3 DEF TypeOK, Counts
<1>6. FlightInv'
    <2>1. \A i \in 1..Settled' : child'[i] \in Ended
        BY <1>0, <1>1, <1>3 DEF FlightInv
    <2>2. /\ Started' \in 0..popped' /\ Len(inFlight') <= Started'
          /\ \A i \in Entries : child'[i] = "none" <=> i > Started'
        BY <1>0, <1>1, <1>2, <1>3 DEF FlightInv
    <2>3. \A k \in 1..Len(inFlight') :
             inFlight'[k] = Started' - Len(inFlight') + k
        <3>1. CASE inFlight' = inFlight
            BY <1>0, <1>3, <3>1 DEF FlightInv
        <3>2. CASE inFlight' = <<>>
            BY <3>2
        <3> QED
            BY <1>2, <3>1, <3>2
    <2>4. /\ IF loc' = "polling" THEN polled' < Len(inFlight') ELSE polled' = 0
          /\ loc' # "begin"
          /\ loc' = "returned" => popped' = Len(Batch) /\ inFlight' = <<>>
        BY <1>0, <1>1, <1>2 DEF HandleResolves
    <2> QED
        BY <2>1, <2>2, <2>3, <2>4 DEF FlightInv
<1>7. CountInv'
    <2>1. counts'.managed = Cardinality(SettledAs({"success"})')
        BY <1>1, <1>4 DEF Counted, CountInv, TypeOK
    <2>2. counts'.failed = Cardinality(SettledAs({"rejected", "error"})')
        BY <1>1, <1>4 DEF Counted, CountInv, Ended, TypeOK
    <2>3. counts'.pending = counts.pending
          /\ counts'.in_flight = popped - Settled'
        BY <1>0, <1>1, <1>3 DEF Counted, CountInv, TypeOK
    <2> QED
        BY <1>1, <1>2, <2>1, <2>2, <2>3 DEF HandleResolves, CountInv
<1>8. LimitInv'
    BY <1>0, <1>1, <1>2, BatchAssumption DEF HandleResolves, LimitInv, TypeOK
<1>9. PauseInv'
    <2>1. loc' \notin {"starting", "sleeping"}
        BY <1>2 DEF HandleResolves
    <2>2. highest' = highest /\ highest \in Int /\ highest <= highest'
        BY <1>1 DEF TypeOK
    <2> QED
        BY <1>1, <2>1, <2>2, PauseSame
<1> QED
    BY <1>5, <1>6, <1>7, <1>8, <1>9

\* Signals change the pause and the limit only.
LEMMA SignalStep ==
    ASSUME IInv, Pause \/ Resume \/ \E limit \in Rates : AdjustRate(limit)
    PROVE  IInv'
<1> USE DEF IInv
<1>1. /\ UNCHANGED <<loc, popped, inFlight, polled, counts, child, single>>
      /\ paused' \in BOOLEAN /\ maxConcurrent' \in Int /\ highest' \in Int
      /\ highest <= highest'
      /\ loc # "begin" => maxConcurrent' <= highest'
      /\ \/ afterPause' = afterPause /\ (paused' = paused \/ paused')
         \/ afterPause' = 0
    <2>1. CASE Pause \/ Resume
        <3>1. highest \in Int /\ (loc # "begin" => maxConcurrent <= highest)
            BY DEF TypeOK, LimitInv
        <3>2. UNCHANGED <<loc, maxConcurrent, popped, inFlight, polled, counts,
                          child, single, highest>>
            BY <2>1 DEF Pause, Resume
        <3>3. paused' \in BOOLEAN
            BY <2>1 DEF Pause, Resume
        <3>4. maxConcurrent \in Int
            BY DEF TypeOK
        <3>5. (afterPause' = afterPause /\ paused') \/ afterPause' = 0
            BY <2>1 DEF Pause, Resume
        <3> QED
            BY <3>1, <3>2, <3>3, <3>4, <3>5
    <2>2. ASSUME NEW limit \in Rates, AdjustRate(limit)
          PROVE  /\ maxConcurrent' = limit /\ limit \in Int /\ highest \in Int
                 /\ highest' = IF loc # "begin" /\ limit > highest
                               THEN limit ELSE highest
                 /\ UNCHANGED <<loc, paused, popped, inFlight, polled, counts,
                                child, single, afterPause>>
        BY <2>2, BatchAssumption DEF AdjustRate, TypeOK
    <2> QED
        BY <2>1, <2>2 DEF TypeOK
<1>2. /\ FlightInv' /\ Settled' = Settled
      /\ \A outcomes : SettledAs(outcomes)' = SettledAs(outcomes)
    BY <1>1, BatchSame DEF FlightInv
<1>3. PauseInv' /\ afterPause' \in Nat
    BY <1>1, PauseSame
<1>4. TypeOK'
    BY <1>1, <1>3 DEF TypeOK
<1>5. CountInv'
    BY <1>1, <1>2 DEF CountInv
<1>6. LimitInv'
    BY <1>1, PartsAre, BatchAssumption DEF LimitInv, TypeOK
<1> QED
    BY <1>2, <1>3, <1>4, <1>5, <1>6

\* The API takes an id that is free, or gives one back.
LEMMA SingleStep ==
    ASSUME IInv, NEW s \in Sites, SingleStarts(s) \/ SingleEnds(s)
    PROVE  IInv'
<1> USE DEF IInv
<1>1. /\ UNCHANGED <<loc, paused, maxConcurrent, popped, inFlight, polled,
                     counts, child, highest, afterPause>>
      /\ single' \subseteq Sites
    BY DEF SingleStarts, SingleEnds, TypeOK
<1>2. /\ FlightInv' /\ Settled' = Settled
      /\ \A outcomes : SettledAs(outcomes)' = SettledAs(outcomes)
    BY <1>1, BatchSame DEF FlightInv
<1>3. TypeOK' /\ CountInv' /\ LimitInv'
    BY <1>1, <1>2 DEF TypeOK, CountInv, LimitInv
<1>4. PauseInv'
    BY <1>1, PauseSame DEF TypeOK
<1> QED
    BY <1>2, <1>3, <1>4

LEMMA InvStep == IInv /\ [Next]_vars => IInv'
<1> SUFFICES ASSUME IInv, [Next]_vars PROVE IInv'
    OBVIOUS
<1>1. CASE Begin \/ ChildStarts \/ HandleResolves
    BY <1>1, BeginStep, ChildStartsStep, HandleResolvesStep
<1>2. CASE PassPausePoint \/ SleepEnds
    BY <1>2, InnerLoopStep DEF PassPausePoint, SleepEnds
<1>3. CASE ChildConflicts
    <2>1. /\ child' \in [Entries -> {"none", "running"} \cup Ended]
          /\ \A i \in Entries :
                \/ child'[i] = child[i]
                \/ child[i] = "running" /\ child'[i] \in Ended
        BY <1>3 DEF ChildConflicts, IInv, TypeOK, Ended
    <2> QED
        BY <1>3, <2>1, ChildrenEnd DEF ChildConflicts
<1>4. ASSUME NEW i \in Entries, NEW outcome \in Ended, ChildEnds(i, outcome)
      PROVE  IInv'
    <2>1. /\ child' \in [Entries -> {"none", "running"} \cup Ended]
          /\ \A j \in Entries :
                \/ child'[j] = child[j]
                \/ child[j] = "running" /\ child'[j] \in Ended
        BY <1>4 DEF ChildEnds, IInv, TypeOK
    <2> QED
        BY <1>4, <2>1, ChildrenEnd DEF ChildEnds
<1>5. CASE Pause \/ Resume \/ \E limit \in Rates : AdjustRate(limit)
    BY <1>5, SignalStep
<1>6. CASE \E s \in Sites : SingleStarts(s) \/ SingleEnds(s)
    BY <1>6, SingleStep
<1>7. CASE UNCHANGED vars
    BY <1>7, BatchSame
       DEF vars, IInv, TypeOK, FlightInv, CountInv, LimitInv, PauseInv,
           PauseTakesHold
<1> QED
    BY <1>1, <1>2, <1>3, <1>4, <1>5, <1>6, <1>7 DEF Next, Run

LEMMA InvInit == Init => IInv
<1> SUFFICES ASSUME Init PROVE IInv
    OBVIOUS
<1>0. /\ Started = 0 /\ Len(inFlight) = 0 /\ Settled = 0
      /\ Len(Batch) \in Nat /\ popped = 0
    BY BatchIs DEF Init, Started, Settled
<1>1. TypeOK
    <2>1. inFlight \in Seq(Entries) /\ popped \in 0..Len(Batch)
          /\ polled \in 0..Len(Batch)
        BY <1>0 DEF Init
    <2>2. highest \in Int
        BY BatchAssumption DEF Init
    <2>3. /\ counts \in Counts /\ maxConcurrent \in Int
          /\ child \in [Entries -> {"none", "running"} \cup Ended]
        BY DEF Init, Counts
    <2> QED
        BY <2>1, <2>2, <2>3 DEF Init, TypeOK, Counts
<1>2. FlightInv
    BY <1>0 DEF Init, FlightInv, Entries
<1>3. CountInv
    <2>1. \A outcomes : SettledAs(outcomes) = {}
        BY <1>0 DEF SettledAs
    <2>2. \A outcomes : Cardinality(SettledAs(outcomes)) = 0
        BY <2>1, FS_EmptySet
    <2> QED
        BY <1>0, <2>2 DEF Init, CountInv
<1>4. LimitInv
    BY <1>0, BatchAssumption DEF Init, LimitInv
<1>5. PauseInv
    BY DEF Init, PauseInv, PauseTakesHold
<1> QED
    BY <1>1, <1>2, <1>3, <1>4, <1>5 DEF IInv

\* The inductive invariant holds throughout, so its parts do.
THEOREM Inductive == Spec => []IInv
BY InvInit, InvStep, PTL DEF Spec

-----------------------------------------------------------------------------
(* What follows.                                                           *)

\* The attributes of the workflow, the locals of run() and the executions
\* keep their types; no counter drops below zero (bulk_onboarding.py, _counts).
THEOREM TypeCorrect == Spec => []TypeOK
<1>1. IInv => TypeOK
    BY DEF IInv
<1> QED
    BY Inductive, <1>1, PTL

\* A child that runs is one that was started and not awaited.
LEMMA RunningSize ==
    ASSUME IInv
    PROVE  /\ Cardinality(Running) \in Nat
           /\ Cardinality(Running) <= Started - Settled
<1>0. Settled \in 0..Started /\ Started \in 0..Len(Batch) /\ Len(Batch) \in Nat
    BY BatchIs, PartsAre DEF IInv
<1>1. Running \subseteq Settled + 1..Started
    BY <1>0 DEF IInv, FlightInv, Running, Entries, Ended
<1>2. /\ IsFiniteSet(Settled + 1..Started)
      /\ Cardinality(Settled + 1..Started) = Started - Settled
    <2>1. Settled \in Nat /\ Started \in Nat /\ Settled <= Started
        BY <1>0
    <2> QED
        BY <2>1, IntervalSize
<1> QED
    BY <1>1, <1>2, FS_Subset, FS_CardinalityType

\* Every settled child ended in one of the ways that are counted.
LEMMA SettledSum ==
    ASSUME IInv
    PROVE  Cardinality(SettledAs({"success"}))
              + Cardinality(SettledAs({"rejected", "error"})) = Settled
<1> DEFINE S == SettledAs({"success"})
           T == SettledAs({"rejected", "error"})
<1>0. Settled \in Nat
    BY PartsAre DEF IInv
<1>1. S \cup T = 1..Settled
    BY DEF IInv, FlightInv, SettledAs, Ended
<1>2. S \cap T = {}
    BY DEF SettledAs
<1>3. /\ IsFiniteSet(S) /\ IsFiniteSet(T)
      /\ Cardinality(S) \in Nat /\ Cardinality(T) \in Nat
    BY SettledFinite DEF IInv
<1>4. Cardinality(1..Settled) = Settled
    <2>1. Cardinality(0 + 1..Settled) = Settled - 0
        BY <1>0, IntervalSize
    <2> QED
        BY <1>0, <2>1
<1>5. Cardinality(S \cup T) =
         Cardinality(S) + Cardinality(T) - Cardinality({})
    BY <1>2, <1>3, FS_Union
<1> HIDE DEF S, T
<1>6. Cardinality({}) = 0
    BY FS_EmptySet
<1>7. Cardinality(S) + Cardinality(T) = Settled
    <2>1. Cardinality(S \cup T) = Settled
        BY <1>1, <1>4
    <2>2. Cardinality(S \cup T) = Cardinality(S) + Cardinality(T) - 0
        BY <1>5, <1>6
    <2> QED
        BY <1>3, <2>1, <2>2
<1> QED
    BY <1>7 DEF S, T

\* At every moment get_status tells the truth: what it counts as managed or
\* failed has a child that ended so, every running child is among those in
\* flight, and the four counters add up to the batch, for any batch with any
\* repetitions (get_status, _counts of bulk_onboarding.py).
THEOREM StatusTrue == Spec => []StatusIsTrue
<1>1. IInv => StatusIsTrue
    <2> SUFFICES ASSUME IInv PROVE StatusIsTrue
        OBVIOUS
    <2> DEFINE EndedAs(outcomes) == {i \in Entries : child[i] \in outcomes}
    <2>0. /\ Settled \in 0..Started /\ Started \in 0..popped
          /\ popped \in 0..Len(Batch) /\ Len(Batch) \in Nat
        BY BatchIs, PartsAre DEF IInv
    <2>1. ASSUME NEW outcomes, NEW more, outcomes \subseteq more
          PROVE  Cardinality(SettledAs(outcomes)) <= Cardinality(EndedAs(more))
        <3>1. SettledAs(outcomes) \in SUBSET EndedAs(more)
            BY <2>0, <2>1 DEF SettledAs, Entries
        <3>2. IsFiniteSet(EndedAs(more))
            <4>1. IsFiniteSet(Entries)
                BY <2>0, FS_Interval DEF Entries
            <4> QED
                BY <4>1, FS_Subset
        <3> QED
            BY <3>1, <3>2, FS_Subset
    <2>2. counts.managed <= Cardinality({i \in Entries : child[i] = "success"})
        <3>1. EndedAs({"success"}) = {i \in Entries : child[i] = "success"}
            OBVIOUS
        <3>2. Cardinality(SettledAs({"success"}))
                 <= Cardinality(EndedAs({"success"}))
            BY <2>1
        <3> QED
            BY <3>1, <3>2 DEF IInv, CountInv
    <2>3. counts.failed <=
             Cardinality({i \in Entries : child[i] \in {"rejected", "error"}})
        <3>1. Cardinality(SettledAs({"rejected", "error"}))
                 <= Cardinality(EndedAs({"rejected", "error"}))
            BY <2>1
        <3> QED
            BY <3>1 DEF IInv, CountInv
    <2>4. counts.in_flight >= Cardinality(Running)
        BY <2>0, RunningSize DEF IInv, CountInv
    <2>5. loc # "begin" =>
             counts.pending + counts.in_flight + counts.managed + counts.failed
               = Len(Batch)
        <3>1. counts.managed + counts.failed = Settled
            BY SettledSum DEF IInv, CountInv
        <3>2. counts.managed \in Nat /\ counts.failed \in Nat
            BY DEF IInv, TypeOK
        <3> QED
            BY <2>0, <3>1, <3>2 DEF IInv, CountInv
    <2> QED
        BY <2>2, <2>3, <2>4, <2>5 DEF StatusIsTrue
<1> QED
    BY Inductive, <1>1, PTL

\* A batch that returns has waited for the child of every entry, and its
\* result has the numbers of those that succeeded and that did not (run(),
\* _poll_children).
THEOREM ResultTrue == Spec => []ResultIsTrue
<1>1. IInv => ResultIsTrue
    <2> SUFFICES ASSUME IInv, loc = "returned"
                 PROVE  /\ \A i \in Entries : child[i] \in Ended
                        /\ counts.managed =
                              Cardinality({i \in Entries : child[i] = "success"})
                        /\ counts.failed =
                              Cardinality({i \in Entries :
                                             child[i] \in {"rejected", "error"}})
        BY DEF ResultIsTrue
    <2>1. Settled = Len(Batch)
        <3>1. popped = Len(Batch) /\ Len(inFlight) = 0 /\ polled = 0
            BY DEF IInv, FlightInv
        <3> QED
            BY <3>1, BatchIs DEF Settled, Started
    <2>2. /\ SettledAs({"success"}) = {i \in Entries : child[i] = "success"}
          /\ SettledAs({"rejected", "error"}) =
                {i \in Entries : child[i] \in {"rejected", "error"}}
        BY <2>1 DEF SettledAs, Entries
    <2> QED
        BY <2>1, <2>2 DEF IInv, CountInv, FlightInv, Entries
<1> QED
    BY Inductive, <1>1, PTL

\* The children that run never outnumber the highest limit that was in force,
\* whatever the operators signal between the test of the inner loop and the
\* start of the child (adjust_rate, run()).
THEOREM WithinLimit == Spec => []RunningWithinLimit
<1>1. IInv => RunningWithinLimit
    <2> SUFFICES ASSUME IInv PROVE RunningWithinLimit
        OBVIOUS
    <2>1. /\ Len(inFlight) \in Nat /\ polled \in Nat /\ Started \in Nat
          /\ highest \in Int
        BY PartsAre, BatchIs DEF IInv, TypeOK
    <2>2. Cardinality(Running) \in Nat /\ Cardinality(Running) <= Len(inFlight)
        BY <2>1, RunningSize DEF Settled
    <2>3. Len(inFlight) <= highest
        BY <2>1 DEF IInv, LimitInv
    <2> QED
        BY <2>1, <2>2, <2>3 DEF RunningWithinLimit
<1> QED
    BY Inductive, <1>1, PTL

\* However often operators pause and resume a batch and change its limit, a
\* pause takes hold: the entries that are taken while it lasts are fewer than
\* the highest limit that was in force (the pause point and the inner loop of
\* run()).
THEOREM PauseHolds == Spec => []PauseTakesHold
<1>1. IInv => PauseTakesHold
    BY DEF IInv, PauseInv
<1> QED
    BY Inductive, <1>1, PTL

=============================================================================

--------------------------- MODULE DataPathProofs ---------------------------
(***************************************************************************)
(* Proofs about DataPath, for every set of payloads and every router: what *)
(* a validation reports, and what a push delivers, whatever the attempts   *)
(* do that break off, start over or go on late.                            *)
(***************************************************************************)
EXTENDS RenderingProofs

-----------------------------------------------------------------------------
(* The validation.                                                         *)

\* What is wrong with the interfaces as they are read now is what is wrong
\* with them now, and no name of an interface is that of the peer.
LEMMA ReadIsFaults ==
    ASSUME payload \in Payloads,
           NEW live, DOMAIN live = Hardware,
           \A n \in Hardware : live[n] <=> IsUp(n)
    PROVE  /\ Faults \cap Names = Wrong(Parse(payload), live)
           /\ Faults \ Names = {q \in {payload.peer} \ {None} : ~PeerIsUp(q)}
<1> DEFINE links ==
        {i.name : i \in {j \in ToSet(payload.interfaces) :
                            \/ j.name \notin Hardware
                            \/ j.enabled /\ ~IsUp(j.name)}}
           peers == {q \in {payload.peer} \ {None} : ~PeerIsUp(q)}
<1>1. Faults = links \cup peers
  BY DEF Faults
<1>2. /\ payload.peer \notin Names
      /\ \A k \in DOMAIN payload.interfaces :
            /\ payload.interfaces[k].name \in Names
            /\ payload.interfaces[k].enabled \in BOOLEAN
  <2>1. /\ payload.peer \notin Names
        /\ \A i \in ToSet(payload.interfaces) :
              i.name \in Names /\ i.enabled \in BOOLEAN
    BY DataPathAssumption
  <2> QED
    BY <2>1 DEF ToSet
<1>3. links \subseteq Names
  BY <1>2 DEF ToSet
<1>4. peers \cap Names = {}
  BY <1>2
<1>5. links = Wrong(Parse(payload), live)
  <2>1. /\ DOMAIN Parse(payload).interfaces = DOMAIN payload.interfaces
        /\ \A k \in DOMAIN payload.interfaces :
              /\ Parse(payload).interfaces[k].name = payload.interfaces[k].name
              /\ Parse(payload).interfaces[k].enabled
                    = payload.interfaces[k].enabled
    BY DEF Parse, InterfaceIntent
  <2>2. ASSUME NEW n \in links
        PROVE  n \in Wrong(Parse(payload), live)
    <3>1. PICK k \in DOMAIN payload.interfaces :
              /\ n = payload.interfaces[k].name
              /\ \/ n \notin Hardware
                 \/ payload.interfaces[k].enabled /\ ~IsUp(n)
      BY DEF ToSet
    <3>2. CASE n \notin Hardware
      BY <2>1, <3>1, <3>2 DEF Wrong, Missing
    <3>3. CASE n \in Hardware
      BY <2>1, <3>1, <3>3 DEF Wrong, Down
    <3> QED
      BY <3>2, <3>3
  <2>3. ASSUME NEW n \in Wrong(Parse(payload), live)
        PROVE  n \in links
    <3>1. PICK k \in DOMAIN payload.interfaces :
              /\ n = payload.interfaces[k].name
              /\ \/ n \notin Hardware
                 \/ payload.interfaces[k].enabled /\ ~IsUp(n)
      BY <2>1 DEF Wrong, Missing, Down
    <3> QED
      BY <3>1 DEF ToSet
  <2> QED
    BY <2>2, <2>3
<1> HIDE DEF links, peers
<1>6. /\ Faults \cap Names = Wrong(Parse(payload), live)
      /\ Faults \ Names = peers
  BY <1>1, <1>3, <1>4, <1>5
<1> QED
  BY <1>6 DEF peers

\* A step that changes neither the router nor the links changes no fault.
LEMMA FaultsStay ==
    ASSUME UNCHANGED <<payload, router, up>>
    PROVE  Faults' = Faults
BY DEF Faults, IsUp, PeerIsUp

\* A step outside the validation disturbs nothing about it.
LEMMA OutsideValidation ==
    ASSUME ValidationInv,
           UNCHANGED <<payload, booted>>,
           pc' \in {"fetch", "render", "push", "failed"},
           pc' # "failed" => intent' = Parse(payload) /\ ~Refused(payload),
           pc' = "push" => ~Raises(intent')
    PROVE  ValidationInv'
BY DEF ValidationInv, IntentInv, WindowInv, ReadInv, DriftIsBounded

\* When the device is opened, the faults of the moment are all there are.
LEMMA OpenValidates ==
    ASSUME ValidationInv, Open,
           UNCHANGED <<payload, booted, router, up>>,
           intent' = Parse(payload), ~Refused(payload)
    PROVE  ValidationInv'
<1>1. Faults' = Faults
  BY FaultsStay
<1> QED
  BY <1>1
  DEF Open, ValidationInv, IntentInv, WindowInv, ReadInv, DriftIsBounded

\* While the validation lasts the router and its links may change: the history
\* takes note of what is wrong after it.
LEMMA FaultsChange ==
    ASSUME ValidationInv,
           UNCHANGED <<payload, pc, intent, seen, drift, booted>>,
           pc \in {"push", "read_interfaces", "read_peers"},
           steady' = steady \cap Faults', ever' = ever \cup Faults'
    PROVE  ValidationInv'
<1>1. IntentInv'
  BY DEF ValidationInv, IntentInv
<1>2. WindowInv'
  BY DEF ValidationInv, WindowInv
<1>3. ReadInv'
  <2>1. Wrong(intent, seen)' = Wrong(intent, seen)
    BY DEF Wrong, Missing, Down
  <2> QED
    BY <2>1 DEF ValidationInv, ReadInv
<1>4. DriftIsBounded'
  BY DEF DriftIsBounded
<1> QED
  BY <1>1, <1>2, <1>3, <1>4 DEF ValidationInv

\* The first read is about the faults of its moment.
LEMMA InterfacesAreRead == ValidationInv /\ ReadInterfaces => ValidationInv'
<1> SUFFICES ASSUME ValidationInv, ReadInterfaces
             PROVE  ValidationInv'
  OBVIOUS
<1>1. /\ intent = Parse(payload) /\ payload \in Payloads
      /\ steady \subseteq Faults /\ Faults \subseteq ever
  BY DEF ValidationInv, IntentInv, WindowInv, ReadInterfaces
<1>2. DOMAIN seen' = Hardware /\ \A n \in Hardware : seen'[n] <=> IsUp(n)
  BY DEF ReadInterfaces
<1>3. Faults \cap Names = Wrong(Parse(payload), seen')
  BY <1>1, <1>2, ReadIsFaults
<1>4. Faults' = Faults
  BY FaultsStay DEF ReadInterfaces
<1>5. ReadInv'
  <2>1. Wrong(intent, seen)' = Wrong(Parse(payload), seen')
    BY <1>1 DEF ReadInterfaces, Wrong, Missing, Down
  <2> QED
    BY <1>1, <1>2, <1>3, <2>1 DEF ReadInterfaces, history, ReadInv
<1>6. IntentInv' /\ WindowInv' /\ DriftIsBounded'
  BY <1>1, <1>4 DEF ReadInterfaces, history, ValidationInv, IntentInv,
                    WindowInv, DriftIsBounded
<1> QED
  BY <1>5, <1>6 DEF ValidationInv

\* The second read adds the fault of the peer at its moment, and what lasts
\* all the while is among one or the other.
LEMMA PeersAreRead == ValidationInv /\ ReadPeers => ValidationInv'
<1> SUFFICES ASSUME ValidationInv, ReadPeers
             PROVE  ValidationInv'
  OBVIOUS
<1>1. /\ intent = Parse(payload) /\ payload \in Payloads
      /\ steady \subseteq Faults /\ Faults \subseteq ever
      /\ steady \cap Names \subseteq Wrong(intent, seen)
      /\ Wrong(intent, seen) \subseteq ever
  BY DEF ValidationInv, IntentInv, WindowInv, ReadInv, ReadPeers
<1>2. Faults \ Names = {q \in {payload.peer} \ {None} : ~PeerIsUp(q)}
  <2> DEFINE live == [n \in Hardware |-> IsUp(n)]
  <2>1. DOMAIN live = Hardware /\ \A n \in Hardware : live[n] <=> IsUp(n)
    OBVIOUS
  <2> HIDE DEF live
  <2> QED
    BY <1>1, <2>1, ReadIsFaults
<1>3. intent.peer = payload.peer
  BY <1>1 DEF Parse
<1>4. drift' = Wrong(intent, seen) \cup (Faults \ Names)
  BY <1>2, <1>3 DEF ReadPeers, Diff, Wrong
<1>5. steady \subseteq drift' /\ drift' \subseteq ever
  BY <1>1, <1>4
<1> QED
  BY <1>5 DEF ReadPeers, history, ValidationInv, IntentInv, WindowInv,
              ReadInv, DriftIsBounded

LEMMA ValidationInit == Init => ValidationInv
BY DataPathAssumption
DEF Init, ValidationInv, IntentInv, WindowInv, ReadInv, DriftIsBounded

LEMMA ValidationStep == ValidationInv /\ [Next]_vars => ValidationInv'
<1> SUFFICES ASSUME ValidationInv, [Next]_vars
             PROVE  ValidationInv'
  OBVIOUS
<1>0. pc \notin {"fetch", "failed"} =>
         intent = Parse(payload) /\ ~Refused(payload)
  BY DEF ValidationInv, IntentInv
<1>1. CASE FetchFails
  BY <1>1, OutsideValidation DEF FetchFails, Unread
<1>2. CASE FetchCompletes
  <2>1. CASE Open
    BY <1>2, <2>1, OpenValidates DEF FetchCompletes, Unread
  <2>2. CASE ~Open
    BY <1>2, <2>2, OutsideValidation DEF FetchCompletes, Unread
  <2> QED
    BY <2>1, <2>2
<1>a. pc = "push" => ~Raises(intent)
  BY DEF ValidationInv, IntentInv
<1>b. CASE RenderFails
  BY <1>b, OutsideValidation DEF RenderFails, Unread
<1>3. CASE RenderCompletes
  BY <1>0, <1>3, OutsideValidation DEF RenderCompletes, Unread
<1>4. CASE PushDelivers
  BY <1>0, <1>a, <1>4, OutsideValidation DEF PushDelivers, Unread
<1>5. CASE PushCompletes
  BY <1>0, <1>5, OpenValidates DEF PushCompletes, Unread
<1>6. CASE PushBreaksOff
  BY <1>0, <1>a, <1>6, OutsideValidation DEF PushBreaksOff, Unread
<1>7. CASE PushTimesOut
  BY <1>0, <1>a, <1>7, OutsideValidation DEF PushTimesOut, Unread
<1>8. CASE PushFails
  BY <1>8, OutsideValidation DEF PushFails, Unread
<1>9. CASE LateDelivers
  BY <1>9, FaultsChange DEF LateDelivers, Unread
<1>10. CASE ReadInterfaces
  BY <1>10, InterfacesAreRead
<1>11. CASE ReadPeers
  BY <1>11, PeersAreRead
<1>12. ASSUME NEW x, Flap(x)
       PROVE  ValidationInv'
  BY <1>12, FaultsChange DEF Flap
<1>13. CASE UNCHANGED vars
  <2>1. UNCHANGED Faults /\ UNCHANGED Wrong(intent, seen)
    BY <1>13, FaultsStay DEF vars, history, Wrong, Missing, Down
  <2> QED
    BY <1>13, <2>1 DEF vars, history, ValidationInv, IntentInv, WindowInv,
                       ReadInv, DriftIsBounded
<1> QED
  BY <1>1, <1>2, <1>b, <1>3, <1>4, <1>5, <1>6, <1>7, <1>8, <1>9, <1>10,
     <1>11, <1>12, <1>13 DEF Next

\* What a validation reports lies between the faults that lasted through it and
\* those there were at some time of it, although its two reads see the router
\* of two moments and a late attempt may still be changing it
\* (validation_activities.py, get_interfaces and get_bgp_neighbors).
THEOREM DriftBounded == Spec => []DriftIsBounded
<1>1. ValidationInv => DriftIsBounded
  BY DEF ValidationInv
<1> QED
  BY <1>1, ValidationInit, ValidationStep, PTL DEF Spec


-----------------------------------------------------------------------------
(* The push.                                                               *)

\* The delivery of a line that is asked for: what holds goes on holding, and
\* nothing arrives but what is asked for.
LEMMA DeliveryPreserves ==
    ASSUME payload \in Payloads, ~Refused(payload),
           IsConfig(router), MgmtInv, OnlyTheAskedArrives,
           NEW a \in Said(payload), Accepts(a), router' = Apply(router, a),
           UNCHANGED <<payload, was, booted>>
    PROVE  /\ IsConfig(router')
           /\ Holds(router', a)
           /\ \A b \in Said(payload) :
                 Accepts(b) /\ Holds(router, b) => Holds(router', b)
           /\ MgmtInv'
           /\ OnlyTheAskedArrives'
<1>1. IsConfig(router') /\ Delivered(a, router, router')
  BY Applied
<1>2. Holds(router', a)
  BY <1>1, DeliveredHolds
<1>3. ASSUME NEW b \in Said(payload), Accepts(b), Holds(router, b)
      PROVE  Holds(router', b)
  BY <1>1, <1>3, DeliveredKeeps
<1>4. MgmtInv'
  <2>1. CASE a.do = "address" /\ a.at = Mgmt
    <3>1. NamesMgmt(payload)
      BY <2>1, SaidOfMgmt
    <3> QED
      BY <3>1 DEF MgmtInv
  <2>2. CASE ~(a.do = "address" /\ a.at = Mgmt)
    <3>1. router'.address[Mgmt] = router.address[Mgmt]
      BY <1>1, <2>2, DataPathAssumption DEF Delivered
    <3> QED
      BY <3>1 DEF MgmtInv
  <2> QED
    BY <2>1, <2>2
<1>5. a = [do |-> a.do, at |-> a.at, to |-> a.to]
  BY SaidLines
<1>a. a.do # "network" => a \in Asked(payload)
  BY SaidIsAsked
<1>b. ASSUME NEW v \in SymDiff(router'.vlans, was.vlans)
      PROVE  /\ v \in router'.vlans /\ v \in 1..4094
             /\ [do |-> "vlan", at |-> v, to |-> v] \in Asked(payload)
  <2>1. CASE v \in SymDiff(router.vlans, was.vlans)
    <3>1. /\ v \in router.vlans /\ v \in 1..4094
          /\ [do |-> "vlan", at |-> v, to |-> v] \in Asked(payload)
      BY <2>1 DEF OnlyTheAskedArrives
    <3>2. v \in router'.vlans
      BY <1>1, <3>1 DEF Delivered
    <3> QED
      BY <3>1, <3>2
  <2>2. CASE v \notin SymDiff(router.vlans, was.vlans)
    <3>1. v \in router'.vlans /\ a.do = "vlan" /\ a.to = v
      BY <1>b, <1>1, <2>2 DEF Delivered, SymDiff
    <3>2. a.at = v /\ \E w \in ToSet(Tagged(payload)) : v = w.vid
      BY <3>1, SaidLines
    <3>3. v \in 1..4094
      BY <3>2, TaggedIsAccepted
    <3> QED
      BY <1>5, <1>a, <3>1, <3>2, <3>3
  <2> QED
    BY <2>1, <2>2
<1>6. ASSUME NEW v \in Vids, router'.names[v] # was.names[v]
      PROVE  [do |-> "name", at |-> v, to |-> router'.names[v]]
                \in Asked(payload)
  <2>1. CASE a.do = "name" /\ a.at = v
    <3>1. router'.names[v] = a.to
      BY <1>1, <2>1 DEF Delivered
    <3> QED
      BY <1>5, <1>a, <2>1, <3>1
  <2>2. CASE ~(a.do = "name" /\ a.at = v)
    <3>1. router'.names[v] = router.names[v]
      BY <1>1, <2>2 DEF Delivered
    <3> QED
      BY <1>6, <3>1 DEF OnlyTheAskedArrives
  <2> QED
    BY <2>1, <2>2
<1>7. ASSUME NEW n \in Hardware, router'.address[n] # was.address[n]
      PROVE  [do |-> "address", at |-> n, to |-> router'.address[n]]
                \in Asked(payload)
  <2>1. CASE a.do = "address" /\ a.at = n
    <3>1. router'.address[n] = a.to
      BY <1>1, <2>1 DEF Delivered
    <3> QED
      BY <1>5, <1>a, <2>1, <3>1
  <2>2. CASE ~(a.do = "address" /\ a.at = n)
    <3>1. router'.address[n] = router.address[n]
      BY <1>1, <2>2 DEF Delivered
    <3> QED
      BY <1>7, <3>1 DEF OnlyTheAskedArrives
  <2> QED
    BY <2>1, <2>2
<1>8. ASSUME NEW n \in SymDiff(router'.shut, was.shut)
      PROVE  [do |-> "shutdown", at |-> n, to |-> n \in router'.shut]
                \in Asked(payload)
  <2> DEFINE off == n \in router'.shut
             offBefore == n \in router.shut
  <2>1. CASE a.do = "shutdown" /\ a.at = n
    <3>1. [do |-> "shutdown", at |-> n, to |-> off] \in Said(payload)
      BY <1>1, <2>1, DeliveredSwitch
    <3> HIDE DEF off
    <3>2. [do |-> "shutdown", at |-> n, to |-> off] \in Asked(payload)
      BY <3>1, SaidIsAsked
    <3> QED
      BY <3>2 DEF off
  <2>2. CASE ~(a.do = "shutdown" /\ a.at = n)
    <3>1. off <=> offBefore
      <4>1. CASE a.do = "shutdown"
        BY <1>1, <2>2, <4>1, DeliveredSwitch
      <4>2. CASE a.do # "shutdown"
        BY <1>1, <4>2 DEF Delivered
      <4> QED
        BY <4>1, <4>2
    <3>2. n \in SymDiff(router.shut, was.shut)
      BY <3>1 DEF SymDiff
    <3>3. [do |-> "shutdown", at |-> n, to |-> offBefore] \in Asked(payload)
      BY <3>2 DEF OnlyTheAskedArrives
    <3>4. off = offBefore
      BY <3>1
    <3> HIDE DEF off, offBefore
    <3>5. [do |-> "shutdown", at |-> n, to |-> off] \in Asked(payload)
      BY <3>3, <3>4
    <3> QED
      BY <3>5 DEF off
  <2> QED
    BY <2>1, <2>2
<1>9. router'.peers \ was.peers \subseteq {payload.peer}
  <2>1. a.do = "neighbor" => a.to = payload.peer
    BY SaidLines
  <2>2. router.peers \ was.peers \subseteq {payload.peer}
    BY DEF OnlyTheAskedArrives
  <2> QED
    BY <1>1, <2>1, <2>2 DEF Delivered
<1>10. router'.networks \ was.networks
          \subseteq {Subnet(payload.primary), Meant(payload.primary)}
  <2>1. a.do = "network" => a.to = Meant(payload.primary)
    BY SaidLines
  <2>2. router.networks \ was.networks
           \subseteq {Subnet(payload.primary), Meant(payload.primary)}
    BY DEF OnlyTheAskedArrives
  <2> QED
    BY <1>1, <2>1, <2>2 DEF Delivered
<1>11. OnlyTheAskedArrives'
  BY <1>b, <1>6, <1>7, <1>8, <1>9, <1>10 DEF OnlyTheAskedArrives
<1> QED
  BY <1>1, <1>2, <1>3, <1>4, <1>11

LEMMA PushInit == Init => PushInv
<1> SUFFICES ASSUME Init
             PROVE  PushInv
  OBVIOUS
<1>1. booted \in Payloads /\ ~Refused(booted) /\ router \in SetUp(booted)
  BY DataPathAssumption DEF Init
<1>2. /\ IsConfig(router)
      /\ router.address[Mgmt] = Meant(booted.primary) \/ NamesMgmt(booted)
  BY <1>1, BootingExact
<1>3. OnlyTheAskedArrives
  <2>1. was = router
    BY DEF Init
  <2> QED
    BY <2>1 DEF OnlyTheAskedArrives, SymDiff
<1> QED
  BY <1>2, <1>3 DEF Init, PushInv, LinesInv, DeliveredInv, MgmtInv

\* What a payload is rendered into, when an attempt begins.
LEMMA AttemptBegins ==
    ASSUME ValidationInv, pc \in {"render", "push"}
    PROVE  /\ ~Refused(payload) /\ Raises(Parse(payload)) = Raises(intent)
           /\ ~Raises(intent) =>
                 /\ Render(intent) \in Seq(Said(payload))
                 /\ Said(payload) \subseteq ToSet(Render(intent))
<1>1. payload \in Payloads /\ ~Refused(payload) /\ intent = Parse(payload)
  BY DEF ValidationInv, IntentInv
<1> QED
  BY <1>1, RenderedIsSaid

\* A step that delivers nothing: the attempts hold lines of the payload, and
\* a push that goes on has them all delivered or under way.
DeliversNothing ==
    /\ UNCHANGED <<payload, router, was, booted>>
    /\ todo' \in Seq(Said(payload)) /\ late' \in Seq(Said(payload))
    /\ Refused(payload) \/ Raises(Parse(payload)) =>
          todo' = <<>> /\ late' = <<>>
    /\ pc' = "push" =>
          \/ pc = "push" /\ todo' = todo
          \/ Said(payload) \subseteq ToSet(todo')
    /\ pushed' => pushed \/ (pc = "push" /\ todo = <<>>)

LEMMA NothingDelivered ==
    ASSUME PushInv, DeliversNothing
    PROVE  PushInv'
<1>1. LinesInv'
  BY DEF DeliversNothing, PushInv, LinesInv
<1>2. DeliveredInv'
  <2>1. ASSUME pc' = "push", NEW a \in Said(payload)
        PROVE  a \in ToSet(todo') \/ (Accepts(a) /\ Holds(router, a))
    BY <2>1 DEF DeliversNothing, PushInv, DeliveredInv
  <2>2. ASSUME pushed', NEW a \in Said(payload)
        PROVE  Accepts(a) /\ Holds(router, a)
    <3>1. ToSet(<<>>) = {}
      BY DEF ToSet
    <3> QED
      BY <2>2, <3>1 DEF DeliversNothing, PushInv, DeliveredInv
  <2> QED
    BY <2>1, <2>2 DEF DeliversNothing, DeliveredInv
<1>3. MgmtInv' /\ OnlyTheAskedArrives'
  BY DEF DeliversNothing, PushInv, MgmtInv, OnlyTheAskedArrives
<1> QED
  BY <1>1, <1>2, <1>3 DEF PushInv

\* An attempt delivers its next line.
LEMMA AttemptDelivers ==
    ASSUME ValidationInv, PushInv, PushDelivers
    PROVE  PushInv'
<1> DEFINE a == Head(todo)
<1>1. /\ payload \in Payloads /\ ~Refused(payload)
      /\ ~Raises(Parse(payload))
      /\ a \in Said(payload) /\ Accepts(a)
  BY DEF ValidationInv, IntentInv, PushInv, LinesInv, PushDelivers
<1>2. /\ router' = Apply(router, a)
      /\ UNCHANGED <<payload, was, booted>>
  BY DEF PushDelivers, Unread
<1>3. /\ todo \in Seq(Said(payload)) /\ late \in Seq(Said(payload))
      /\ todo # <<>>
  BY DEF PushInv, LinesInv, PushDelivers
<1>4. ToSet(todo) \subseteq ToSet(Tail(todo)) \cup {a}
  <2>1. ASSUME NEW i \in 1..Len(todo), i # 1
        PROVE  i - 1 \in 1..Len(Tail(todo)) /\ todo[i] = Tail(todo)[i - 1]
    BY <1>3, <2>1
  <2>2. DOMAIN todo = 1..Len(todo) /\ DOMAIN Tail(todo) = 1..Len(Tail(todo))
    BY <1>3
  <2>3. todo[1] = a
    BY <1>3
  <2> HIDE DEF a
  <2> QED
    BY <2>1, <2>2, <2>3 DEF ToSet
<1> HIDE DEF a
<1>5. /\ IsConfig(router') /\ Holds(router', a)
      /\ \A b \in Said(payload) :
            Accepts(b) /\ Holds(router, b) => Holds(router', b)
      /\ MgmtInv' /\ OnlyTheAskedArrives'
  BY <1>1, <1>2, DeliveryPreserves DEF PushInv, LinesInv
<1>6. LinesInv'
  BY <1>1, <1>2, <1>3, <1>5 DEF PushDelivers, LinesInv
<1>7. DeliveredInv'
  <2>1. ASSUME NEW b \in Said(payload)
        PROVE  /\ b \in ToSet(todo') \/ (Accepts(b) /\ Holds(router', b))
               /\ pushed => Accepts(b) /\ Holds(router', b)
    <3>1. todo' = Tail(todo) /\ pc = "push"
      BY DEF PushDelivers
    <3> QED
      BY <1>1, <1>4, <1>5, <3>1 DEF PushInv, DeliveredInv
  <2> QED
    BY <1>2, <2>1 DEF PushDelivers, DeliveredInv
<1> QED
  BY <1>5, <1>6, <1>7 DEF PushInv

\* The thread of an attempt that has timed out delivers its next line.
LEMMA StragglerDelivers ==
    ASSUME ValidationInv, PushInv, LateDelivers
    PROVE  PushInv'
<1> DEFINE a == Head(late)
<1>1. /\ payload \in Payloads /\ ~Refused(payload)
      /\ ~Raises(Parse(payload))
      /\ a \in Said(payload) /\ Accepts(a)
  BY DEF ValidationInv, IntentInv, PushInv, LinesInv, LateDelivers
<1>2. /\ router' = Apply(router, a)
      /\ UNCHANGED <<payload, was, booted>>
  BY DEF LateDelivers, Unread
<1>3. /\ todo \in Seq(Said(payload)) /\ late \in Seq(Said(payload))
      /\ late # <<>>
  BY DEF PushInv, LinesInv, LateDelivers
<1> HIDE DEF a
<1>4. /\ IsConfig(router')
      /\ \A b \in Said(payload) :
            Accepts(b) /\ Holds(router, b) => Holds(router', b)
      /\ MgmtInv' /\ OnlyTheAskedArrives'
  BY <1>1, <1>2, DeliveryPreserves DEF PushInv, LinesInv
<1>5. LinesInv'
  BY <1>1, <1>2, <1>3, <1>4 DEF LateDelivers, LinesInv
<1>6. DeliveredInv'
  BY <1>2, <1>4 DEF LateDelivers, PushInv, DeliveredInv
<1> QED
  BY <1>4, <1>5, <1>6 DEF PushInv

LEMMA PushStep ==
    ASSUME ValidationInv, PushInv, [Next]_vars
    PROVE  PushInv'
<1>a. /\ todo \in Seq(Said(payload)) /\ late \in Seq(Said(payload))
      /\ Refused(payload) \/ Raises(Parse(payload)) =>
            todo = <<>> /\ late = <<>>
  BY DEF PushInv, LinesInv
<1>b. pc \in {"render", "push"} /\ ~Raises(intent) =>
         /\ ~Refused(payload) /\ ~Raises(Parse(payload))
         /\ Render(intent) \in Seq(Said(payload))
         /\ Said(payload) \subseteq ToSet(Render(intent))
  BY AttemptBegins
<1>c. pc = "push" => ~Raises(intent)
  BY DEF ValidationInv, IntentInv
<1>d. CASE RenderFails
  <2>1. DeliversNothing
    BY <1>a, <1>d DEF RenderFails, Unread, DeliversNothing
  <2> QED
    BY <2>1, NothingDelivered
<1>1. CASE FetchFails
  <2>1. DeliversNothing
    BY <1>a, <1>1 DEF FetchFails, Unread, DeliversNothing
  <2> QED
    BY <2>1, NothingDelivered
<1>2. CASE FetchCompletes
  <2>1. DeliversNothing
    BY <1>a, <1>2 DEF FetchCompletes, Open, Unread, DeliversNothing
  <2> QED
    BY <2>1, NothingDelivered
<1>3. CASE RenderCompletes
  <2>1. DeliversNothing
    BY <1>a, <1>b, <1>3 DEF RenderCompletes, Unread, DeliversNothing
  <2> QED
    BY <2>1, NothingDelivered
<1>4. CASE PushDelivers
  BY <1>4, AttemptDelivers
<1>5. CASE PushCompletes
  <2>1. DeliversNothing
    BY <1>a, <1>5 DEF PushCompletes, Open, Unread, DeliversNothing
  <2> QED
    BY <2>1, NothingDelivered
<1>6. CASE PushBreaksOff
  <2>1. DeliversNothing
    BY <1>a, <1>b, <1>c, <1>6 DEF PushBreaksOff, Unread, DeliversNothing
  <2> QED
    BY <2>1, NothingDelivered
<1>7. CASE PushTimesOut
  <2>1. DeliversNothing
    BY <1>a, <1>b, <1>c, <1>7 DEF PushTimesOut, Unread, DeliversNothing
  <2> QED
    BY <2>1, NothingDelivered
<1>8. CASE PushFails
  <2>1. DeliversNothing
    BY <1>a, <1>8 DEF PushFails, Unread, DeliversNothing
  <2> QED
    BY <2>1, NothingDelivered
<1>9. CASE LateDelivers
  BY <1>9, StragglerDelivers
<1>10. CASE ReadInterfaces
  <2>1. DeliversNothing
    BY <1>a, <1>10 DEF ReadInterfaces, history, DeliversNothing
  <2> QED
    BY <2>1, NothingDelivered
<1>11. CASE ReadPeers
  <2>1. DeliversNothing
    BY <1>a, <1>11 DEF ReadPeers, history, DeliversNothing
  <2> QED
    BY <2>1, NothingDelivered
<1>12. ASSUME NEW x, Flap(x)
       PROVE  PushInv'
  <2>1. DeliversNothing
    BY <1>a, <1>12 DEF Flap, DeliversNothing
  <2> QED
    BY <2>1, NothingDelivered
<1>13. CASE UNCHANGED vars
  <2>1. DeliversNothing
    BY <1>a, <1>13 DEF vars, history, DeliversNothing
  <2> QED
    BY <2>1, NothingDelivered
<1> QED
  BY <1>d, <1>1, <1>2, <1>3, <1>4, <1>5, <1>6, <1>7, <1>8, <1>9, <1>10,
     <1>11, <1>12, <1>13 DEF Next

\* DataInv holds throughout.
THEOREM DataInductive == Spec => []DataInv
<1>1. Init => DataInv
  BY ValidationInit, PushInit DEF DataInv
<1>2. DataInv /\ [Next]_vars => DataInv'
  BY ValidationStep, PushStep DEF DataInv
<1> QED
  BY <1>1, <1>2, PTL DEF Spec

\* When a push has been answered the router grants what Nautobot asks for,
\* however many attempts broke off, started over or went on beside it, but for
\* what the config leaves unsaid: the other names of a VLAN, the other addresses
\* of an interface and a network the primary address does not name.  And the
\* management interface is where Day 0 put it unless a payload names it
\* (ansible_activities.py, push_config, and the retries of provision_site.py).
THEOREM AskedIsPushed == Spec => []PushedIsAsked
<1>1. ASSUME DataInv
      PROVE  PushedIsAsked
  <2>1. payload \in Payloads /\ IsConfig(router) /\ MgmtInv /\ DeliveredInv
    BY <1>1 DEF DataInv, ValidationInv, IntentInv, PushInv, LinesInv
  <2>2. ASSUME pushed, NEW a \in Asked(payload), a \notin Unsaid(payload)
        PROVE  Granted(a, router)
    <3>1. a \in Said(payload)
      BY <2>1, <2>2, SaidIsAsked
    <3>2. Accepts(a) /\ Holds(router, a)
      BY <2>1, <2>2, <3>1 DEF DeliveredInv
    <3> QED
      BY <2>1, <3>1, <3>2, GrantedIsHolds
  <2>3. \/ router.address[Mgmt] = Meant(booted.primary)
        \/ \E p \in {payload, booted} :
              \E i \in ToSet(p.interfaces) : i.name = Mgmt
    BY <2>1 DEF MgmtInv, NamesMgmt
  <2> QED
    BY <2>2, <2>3 DEF PushedIsAsked
<1> QED
  BY <1>1, DataInductive, PTL

\* What differs from the config the run found is what the payload asks for, at
\* every moment of every interleaving of the attempts (models.py line 93 for
\* the VLANs; ansible_activities.py, _IOS_XE_TEMPLATE).
THEOREM AskedArrives == Spec => []OnlyTheAskedArrives
<1>1. DataInv => OnlyTheAskedArrives
  BY DEF DataInv, PushInv
<1> QED
  BY <1>1, DataInductive, PTL

\* No step takes back what a line of the config has done: an attempt that starts
\* over, or one that goes on after its timeout, delivers lines that contradict
\* none.
THEOREM NeverBack == Spec => PushNeverGoesBack
<1>1. ASSUME DataInv, [Next]_vars
      PROVE  [\A a \in Said(payload) :
                Granted(a, router) => Granted(a, router')]_vars
  <2>1. /\ payload \in Payloads /\ IsConfig(router)
        /\ MgmtInv /\ OnlyTheAskedArrives
        /\ todo \in Seq(Said(payload)) /\ late \in Seq(Said(payload))
        /\ Refused(payload) \/ Raises(Parse(payload)) =>
            todo = <<>> /\ late = <<>>
    BY <1>1 DEF DataInv, ValidationInv, IntentInv, PushInv, LinesInv
  <2>2. ASSUME NEW a \in Said(payload), Accepts(a), ~Refused(payload),
               router' = Apply(router, a),
               UNCHANGED <<payload, was, booted>>
        PROVE  \A b \in Said(payload) :
                  Granted(b, router) => Granted(b, router')
    <3>1. IsConfig(router')
      BY <2>1, <2>2, DeliveryPreserves
    <3>2. \A b \in Said(payload) :
             Accepts(b) /\ Holds(router, b) => Holds(router', b)
      BY <2>1, <2>2, DeliveryPreserves
    <3>3. \A b \in Said(payload) :
             Granted(b, router) <=> Accepts(b) /\ Holds(router, b)
      BY <2>1, GrantedIsHolds
    <3>4. \A b \in Said(payload) :
             Granted(b, router') <=> Accepts(b) /\ Holds(router', b)
      BY <2>1, <3>1, GrantedIsHolds
    <3> QED
      BY <3>2, <3>3, <3>4
  <2>3. CASE PushDelivers
    <3> DEFINE a == Head(todo)
    <3>1. a \in Said(payload) /\ Accepts(a) /\ ~Refused(payload)
      BY <2>1, <2>3 DEF PushDelivers
    <3>2. router' = Apply(router, a) /\ UNCHANGED <<payload, was, booted>>
      BY <2>3 DEF PushDelivers, Unread
    <3> HIDE DEF a
    <3> QED
      BY <2>2, <3>1, <3>2
  <2>4. CASE LateDelivers
    <3> DEFINE a == Head(late)
    <3>1. a \in Said(payload) /\ Accepts(a) /\ ~Refused(payload)
      BY <2>1, <2>4 DEF LateDelivers
    <3>2. router' = Apply(router, a) /\ UNCHANGED <<payload, was, booted>>
      BY <2>4 DEF LateDelivers, Unread
    <3> HIDE DEF a
    <3> QED
      BY <2>2, <3>1, <3>2
  <2>5. CASE ~PushDelivers /\ ~LateDelivers
    <3>1. UNCHANGED router
      BY <1>1, <2>5
      DEF Next, vars, history, FetchFails, FetchCompletes, RenderFails,
          RenderCompletes, PushCompletes, PushBreaksOff, PushTimesOut,
          PushFails, ReadInterfaces, ReadPeers, Flap
    <3> QED
      BY <3>1
  <2> QED
    BY <2>3, <2>4, <2>5
<1> QED
  BY <1>1, DataInductive, PTL DEF Spec, PushNeverGoesBack

=============================================================================

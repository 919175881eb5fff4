------------------------- MODULE DataPathInvariant -------------------------
(***************************************************************************)
(* The inductive invariant of DataPath, from which the properties of the   *)
(* data follow.  It is about the interleavings of what delivers and reads  *)
(* the lines of a payload; what those lines say of what the payload asks   *)
(* for is a fact about pure functions, proved in RenderingProofs.          *)
(***************************************************************************)
EXTENDS DataPath

\* Every name and every VLAN has its place in the config of a router.
IsConfig(c) ==
    /\ c = [vlans |-> c.vlans, names |-> c.names, address |-> c.address,
            shut |-> c.shut, peers |-> c.peers, networks |-> c.networks]
    /\ c.names = [v \in Vids |-> c.names[v]]
    /\ c.address = [n \in Hardware |-> c.address[n]]

\* The address of Day 0 may give way to one that the payload asks for.
NamesMgmt(p) == \E i \in ToSet(p.interfaces) : i.name = Mgmt

-----------------------------------------------------------------------------
(* The validation.                                                         *)

\* The names of interfaces that differ, as the first read sees them.
Wrong(i, live) == Missing(i, DOMAIN live) \cup Down(i, live)

\* The run is about one payload, and what it fetched is that payload.
IntentInv ==
    /\ payload \in Payloads /\ booted \in Payloads
    /\ ~Refused(booted)
    /\ pc \notin {"fetch", "failed"} =>
          intent = Parse(payload) /\ ~Refused(payload)
    /\ pc = "push" => ~Raises(intent)

\* While the validation lasts the history brackets the faults of the moment.
WindowInv ==
    pc \in {"read_interfaces", "read_peers"} =>
        steady \subseteq Faults /\ Faults \subseteq ever

\* Of the interfaces, the first read saw what was wrong at one of the moments.
ReadInv ==
    pc = "read_peers" =>
        /\ DOMAIN seen = Hardware
        /\ steady \cap Names \subseteq Wrong(intent, seen)
        /\ Wrong(intent, seen) \subseteq ever

ValidationInv == IntentInv /\ WindowInv /\ ReadInv /\ DriftIsBounded

-----------------------------------------------------------------------------
(* The push.                                                               *)

\* What a config has to show for a line to have been delivered.
Holds(c, line) ==
    /\ line.do = "vlan" => line.to \in c.vlans
    /\ line.do = "name" => c.names[line.at] = line.to
    /\ line.do = "address" => c.address[line.at] = line.to
    /\ line.do = "shutdown" => (line.at \in c.shut <=> line.to = TRUE)
    /\ line.do = "neighbor" => line.to \in c.peers
    /\ line.do = "network" => line.to \in c.networks

\* Only lines of this payload are under way, and none before the models have
\* let it through.
LinesInv ==
    /\ IsConfig(router)
    /\ todo \in Seq(Said(payload)) /\ late \in Seq(Said(payload))
    /\ Refused(payload) \/ Raises(Parse(payload)) => todo = <<>> /\ late = <<>>

\* What the config says and has been delivered holds for good: at every line of
\* an attempt the lines before it do, whoever delivered them.
DeliveredInv ==
    /\ pc = "push" =>
          \A a \in Said(payload) :
              a \in ToSet(todo) \/ (Accepts(a) /\ Holds(router, a))
    /\ pushed =>
          \A a \in Said(payload) : Accepts(a) /\ Holds(router, a)

\* The address of Day 0 gives way to a line for the management interface only.
MgmtInv ==
    \/ router.address[Mgmt] = Meant(booted.primary)
    \/ NamesMgmt(payload) \/ NamesMgmt(booted)

PushInv == LinesInv /\ DeliveredInv /\ MgmtInv /\ OnlyTheAskedArrives

DataInv == ValidationInv /\ PushInv
=============================================================================

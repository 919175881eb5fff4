------------------------------ MODULE DataPath ------------------------------
(***************************************************************************)
(* What the activities do to the data between the awaits of the workflows: *)
(* a device as Nautobot describes it is parsed into an intent, rendered    *)
(* into lines of a config, delivered to the router line by line by         *)
(* attempts that may break off or go on late, and validated by two reads   *)
(* of a router whose links and sessions come and go.                       *)
(*                                                                         *)
(* Day 1 fetches, renders, pushes and validates; the Day 2 scan fetches    *)
(* and validates.  The router was booted by a Day 0 script before.         *)
(***************************************************************************)
EXTENDS Integers, FiniteSetsExt, SequencesExt

CONSTANTS
    Payloads,  \* devices as the GraphQL query of Nautobot describes them
    Earlier,   \* bound: what else a router may have been set up with before
    Names,     \* the names of interfaces
    Hardware,  \* the interfaces this router has
    Mgmt,      \* DeviceIntent.mgmt_interface, which Nautobot does not supply
    None       \* no address, no peer, no VLAN: "" or an absent key

\* A payload has its primary address, its interfaces in order, each with its
\* addresses and tagged VLANs in order, and the BGP peer of its config context:
\* an address, which names no interface.  An address has a host, the set of its
\* bits, and a prefix length, None where it has no "/".  That of primary_ip4 is
\* one of IPv4; ip_addresses may list any, an IPv6 host has bits beyond 31.
ASSUME DataPathAssumption ==
    /\ Mgmt \in Hardware /\ Hardware \subseteq Names
    /\ Earlier \subseteq Payloads
    /\ \A p \in Payloads :
          /\ p.primary.host \subseteq 0..31 /\ p.primary.len \in 0..32
          /\ p.peer \notin Names
          /\ p.interfaces \in Seq(ToSet(p.interfaces))
          /\ \A j, k \in DOMAIN p.interfaces :
                p.interfaces[j].name = p.interfaces[k].name => j = k
          /\ \A i \in ToSet(p.interfaces) :
                /\ i.name \in Names /\ i.enabled \in BOOLEAN
                /\ i.vlans \in Seq(ToSet(i.vlans))
                /\ i.addresses \in Seq(ToSet(i.addresses))
                /\ \A a \in ToSet(i.addresses) :
                      /\ a # None /\ a.host \subseteq 0..127
                      /\ a.len \in (0..128) \cup {None}
    /\ None \notin 0..128

VARIABLES
    payload,  \* Nautobot: the device
    pc,       \* the step the run is at
    intent,   \* the DeviceIntent fetched, None before
    todo,     \* the lines the current attempt of push_config has to deliver
    late,     \* the lines a timed-out attempt has still to deliver
    router,   \* the running config
    up,       \* the links and sessions that work
    seen,     \* live_interfaces: the names read, with is_up
    drift,    \* drift_detected
    was,      \* history: the running config when the run began
    booted,   \* history: the payload the Day 0 script was rendered from
    pushed,   \* history: a push has been answered with success
    steady,   \* history: the faults there were all through the validation
    ever      \* history: the faults there were at some time of it

history == <<was, booted, pushed, steady, ever>>
vars == <<payload, pc, intent, todo, late, router, up, seen, drift, history>>

-----------------------------------------------------------------------------
(* _parse_device_intent.                                                   *)

\* Mutant of Accepted: the bounds of VlanIntent.vlan_id are one too wide.
AcceptedWide(vid) == vid \in 0..4095

\* VlanIntent refuses other ids, and the fetch fails.
Accepted(vid) == vid \in 1..4094

\* Mutant of FirstSight: seen_vlans is not consulted.
EverySight(kept, vlan) == Append(kept, vlan)

FirstSight(kept, vlan) ==
    IF \E k \in DOMAIN kept : kept[k].vid = vlan.vid
    THEN kept ELSE Append(kept, vlan)

\* The tagged VLANs over all interfaces, in order.
Tagged(p) ==
    FlattenSeq([k \in DOMAIN p.interfaces |-> p.interfaces[k].vlans])

Vlans(p) == FoldLeft(FirstSight, <<>>, Tagged(p))

\* The address of an interface is the first one Nautobot lists.
InterfaceIntent(i) ==
    [name    |-> i.name,
     address |-> IF i.addresses = <<>> THEN None ELSE i.addresses[1],
     enabled |-> i.enabled]

Refused(p) == \E k \in DOMAIN Vlans(p) : ~Accepted(Vlans(p)[k].vid)

Parse(p) ==
    [primary    |-> p.primary,
     interfaces |-> [k \in DOMAIN p.interfaces |->
                        InterfaceIntent(p.interfaces[k])],
     vlans      |-> Vlans(p),
     peer       |-> p.peer]

-----------------------------------------------------------------------------
(* _ip_to_ios and _cidr_to_mask.  A word is the set of its bits.           *)

Word == 0..31  \* 0xFFFFFFFF

\* Mutant of Shifted: the shift count is one short.
ShiftedLess(word, n) == {b + n - 1 : b \in word}

Shifted(word, n) == {b + n : b \in word}

Octet(word, n) == MapThenSumSet(LAMBDA b : 2^b, {b \in 0..7 : b + n \in word})

Mask(len) ==
    LET word == Shifted(Word, 32 - len) \cap Word
    IN  [k \in 1..4 |-> Octet(word, 32 - 8 * k)]

\* An address without a length is left as it is.
IpToIos(address) ==
    [host |-> address.host,
     mask |-> IF address.len = None THEN None ELSE Mask(address.len)]

\* The shift count is negative, which is a ValueError.
TooLong(address) == address.len # None /\ address.len > 32

-----------------------------------------------------------------------------
(* The templates and the router.                                           *)

\* _IOS_XE_TEMPLATE as far as it depends on the payload: the VLANs, the
\* interfaces and the peer.
VlanLines(i) ==
    FlattenSeq([k \in DOMAIN i.vlans |->
        LET v == i.vlans[k]
        IN  <<[do |-> "vlan", at |-> v.vid, to |-> v.vid],
              [do |-> "name", at |-> v.vid, to |-> v.name]>>])

InterfaceLines(iface) ==
    (IF iface.address = None THEN <<>>
     ELSE <<[do |-> "address", at |-> iface.name,
             to |-> IpToIos(iface.address)]>>)
    \o <<[do |-> "shutdown", at |-> iface.name, to |-> ~iface.enabled]>>

\* _cidr_to_network keeps the host's bits: the network is named by the host.
PeerLines(i) ==
    IF i.peer = None THEN <<>>
    ELSE <<[do |-> "neighbor", at |-> i.peer, to |-> i.peer],
           [do |-> "network", at |-> i.peer, to |-> IpToIos(i.primary)]>>

\* Rendering fails as a whole.
Raises(i) ==
    \E k \in DOMAIN i.interfaces :
        /\ i.interfaces[k].address # None
        /\ TooLong(i.interfaces[k].address)

Render(i) ==
    VlanLines(i)
    \o FlattenSeq([k \in DOMAIN i.interfaces |->
                      InterfaceLines(i.interfaces[k])])
    \o PeerLines(i)

\* The router takes a line as a change to what it runs: a name or an address
\* takes the place of the former one, VLANs, neighbors and networks add up.
Apply(config, line) ==
    CASE line.do = "vlan" ->
            [config EXCEPT !.vlans = @ \cup {line.to}]
      [] line.do = "name" ->
            [config EXCEPT !.names[line.at] = line.to]
      [] line.do = "address" ->
            [config EXCEPT !.address[line.at] = line.to]
      [] line.do = "shutdown" ->
            [config EXCEPT !.shut = IF line.to THEN @ \cup {line.at}
                                               ELSE @ \ {line.at}]
      [] line.do = "neighbor" ->
            [config EXCEPT !.peers = @ \cup {line.to}]
      [] line.do = "network" ->
            [config EXCEPT !.networks = @ \cup {line.to}]

\* An interface the router does not have makes Ansible fail, and so does an
\* "ip address" without a mask or with an address of IPv6.
Accepts(line) ==
    /\ line.do \in {"address", "shutdown"} => line.at \in Hardware
    /\ line.do = "address" =>
          line.to.mask # None /\ line.to.host \subseteq Word

\* configure_management() of _ZTP_SCRIPT_TEMPLATE, on a router that came with
\* its other interfaces shut.
Vids == UNION {{Tagged(p)[k].vid : k \in DOMAIN Tagged(p)} : p \in Payloads}

Booted(i) ==
    [vlans    |-> {},
     names    |-> [v \in Vids |-> None],
     address  |-> [n \in Hardware |->
                      IF n = Mgmt THEN IpToIos(i.primary) ELSE None],
     shut     |-> Hardware \ {Mgmt},
     peers    |-> {},
     networks |-> {}]

-----------------------------------------------------------------------------
(* Validation.                                                             *)

IsUp(n) == n \in up /\ n \notin router.shut
PeerIsUp(p) == p \in up /\ p \in router.peers

Missing(i, names) ==
    {n \in {i.interfaces[k].name : k \in DOMAIN i.interfaces} : n \notin names}

\* Mutant of Down: what is_up says of an interface is not looked at.
DownNever(i, live) == {}

Down(i, live) ==
    {n \in DOMAIN live :
        /\ ~live[n]
        /\ \E k \in DOMAIN i.interfaces :
              i.interfaces[k].name = n /\ i.interfaces[k].enabled}

\* _diff_state, given what get_interfaces returned and whether
\* get_bgp_neighbors says that the peer is up.
Diff(i, live, peerIsUp) ==
    Missing(i, DOMAIN live) \cup Down(i, live)
    \cup (IF i.peer # None /\ ~peerIsUp THEN {i.peer} ELSE {})

-----------------------------------------------------------------------------
(* What the payload asks for, said without the code, and how much of it a   *)
(* config says.                                                            *)

MaskOf(len) ==
    [k \in 1..4 |-> 256 - 2^(8 - Max({0, Min({8, len - 8 * (k - 1)})}))]

Meant(address) ==
    [host |-> address.host,
     mask |-> IF address.len = None THEN None ELSE MaskOf(address.len)]

\* The network an address is in.
Subnet(address) ==
    [host |-> {b \in address.host : b >= 32 - address.len},
     mask |-> MaskOf(address.len)]

\* The name of a VLAN where the payload has it first.
NameOf(p, vid) ==
    LET all == Tagged(p)
    IN  all[Min({k \in DOMAIN all : all[k].vid = vid})].name

\* The addresses of the interfaces, and those that differ from the first.
Addresses(p) ==
    UNION {{[do |-> "address", at |-> i.name, to |-> Meant(a)] :
              a \in ToSet(i.addresses)} : i \in ToSet(p.interfaces)}

Secondary(p) ==
    UNION {{[do |-> "address", at |-> i.name, to |-> Meant(a)] :
              a \in {b \in ToSet(i.addresses) :
                       Meant(b) # Meant(i.addresses[1])}} :
            i \in ToSet(p.interfaces)}

\* Each VLAN with every name it goes by, each interface on or off and with all
\* its addresses, the peer, and the network to tell it of.
Asked(p) ==
    Addresses(p)
    \cup {[do |-> "vlan", at |-> v.vid, to |-> v.vid] : v \in ToSet(Tagged(p))}
    \cup {[do |-> "name", at |-> v.vid, to |-> v.name] :
             v \in ToSet(Tagged(p))}
    \cup {[do |-> "shutdown", at |-> i.name, to |-> ~i.enabled] :
             i \in ToSet(p.interfaces)}
    \cup {[do |-> "neighbor", at |-> q, to |-> q] : q \in {p.peer} \ {None}}
    \cup {[do |-> "network", at |-> q, to |-> Subnet(p.primary)] :
             q \in {p.peer} \ {None}}

\* What a config leaves unsaid of that: any name of a VLAN and any address of
\* an interface but the first, and the network, unless its own address is the
\* primary one.
Unsaid(p) ==
    Secondary(p)
    \cup {[do |-> "name", at |-> v.vid, to |-> v.name] :
             v \in {w \in ToSet(Tagged(p)) : w.name # NameOf(p, w.vid)}}
    \cup {[do |-> "network", at |-> q, to |-> Subnet(p.primary)] :
             q \in IF Subnet(p.primary) = Meant(p.primary)
                   THEN {} ELSE {p.peer}}

\* What it says: the rest, and a network that is named by a host.
Said(p) ==
    {[do |-> "vlan", at |-> v.vid, to |-> v.vid] : v \in ToSet(Tagged(p))}
    \cup {[do |-> "name", at |-> v.vid, to |-> NameOf(p, v.vid)] :
             v \in ToSet(Tagged(p))}
    \cup {[do |-> "shutdown", at |-> i.name, to |-> ~i.enabled] :
             i \in ToSet(p.interfaces)}
    \cup {[do |-> "address", at |-> i.name, to |-> Meant(i.addresses[1])] :
             i \in {j \in ToSet(p.interfaces) : j.addresses # <<>>}}
    \cup {[do |-> "neighbor", at |-> q, to |-> q] : q \in {p.peer} \ {None}}
    \cup {[do |-> "network", at |-> q, to |-> Meant(p.primary)] :
             q \in {p.peer} \ {None}}

\* A request is granted when asking for it again changes nothing.
Granted(a, config) == Accepts(a) /\ Apply(config, a) = config

\* What keeps the device from what the payload asks of its links.
Faults ==
    {i.name : i \in {j \in ToSet(payload.interfaces) :
                        \/ j.name \notin Hardware
                        \/ j.enabled /\ ~IsUp(j.name)}}
    \cup {q \in {payload.peer} \ {None} : ~PeerIsUp(q)}

-----------------------------------------------------------------------------
(* The run.                                                                *)

\* A router booted with the primary address of a payload, which no run, or a
\* run for that payload whose lines it took, has configured since.
SetUp(p) ==
    {Booted(Parse(p))} \cup
    (IF /\ ~Raises(Parse(p))
        /\ \A line \in ToSet(Render(Parse(p))) : Accepts(line)
     THEN {FoldLeft(Apply, Booted(Parse(p)), Render(Parse(p)))} ELSE {})

\* The payload of the boot is this one or an earlier one.
Init ==
    /\ payload \in Payloads
    /\ booted \in {p \in Earlier \cup {payload} : ~Refused(p)}
    /\ router \in SetUp(booted)
    /\ was = router /\ pushed = FALSE
    /\ pc = "fetch" /\ intent = None /\ todo = <<>> /\ late = <<>>
    /\ up = Hardware \cup ({payload.peer} \ {None})
    /\ seen = <<>> /\ drift = {} /\ steady = {} /\ ever = {}

\* When device.open() is awaited the validation begins.
Open ==
    /\ pc' = "read_interfaces"
    /\ steady' = Faults /\ ever' = Faults

Unread == UNCHANGED <<payload, up, seen, drift, was, booted>>

\* fetch_device_intent fails when the payload is refused.
FetchFails ==
    /\ pc = "fetch" /\ Refused(payload)
    /\ pc' = "failed"
    /\ UNCHANGED <<intent, todo, late, router, steady, ever, pushed>> /\ Unread

\* Day 1 goes on to render_config, the scan to validate_device_state.
FetchCompletes ==
    /\ pc = "fetch" /\ ~Refused(payload)
    /\ intent' = Parse(payload)
    /\ \/ pc' = "render" /\ UNCHANGED <<steady, ever>>
       \/ Open
    /\ UNCHANGED <<todo, late, router, pushed>> /\ Unread

RenderFails ==
    /\ pc = "render" /\ Raises(intent)
    /\ pc' = "failed"
    /\ UNCHANGED <<intent, todo, late, router, steady, ever, pushed>> /\ Unread

RenderCompletes ==
    /\ pc = "render" /\ ~Raises(intent)
    /\ pc' = "push"
    /\ todo' = Render(intent)
    /\ UNCHANGED <<intent, late, router, steady, ever, pushed>> /\ Unread

PushDelivers ==
    /\ pc = "push" /\ todo # <<>> /\ Accepts(Head(todo))
    /\ router' = Apply(router, Head(todo))
    /\ todo' = Tail(todo)
    /\ UNCHANGED <<pc, intent, late, steady, ever, pushed>> /\ Unread

PushCompletes ==
    /\ pc = "push" /\ todo = <<>>
    /\ pushed' = TRUE
    /\ Open
    /\ UNCHANGED <<intent, todo, late, router>> /\ Unread

\* The attempt breaks off, and the next one begins with the first line.
PushBreaksOff ==
    /\ pc = "push"
    /\ todo' = Render(intent)
    /\ UNCHANGED <<pc, intent, late, router, steady, ever, pushed>> /\ Unread

\* The attempt times out, and its thread delivers the rest beside the next.
PushTimesOut ==
    /\ pc = "push" /\ late = <<>>
    /\ late' = todo
    /\ todo' = Render(intent)
    /\ UNCHANGED <<pc, intent, router, steady, ever, pushed>> /\ Unread

\* Attempts are exhausted, or Ansible's return code is not zero.
PushFails ==
    /\ pc = "push"
    /\ pc' = "failed" /\ todo' = <<>>
    /\ UNCHANGED <<intent, late, router, steady, ever, pushed>> /\ Unread

\* The thread of the timed-out attempt delivers a line, while there is a push
\* or a validation to disturb.
LateDelivers ==
    /\ late # <<>> /\ Accepts(Head(late))
    /\ pc \in {"push", "read_interfaces", "read_peers"}
    /\ router' = Apply(router, Head(late))
    /\ late' = Tail(late)
    /\ UNCHANGED <<pc, intent, todo, pushed>> /\ Unread
    /\ steady' = steady \cap Faults' /\ ever' = ever \cup Faults'

\* get_interfaces and get_bgp_neighbors read the router one after the other.
ReadInterfaces ==
    /\ pc = "read_interfaces"
    /\ pc' = "read_peers"
    /\ seen' = [n \in Hardware |-> IsUp(n)]
    /\ UNCHANGED <<payload, intent, todo, late, router, up, drift, history>>

ReadPeers ==
    /\ pc = "read_peers"
    /\ pc' = "done"
    /\ drift' = Diff(intent, seen, PeerIsUp(intent.peer))
    /\ UNCHANGED <<payload, intent, todo, late, router, up, seen, history>>

\* A link or a session goes down or comes up; before the validation nobody
\* looks at it.
Flap(x) ==
    /\ pc \in {"read_interfaces", "read_peers"}
    /\ up' = SymDiff(up, {x})
    /\ UNCHANGED <<payload, pc, intent, todo, late, router, seen, drift, was,
                   booted, pushed>>
    /\ steady' = steady \cap Faults' /\ ever' = ever \cup Faults'

Next ==
    \/ FetchFails \/ FetchCompletes \/ RenderFails \/ RenderCompletes
    \/ PushDelivers \/ PushCompletes \/ PushBreaksOff \/ PushTimesOut
    \/ PushFails \/ LateDelivers \/ ReadInterfaces \/ ReadPeers
    \/ \E x \in Hardware \cup ({payload.peer} \ {None}) : Flap(x)

Spec == Init /\ [][Next]_vars

-----------------------------------------------------------------------------
(* What must hold.                                                         *)

\* When a push has been answered the router grants what Nautobot asks for, with
\* the masks of the addresses for every prefix length, however many attempts
\* broke off or went on beside it, and whatever an earlier run left there; but
\* of the names of a VLAN and the addresses of an interface only the first, and
\* the network only where its own address is the primary one.  The management
\* interface has the address of Day 0, unless the payload names it
\* (ansible_activities.py lines 78 to 116 and 148 to 170,
\* nautobot_activities.py lines 242 to 265, bootstrap_activities.py line 118).
PushedIsAsked ==
    pushed =>
        /\ \A a \in Asked(payload) \ Unsaid(payload) : Granted(a, router)
        /\ \/ router.address[Mgmt] = Meant(booted.primary)
           \/ \E p \in {payload, booted} :
                 \E i \in ToSet(p.interfaces) : i.name = Mgmt

\* No line of a push takes back what another one of it has done: a retry that
\* starts over, or a late attempt that delivers the same lines beside it, never
\* leaves the router further from what the config says than it was.
PushNeverGoesBack ==
    [][\A a \in Said(payload) : Granted(a, router) => Granted(a, router')]_vars

\* What differs from the config the run found is what the payload asks for,
\* at every moment and after every cut: the rest is left alone, and what the
\* models refuse, or an interface the router has not, never gets that far
\* (models.py line 93).  The network is the exception, a host may name it.
OnlyTheAskedArrives ==
    /\ \A v \in SymDiff(router.vlans, was.vlans) :
          /\ v \in router.vlans /\ v \in 1..4094
          /\ [do |-> "vlan", at |-> v, to |-> v] \in Asked(payload)
    /\ \A v \in Vids : router.names[v] # was.names[v] =>
          [do |-> "name", at |-> v, to |-> router.names[v]] \in Asked(payload)
    /\ \A n \in Hardware : router.address[n] # was.address[n] =>
          [do |-> "address", at |-> n, to |-> router.address[n]]
              \in Asked(payload)
    /\ \A n \in SymDiff(router.shut, was.shut) :
          [do |-> "shutdown", at |-> n, to |-> n \in router.shut]
              \in Asked(payload)
    /\ router.peers \ was.peers \subseteq {payload.peer}
    /\ router.networks \ was.networks
          \subseteq {Subnet(payload.primary), Meant(payload.primary)}

\* What the validation reports lies between the faults there were all the time
\* and those there were at some time: the two reads may see the router of two
\* moments, but they miss no fault that lasts and make none up.
DriftIsBounded == pc = "done" => steady \subseteq drift /\ drift \subseteq ever

=============================================================================

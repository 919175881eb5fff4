------------------------------ MODULE MCDataPath ------------------------------
(* A small instance of DataPath for TLC.                                   *)
EXTENDS DataPathInvariant

CONSTANTS mgmt, g1, g2, a, b, peer

\* A host with a bit in any network, one with none in its own, and an IPv6 one.
h1 == {0, 9, 28}
h2 == {8, 31}
h6 == {0, 96, 125}

At(host, len) == [host |-> host, len |-> len]
On(name, enabled, addresses, vlans) ==
    [name |-> name, enabled |-> enabled, addresses |-> addresses,
     vlans |-> vlans]
Device(primary, interfaces, toPeer) ==
    [primary |-> primary, interfaces |-> interfaces, peer |-> toPeer]

\* One VLAN on each of two interfaces: the same one twice, two names for one,
\* the ids next to the bounds.
TaggedVlans == {<<>>} \cup
    {<<[vid |-> v, name |-> n]>> : v \in {0, 1, 4094, 4095}, n \in {a, b}}
VlanPayloads ==
    {Device(At(h1, 30),
            <<On(g1, TRUE, <<>>, s), On(mgmt, TRUE, <<>>, t)>>, None) :
        s \in TaggedVlans, t \in TaggedVlans}

\* Interfaces that are enabled or not, with no, one or two addresses, of IPv4
\* or IPv6 or without a length, one of them one the router does not have.
PortPayloads ==
    {Device(At(h2, 24), <<On(g1, e, s, <<>>), On(n, f, <<>>, <<>>)>>, q) :
        e \in BOOLEAN, f \in BOOLEAN, n \in {mgmt, g2}, q \in {None, peer},
        s \in {<<>>, <<At(h2, 31)>>, <<At(h1, 9), At(h2, 31)>>,
               <<At(h6, 64), At(h1, 9)>>, <<At(h6, 32)>>, <<At(h1, None)>>}}

\* Every prefix length, for the management address and an interface.
PrefixPayloads ==
    {Device(At(h1, n), <<On(g1, TRUE, <<At(h1, n)>>, <<>>)>>, peer) :
        n \in 0..32}

\* The router has been set up with another name for a VLAN, with the other
\* choice for each port, and with other addresses.
MCEarlier ==
    {Device(At(h1, 32),
            <<On(g1, FALSE, <<>>, <<[vid |-> 1, name |-> b]>>)>>, None),
     Device(At(h2, 0), <<On(g1, TRUE, <<At(h2, 17)>>, <<>>),
                         On(mgmt, TRUE, <<>>, <<>>)>>, peer)}

MCPayloads == MCEarlier \cup VlanPayloads \cup PortPayloads \cup PrefixPayloads
=============================================================================

\* One run over a router that an earlier Day 0, and perhaps an earlier run, has
\* configured, with attempts that break off and go on late and links that flap.
SPECIFICATION Spec
CONSTANTS
    mgmt = mgmt
    g1 = g1
    g2 = g2
    a = a
    b = b
    peer = peer
    Payloads <- MCPayloads
    Earlier <- MCEarlier
    Names = {mgmt, g1, g2}
    Hardware = {mgmt, g1}
    Mgmt = mgmt
    None = None
INVARIANTS
    PushedIsAsked
    OnlyTheAskedArrives
    DriftIsBounded
PROPERTIES
    PushNeverGoesBack
\* A run ends.
CHECK_DEADLOCK FALSE

\* An uplink, and a frame for a remote digipeater.
CONSTANTS
    kiss = kiss
    uplink = uplink
    digi = digi
    A = A
    B = B
    S = S
    D = D
    E = E
    none = none
    s1 = s1
    s2 = s2
    a1 = a1
    a2 = a2
    Ports = {kiss, uplink, digi}
    Mode <- MCMode
    Address <- MCAddress
    Unbound = none
    Depth = 1
    Senders = {s1, s2}
    Admins = {a1, a2}
    Setups <- RemoteSetup
SPECIFICATION Spec
INVARIANT DefaultFallback
CHECK_DEADLOCK FALSE

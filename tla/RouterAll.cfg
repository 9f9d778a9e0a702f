\* A switch with a digipeater, a bridge whose ports come and go, and a hub.
CONSTANTS
    kiss = kiss
    uplink = uplink
    digi = digi
    A = A
    B = B
    S = S
    D = D
    E = E
    none = none
    s1 = s1
    s2 = s2
    a1 = a1
    a2 = a2
    Ports = {kiss, uplink, digi}
    Mode <- MCMode
    Address <- MCAddress
    Unbound = none
    Depth = 2
    Senders = {s1, s2}
    Admins = {a1, a2}
    Setups <- MCSetups
SPECIFICATION FairSpec
INVARIANTS TypeOK ClosedOnce Served SenderOrder OnlyForMe HopsInOrder
PROPERTIES CallsReturn QueuesDrain
CHECK_DEADLOCK FALSE

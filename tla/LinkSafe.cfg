\* Two sessions with data both ways, losses and a busy receiver.
CONSTANTS
    A = A
    B = B
    NoPeer = NoPeer
    Empty = 0
    Data <- MCData
    Peers <- MCPeers
    Budgets <- SafeBudgets
    CfgWindow = 2
    N2 = 1
    MaxChan = 3
    Timely = TRUE
    Connects = 2
    Shutdowns = 1
    Sends = 2
    Busies = 1
    Refusals = 1
    Closes = 0
    Losses = 2
    Lates = 0
SPECIFICATION Spec
SYMMETRY Symmetry
INVARIANTS InOrder AckedIsDelivered
CHECK_DEADLOCK FALSE

\* A T1 that expires before the answer arrives.
CONSTANTS
    A = A
    B = B
    NoPeer = NoPeer
    Empty = 0
    Data <- MCData
    Peers <- MCPeers
    Budgets <- MCBudgets
    CfgWindow = 2
    N2 = 1
    MaxChan = 3
    Timely = FALSE
    Connects = 1
    Shutdowns = 0
    Sends = 2
    Busies = 0
    Refusals = 0
    Closes = 0
    Losses = 0
    Lates = 1
SPECIFICATION Spec
SYMMETRY Symmetry
INVARIANTS AckedIsDelivered
CHECK_DEADLOCK FALSE

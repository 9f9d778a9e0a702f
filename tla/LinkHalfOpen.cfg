\* One station calls Close, or a DISC is lost.
CONSTANTS
    A = A
    B = B
    NoPeer = NoPeer
    Empty = 0
    Data <- MCData
    Peers <- MCPeers
    Budgets <- MCBudgets
    CfgWindow = 2
    N2 = 1
    MaxChan = 3
    Timely = TRUE
    Connects = 1
    Shutdowns = 1
    Sends = 1
    Busies = 0
    Refusals = 0
    Closes = 1
    Losses = 1
    Lates = 0
SPECIFICATION FairSpec
PROPERTIES NoHalfOpen
CHECK_DEADLOCK FALSE

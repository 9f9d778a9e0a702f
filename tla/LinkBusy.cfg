\* A receiver becomes busy and ready again.
CONSTANTS
    A = A
    B = B
    NoPeer = NoPeer
    Empty = 0
    Data <- MCData
    Peers <- MCPeers
    Budgets <- MCBudgets
    CfgWindow = 2
    N2 = 1
    MaxChan = 3
    Timely = TRUE
    Connects = 1
    Shutdowns = 0
    Sends = 1
    Busies = 2
    Refusals = 0
    Closes = 0
    Losses = 0
    Lates = 0
SPECIFICATION FairSpec
PROPERTIES ProgressWhenReady
CHECK_DEADLOCK FALSE

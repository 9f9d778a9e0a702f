\* Station: every kind of frame and every caller; sequence numbers near zero.
\* Pair: loss, Shutdown and Close.
CONSTANTS
    CfgWindow = 2
    N2 = 1
    Empty = Empty
    NoPeer = NoPeer
    p1 = p1
    d1 = d1
    Data <- MCData
    Peers <- MCPeers
    Frames <- MCFrames
    MaxLate = 1
    MaxDue = 2
    NRs = {0, 1}
    NSs = {0}
    Kinds = {"SABM", "DISC", "UA", "DM", "FRMR", "RR", "RNR", "REJ", "SREJ", "I", "UI"}
    A = A
    B = B
    Budgets <- PairBudgets
    MaxChan = 3
    Timely = TRUE
    Sends = 1
SPECIFICATION SessionsSpec
INVARIANTS TypeOK WindowOK Supervised AppAgrees
PROPERTIES AckedInOrder KeepsPromise Resolves Progress
CHECK_DEADLOCK FALSE

\* The server drops an idle connection.
CONSTANTS
    Depth = 1
    MaxConns = 2
    MaxSends = 1
SPECIFICATION FairSpec
PROPERTY Reconnects
CHECK_DEADLOCK FALSE

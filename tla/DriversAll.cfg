\* Client: two reconnections and a queue that fills up.  Pool and servers: one
\* place for two clients.
CONSTANTS
    Depth = 2
    MaxConns = 3
    MaxSends = 4
    MaxConn = 1
    TxDepth = 1
    MaxClients = 2
    MaxTx = 1
    MaxActive = 1
    MaxAccepts = 2
    MaxQueue = 1
    MaxVV = 1
    MaxDays = 3
    MaxRecords = 2
    MaxFaults = 1
    MaxStarts = 3
    MaxUpdates = 1
    MaxFrames = 2
    Stations = {"A", "B", "C"}
    ListMax = 2
    MaxAdds = 5
SPECIFICATION DriversSpec
INVARIANTS PartsTypeOK WireInOrder NoStrayPort NothingLeft OneBeacon MostRecent
PROPERTIES StopsReturn PlaceFreed OnlyGrows Follows
CHECK_DEADLOCK FALSE

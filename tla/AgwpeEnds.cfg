\* Server: two sessions for one slot.  Terminal: a station that is called and
\* another that calls; a line is one or two chunks.
SPECIFICATION EndsSpec
CONSTANTS
    Locals = {"L"}
    Remotes = {"R"}
    NSlots = 1
    Window = 2
    MaxConns = 2
    MaxSends = 2
    None = ""
    Stations = {"A", "B"}
    Called = "A"
    Depth = 2
    ConnWindow = 1
    Bounds <- MCBounds
INVARIANTS TypeOK NeverUnderReported
PROPERTIES Paced Ends
CHECK_DEADLOCK FALSE

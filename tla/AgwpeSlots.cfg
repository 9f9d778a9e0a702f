SPECIFICATION Spec
CONSTANTS
    Locals = {"L"}
    Remotes = {"R"}
    NSlots = 1
    Window = 2
    MaxConns = 2
    MaxSends = 2
PROPERTY EndedFreesSlot
CHECK_DEADLOCK FALSE

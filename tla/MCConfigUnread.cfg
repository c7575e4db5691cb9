CONSTANTS
    Updates = {u1, u2}
    CellularUpdates = {}
    Stores <- SoundStores
    Unreadable <- OneMayFail
    Garbling = FALSE
    GenMod = 4
    PreviousSchema = 6
    MaxCuts = 1
SPECIFICATION Spec
INVARIANTS
    AcknowledgedDurable
CHECK_DEADLOCK FALSE

CONSTANTS
    Messages = {1, 2, 3, 4, 5}
    Refs = {1, 2, 3, 4, 5}
    Ref <- RefFive
    Total <- TwoEach
    Corrupt = {}
    Verdicts = {"blocked", "queued", "full"}
    Unsent <- Nothing
    None = none
    SlotMax = 5
    DoneMax = 4
    SeenMax = 32
    PendingMax = 3
    Batch = 5
    StallMax = 3
    IndexMax = 8
    SimSize = 10
    Window = 20
    MaxRestarts = 0
    MaxAged = 0
SPECIFICATION BacklogSpec
CHECK_DEADLOCK FALSE
INVARIANTS
    NotReopened

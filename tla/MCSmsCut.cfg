CONSTANTS
    Messages = {1, 2, 3}
    Refs = {1, 2, 3}
    Ref <- RefThree
    Total <- NineEach
    Corrupt = {}
    Verdicts = {"queued"}
    Unsent <- Nothing
    None = none
    SlotMax = 5
    DoneMax = 4
    SeenMax = 32
    PendingMax = 3
    Batch = 5
    StallMax = 3
    IndexMax = 8
    SimSize = 24
    Window = 22
    MaxRestarts = 0
    MaxAged = 0
SPECIFICATION CutSpec
CHECK_DEADLOCK FALSE
INVARIANTS
    OmittedRecovered

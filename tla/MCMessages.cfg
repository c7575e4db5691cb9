SPECIFICATION AllSpec
CONSTANTS
    Messages = {1, 2}
    Refs = {1, 2}
    Ref <- RefMixed
    Total <- OneShort
    Corrupt = {2}
    Verdicts = {"queued", "full"}
    Unsent = {}
    None = none
    SlotMax = 1
    DoneMax = 1
    SeenMax = 8
    PendingMax = 1
    Batch = 1
    StallMax = 2
    IndexMax = 1
    SimSize = 2
    Window = 1
    MaxRestarts = 1
    MaxAged = 0
    Channels = {1, 2}
    TestMax = 2
    WaitTime = 1
    MaxTests = 2
    MaxTime = 1
    MaxEvents = 1
    MaxAttempts = 3
    MaxMore = 1
CHECK_DEADLOCK FALSE
VIEW View
INVARIANTS
    ReceptionTrue
    SmsSent
    CallTold
    PushTrue
PROPERTIES
    DeletedOnceAdmitted
    AdmittedOnce

SPECIFICATION AllSpec
CONSTANTS
    Items = {"i"}
    Channels = {"c"}
    Email = "email"
    None = None
    FwdSlots = {"f"}
    PushSlots = {"p"}
    EmailSlots = {"e"}
    CompSlots = {"k1", "k2"}
    RetryMax = 2
    MaxForwards = 3
    MaxNotices = 0
    MaxRelease = 3
    Chunks = 1
    MaxCuts = 1
    MaxFaults = 1
CHECK_DEADLOCK FALSE
INVARIANTS
    RecordsSuffice
    UpdateTrue
PROPERTIES
    QueuesDrain
    ModemServes
    Recovers
    JobsEnd
    ConfirmedOnTrial

SPECIFICATION AllSpec
CONSTANTS
    web = web
    smsTask = smsTask
    esimTask = esimTask
    None = None
    Tasks = {web, smsTask, esimTask}
    SmsTask = smsTask
    EsimTasks = {esimTask}
    SlotCount = 2
    MaxCalls = 2
    MaxAcks = 1
    MaxResets = 0
    MaxOps = 1
    HasPin = TRUE
    PinLimit = 2
    WantData = TRUE
    RoamingData = FALSE
    DailyCheck = TRUE
    RetryLimit = 2
    FailLimit = 2
    DeregLimit = 2
    DataRetries = 1
    SmsSettings = {"notify", "storage"}
    MaxEvents = 2
    MaxFaults = 1
    MaxPolls = 2
    MaxFlight = 2
    Channels = {1, 2, 3}
    KnownChannels = {1, 2, 3}
    MaxBlocks = 3
    MaxSegments = 2
    ChainMax = 2
    DataMax = 3
    MaxSessions = 3
    MaxApduFaults = 2
    JobSlots = {j1, j2}
    JobActiveMax = 2
INVARIANTS
    TypeOK
    QueuesExact
    OrdinaryAnswerIsOwn
    AnswersTrue
    HealthTrue
    HttpsTrue
    ApduTrue
    JobsApart
PROPERTIES
    StartsInSession
    ProfileKept

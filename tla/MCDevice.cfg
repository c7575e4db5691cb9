SPECIFICATION AllSpec
CONSTANTS
    Savers = {t1, t2}
    Ssids = {"a", "b", "c"}
    ChannelTypes = {"x", "y"}
    MaxNets = 2
    MaxSaves = 2
    MaxEvents = 1
    MaxWeb = 1
    MaxPresses = 1
    Runs = {r1, r2}
    ToolKinds = {"provision", "legacy"}
    Seqs = 1
    MaxSends = 3
    MaxBoots = 1
    Origins = {"o", "p"}
    Certs = {"c", "d", "e"}
    CaChannels = {"k"}
    CertSlots = {1, 2}
    BindSlots = {1, 2}
    MaxProbes = 3
    MaxChanges = 1
    MaxFaults = 1
    Updates = {u1, u2, u3}
    CellularUpdates = {u3}
    Stores <- LoadableStores
    Unreadable <- NoneFails
    Garbling = TRUE
    GenMod = 4
    PreviousSchema = 6
    MaxCuts = 3
    Profiles = {"A", "B"}
    NoProfile = "none"
    Interval = 2
    MaxDay = 3
    MaxShown = 2
    MaxActs = 1
    Hosts = {1, 2}
    Initial <- TwoServers
    MaxSeq = 5
    MaxPending = 3
    MaxJobs = 2
    MaxRestarts = 1
CHECK_DEADLOCK FALSE
SYMMETRY Perms
INVARIANTS
    TypeOK
    AcknowledgedDurable
    Recoverable
    SettingsTrue
    WifiTrue
    UsbTrue
    CaTrue
    SwitchTrue
    InstallTrue
    LogTrue
PROPERTIES
    SavesAtomically
    StepsTrue
    EsimStepsTrue

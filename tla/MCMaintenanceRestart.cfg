CONSTANTS
    Items = {i1}
    Channels = {c1}
    Email = email
    None = none
    FwdSlots = {f1}
    PushSlots = {p1}
    EmailSlots = {e1}
    CompSlots = {k1, k2}
    RetryMax = 2
    MaxForwards = 1
    MaxNotices = 0
SPECIFICATION MSpec
PROPERTIES
    RestartKeepsInFlight

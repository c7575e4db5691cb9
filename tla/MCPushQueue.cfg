CONSTANTS
    Items = {i1, i2}
    Channels = {c1, c2}
    Email = email
    None = none
    FwdSlots = {f1}
    PushSlots = {p1, p2}
    EmailSlots = {e1}
    CompSlots = {k1, k2, k3}
    RetryMax = 2
    MaxForwards = 2
    MaxNotices = 1
SYMMETRY Symmetry
SPECIFICATION Spec
INVARIANTS
    TypeOK
    CompletionAccounting
    ForwardedMeansDelivered
    NoSecondSend

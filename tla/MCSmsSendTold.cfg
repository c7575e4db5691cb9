SPECIFICATION Spec
CONSTANTS
    Texts <- MCTexts
    OutMax = 1
    OnePart = 3
    PerPart = 2
    Refs = 3
    MaxSends = 2
    MaxFaults = 2
CHECK_DEADLOCK FALSE
INVARIANTS Told

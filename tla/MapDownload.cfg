SPECIFICATION Spec
CONSTANTS
    MaxDownloads = 2
    MaxThreads = 2
    Size = 4
    SplitSize = 3
    Buffer = 2
    Rewind = 1
    MaxVersion = 2
    Slots = 2
    MaxActs = 2
INVARIANTS
    TypeOK
    UpToDateUndisturbed
    InstalledIsWhole
    RangeFetched
    TempGone
    CancelHeeded
CHECK_DEADLOCK FALSE

SPECIFICATION Spec
CONSTANTS
    p1 = p1
    p2 = p2
    p3 = p3
    p4 = p4
    p5 = p5
    p6 = p6
    Id = {p1, p2, p3, p4}
    DataSize <- MCSizes
    EntrySize = 2
    CacheSize = 6
    MaxHeld = 3
INVARIANTS
    TypeOK
    HashMatchesLists
    HeldIsResident
    BytesAddUp
    TargetInRange
PROPERTIES
    StoreSpec

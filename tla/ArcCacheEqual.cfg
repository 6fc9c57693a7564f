SPECIFICATION Spec
CONSTANTS
    p1 = p1
    p2 = p2
    p3 = p3
    p4 = p4
    p5 = p5
    p6 = p6
    Id = {p1, p2, p3, p4, p5, p6}
    DataSize <- MCEqual
    EntrySize = 3
    CacheSize = 6
    MaxHeld = 2
SYMMETRY Symmetry
INVARIANTS
    ResidentFits
    TotalFits

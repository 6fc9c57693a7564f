SPECIFICATION Spec
CONSTANTS
    FixThread <- TwoThreads
    Active <- FixesAndMotions
    Flood <- Nothing
    MaxSent = 4
    MaxQueue = 1
    TickBatch = 2
    KeepFixes = 1
INVARIANTS FixesBounded FixesInOrder NewestFixKept LastMotionDrawn

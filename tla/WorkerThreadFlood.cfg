SPECIFICATION FairSpec
CONSTANTS
    FixThread <- Listener
    Active <- TicksAndMessages
    Flood <- Flooding
    MaxSent = 2
    MaxQueue = 1
    TickBatch = 1
    KeepFixes = 1
INVARIANTS TypeOK NoLostWakeup CoreFirst
PROPERTY FixServed

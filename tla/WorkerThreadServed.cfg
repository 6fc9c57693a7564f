SPECIFICATION FairSpec
CONSTANTS
    FixThread <- Listener
    Active <- Served
    Flood <- OnlyTicks
    MaxSent = 1
    MaxQueue = 2
    TickBatch = 2
    KeepFixes = 1
PROPERTY AllServed

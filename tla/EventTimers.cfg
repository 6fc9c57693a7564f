SPECIFICATION FairSpec
CONSTANTS
    t1 = t1
    t2 = t2
    Timer <- MCTimer
    NoTimer = NoTimer
    BatchLimit = 2
    MaxQueue = 2
INVARIANT TypeOK
PROPERTIES DispatchLive RoundEnds TimerServed

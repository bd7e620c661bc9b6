SPECIFICATION FairSpec
CONSTANTS
    Thread = {t1, t2}
    Buffer = {x}
    Idle = Idle
    None = None
    CatchUp = 2
    FarBehind = 1
    Unflipped = 2
    MaxCalls = 1
INVARIANTS
    XfbPresentedOnce
    WaitsPaceTheGame
PROPERTIES
    WaitsEnd

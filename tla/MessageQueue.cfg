SPECIFICATION FairSpec
CONSTANTS
    t1 = t1
    t2 = t2
    t3 = t3
    m1 = m1
    m2 = m2
    Thread <- MCThread
    Message <- MCMessage
    Capacity = 2
    NoOp = NoOp
    Blank = Blank
INVARIANTS
    NoLostWakeup
PROPERTIES
    ImplementsChannel
    BlockedMakeProgress

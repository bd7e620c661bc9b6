SPECIFICATION FairSpec
CONSTANTS
    Threads = {t1}
    Fds <- MCFds
    Natives = {n1, n2}
    Sessions <- MCSessions
    MaxToken = 2
    MaxGeneration = 3
    Closed = Closed
    NoFd = NoFd
    NoThread = NoThread
INVARIANTS
    CallersAreServed
    PeerIsOwn
PROPERTIES
    SessionFollowsSocket
    ImplementsRequests
    CallsComeBack
CONSTRAINT
    SecondSessionEarly
CHECK_DEADLOCK FALSE

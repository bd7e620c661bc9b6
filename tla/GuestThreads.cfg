SPECIFICATION Spec
CONSTANTS
    main = main
    a = a
    b = b
    mu1 = mu1
    mu2 = mu2
    w = w
    none = none
    Thread <- ThreeThreads
    Main = main
    Mutex <- TwoMutexes
    WaitQueue <- OneQueue
    Low = 2
    MaxWake = 256
    MaxDisabled = 1
    Games <- AllGames
    None = none
SYMMETRY Symmetric
INVARIANTS
    TypeOK
    QueuesWellFormed
    QueuesMatchStates
    MutexDiscipline
    OwnersInherit
    PriorityRespected
    OneRunner
    TimersBelongToSleepers
    LifeCycle
    JoinersWokenAtEnd
    NoStrandedSleeper

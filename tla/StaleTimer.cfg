SPECIFICATION Spec
CONSTANTS
    main = main
    a = a
    b = b
    mu1 = mu1
    mu2 = mu2
    w = w
    none = none
    Thread <- ThreeThreads
    Main = main
    Mutex <- TwoMutexes
    WaitQueue <- OneQueue
    Low = 1
    MaxWake = 256
    MaxDisabled = 1
    Games <- StaleTimerGames
    None = none
SYMMETRY Symmetric
INVARIANTS
    TimersBelongToSleepers

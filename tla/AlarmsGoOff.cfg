SPECIFICATION FairSpec
CONSTANTS
    a1 = a1
    a2 = a2
    a3 = a3
    high = high
    low = low
    idle = idle
    none = none
    Alarm <- TwoAlarms
    Thread <- TwoThreads
    Priority <- TwoPriorities
    Idle = idle
    None = none
    Ticks = {0, 1}
    Periods = {2}
    Leads <- OffGrid
    Limit = 2
    MaxTime = 3
    GuestCalls <- SetCalls
    HandlerCalls <- AnyCancel
INVARIANTS
    HandlersRunAlone
    SchedulerRestored
PROPERTIES
    DueAlarmsGoOff
    PeriodicOnGrid

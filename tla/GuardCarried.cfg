SPECIFICATION Spec
CONSTANTS
    a1 = a1
    a2 = a2
    a3 = a3
    high = high
    low = low
    idle = idle
    none = none
    Alarm <- TwoAlarms
    Thread <- TwoThreads
    Priority <- TwoPriorities
    Idle = idle
    None = none
    Ticks = {1}
    Periods = {2}
    Leads <- Past
    Limit = 2
    MaxTime = 2
    GuestCalls <- AllCalls
    HandlerCalls <- AnyCancel
INVARIANTS
    GuardNotCarried

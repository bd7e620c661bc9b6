SPECIFICATION Spec
CONSTANTS
    a1 = a1
    a2 = a2
    a3 = a3
    high = high
    low = low
    idle = idle
    none = none
    Alarm <- ThreeAlarms
    Thread <- OneThread
    Priority <- OnePriority
    Idle = idle
    None = none
    Ticks = {0}
    Periods = {1}
    Leads <- Past
    Limit = 2
    MaxTime = 1
    GuestCalls <- AllCalls
    HandlerCalls <- AnyCancel
SYMMETRY Symmetric
INVARIANTS
    TypeOK
    ListWellFormed
PROPERTIES
    ImplementsClock

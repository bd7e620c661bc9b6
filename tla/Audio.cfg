SPECIFICATION Spec
CONSTANTS
    BlockUnits = 2
    WaveUnits = 3
    WaveBufs = 2
    LimitUnits = 5
    MaxQueued = 1
    MaxBlocks = 3
    BlocksPerTick = 2
    CatchUpBlocks = 2
    BacklogBlocks = 1
    MaxCalls = 1
INVARIANTS
    MixIsAlone
    MixReadsTheMail
    NoLostWakeup
PROPERTIES
    AuxMovesOn
    ImplementsLine
CHECK_DEADLOCK FALSE

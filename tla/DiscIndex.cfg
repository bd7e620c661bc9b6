SPECIFICATION Spec
CONSTANTS
    nowhere = nowhere
    va = va
    vb = vb
    vs = vs
    ma = ma
    mb = mb
    mn = mn
    huge = huge
    Nowhere = nowhere
    Path <- MCPath
    Host <- MCHost
    FileSize <- MCFileSize
    NameOf <- MCNameOf
    Below <- MCBelow
    Discs <- MCDiscs
    Word = 4
    Align = 32
    Limit = 64
    MaxFiles = 4
    MaxOpen = 2
    HeaderSize = 4
    Offset <- MCOffset
    Length <- MCLength
    Bias = {1}
    Place <- MCPlace
    Fragile = {va}
    NoPath = NoPath
INVARIANTS
    TypeOK
    OverlaysOutrank
    SyntheticApart
PROPERTIES
    ImplementsDrive
CHECK_DEADLOCK FALSE

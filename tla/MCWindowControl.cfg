\* Handovers between two links; one remembered window does not fit 16
\* bits (here 3), and an old acknowledgement counts as 63 bytes.
CONSTANTS
    MaxRows = 2
    MaxData = 13
    U16 = 8
    I31 = 32
    Scale = 4
    ClampFloor = 2
    Threshold = 75
    Pace = 50
    HistWindows = {3, 5, 8}
    Rtt <- LinkRtt
    BurstInterval = 2
    Received = {12, 63}
SPECIFICATION FairSpec
INVARIANTS
    TypeOK
    OtherLinkRemembered
    PhasesSettle
    BurstOnlyRaises
PROPERTY
    FreezeEnds
CHECK_DEADLOCK FALSE

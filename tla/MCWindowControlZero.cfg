\* A handover that finds the window at 0, after idle samples.
CONSTANTS
    MaxRows = 2
    MaxData = 13
    U16 = 8
    I31 = 32
    Scale = 4
    ClampFloor = 2
    Threshold = 75
    Pace = 50
    HistWindows = {3, 5}
    Rtt <- LinkRtt
    BurstInterval = 2
    Received = {12, 63}
SPECIFICATION Spec
INVARIANT
    LinkSwitched
CHECK_DEADLOCK FALSE

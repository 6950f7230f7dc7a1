\* Reordering is armed again, by a second HO, while packets are held.
CONSTANTS
    MaxPackets = 3
    MaxCalls = 4
    Headers <- PlainHeaders
    AckValues = {1}
    Marks = {1, 2}
    Windows = {1}
    Drops = {1, 2}
    Counts = {1, 3, 9}
    Offsets = {1, 2}
    U16 = 8
    WORKER_MAX_REORDER_COUNT = 2
    Overlap = TRUE
SPECIFICATION Spec
INVARIANT
    NoPacketForgotten
CHECK_DEADLOCK FALSE

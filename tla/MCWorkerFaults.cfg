\* Loss, reordering and mark changes in every interleaving; no trace re-arms
\* reordering while packets are held, and no offset is 0.
CONSTANTS
    MaxPackets = 5
    MaxCalls = 4
    Headers <- PlainHeaders
    AckValues = {1}
    Marks = {1, 2}
    Windows = {1}
    Drops = {1, 2}
    Counts = {1, 3, 9}
    Offsets = {1, 2}
    U16 = 8
    WORKER_MAX_REORDER_COUNT = 2
    Overlap = FALSE
SPECIFICATION Spec
INVARIANTS
    TypeOK
    OneVerdict
    NoPacketForgotten
    ReorderWithinBuffer
    AtMostOneStaleMark
PROPERTY
    ImplementsPacketFate
CHECK_DEADLOCK FALSE

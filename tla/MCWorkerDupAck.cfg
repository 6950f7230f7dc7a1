\* Suppression without enable_rw, which is what SOL_HANDLEDUP alone turns on.
CONSTANTS
    MaxPackets = 3
    MaxCalls = 3
    Headers <- AckHeaders
    AckValues = {1, 2}
    Marks = {1}
    Windows = {1}
    Drops = {}
    Counts = {}
    Offsets = {1}
    U16 = 8
    WORKER_MAX_REORDER_COUNT = 2
    Overlap = FALSE
SPECIFICATION Spec
PROPERTY
    RepeatedAckSuppressed
CHECK_DEADLOCK FALSE

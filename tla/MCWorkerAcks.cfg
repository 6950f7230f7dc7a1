\* Duplicate suppression and window rewriting, with reordering between them;
\* last_ack and tune_rwnd start with whatever malloc returned.
CONSTANTS
    MaxPackets = 3
    MaxCalls = 3
    Headers <- AckHeaders
    AckValues = {1, 2}
    Marks = {1}
    Windows = {1, 2, 3}
    Drops = {1}
    Counts = {1}
    Offsets = {1}
    U16 = 8
    WORKER_MAX_REORDER_COUNT = 2
    Overlap = FALSE
SPECIFICATION Spec
INVARIANTS
    DroppedAckWasDelivered
    WindowNeverRaised
CHECK_DEADLOCK FALSE

\* Rows with a gap and without, every loss 0..2, count 0..4 (capped at 3), offset 0..3, and enough packets to see
\* past the release, any of them before the gap; a reordering handover loses one
\* packet more than it reorders.
CONSTANTS
    MaxPackets = 12
    MaxCalls = 3
    LossExtra = 1
    Gaps = {0, 1}
    Headers <- PlainHeaders
    AckValues = {1}
    Marks = {1, 2}
    Windows = {1}
    Drops = {1, 2}
    Counts = {1, 2, 3, 4}
    Offsets = {0, 1, 2, 3}
    U16 = 8
    WORKER_MAX_REORDER_COUNT = 3
    Overlap = FALSE
SPECIFICATION GapSpec
INVARIANTS
    BacklogOnNewLink
    BacklogLoses
    DocumentedOrder
CHECK_DEADLOCK FALSE

\* A queue with three slots and more packets than that; two gaps, failing
\* recv calls, a teardown at any moment.  malloc may return
\* the zeroes of a fresh page or the text of a trace line that was freed.
CONSTANTS
    MaxPackets = 5
    MaxCalls = 5
    MaxErrors = 2
    Lengths = {1, 9}
    Garbage = {"NFQ_STOPPED", "OTHER"}
    NFQ_QUEUE_SIZE = 3
    NFQ_PKT_SIZE = 3
    NFQ_MSG_BUF = 5
    WORKER_MAX_REORDER_COUNT = 2
    Overhead = 1
SPECIFICATION FairSpec
INVARIANTS
    AtMostOneStraggler
    EveryWaitingPacketIsReachable
PROPERTY
    StartDrains
CHECK_DEADLOCK FALSE

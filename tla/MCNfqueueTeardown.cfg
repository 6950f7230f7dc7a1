\* A teardown while the callback runs.
CONSTANTS
    MaxPackets = 3
    MaxCalls = 3
    MaxErrors = 2
    Lengths = {1, 9}
    Garbage = {"NFQ_STOPPED"}
    NFQ_QUEUE_SIZE = 3
    NFQ_PKT_SIZE = 3
    NFQ_MSG_BUF = 5
    WORKER_MAX_REORDER_COUNT = 2
    Overhead = 1
SPECIFICATION Spec
INVARIANT
    WorkerReleasedAfterUse
CHECK_DEADLOCK FALSE

\* Traces with two handovers or two window-controller rows on two queues.
CONSTANTS
    Traces <- AllTraces
    Queues = {0, 1}
    LossExtra = 1
    SCHEDULER_MAX_EVENT = 19
    NoFire = 1000
    Leftover <- Garbage
SPECIFICATION FairSpec
INVARIANTS
    NoDanglingContext
    GapHonoured
    HandoverInForce
    PhasesHonoured
PROPERTY
    EveryQueueTornDown
CHECK_DEADLOCK FALSE

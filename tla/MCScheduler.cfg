\* Traces of up to four events, one more than fits, at three times.
CONSTANTS
    SCHEDULER_MAX_EVENT = 3
    MaxAdds = 4
    MaxTime = 6
    Times = {0, 2, 5}
    Handlers <- Effects
    NoFire = 100
SPECIFICATION FairSpec
INVARIANTS
    TypeOK
    StableOrder
    NoEventLeftOut
    EarliestFirst
PROPERTY
    RunEnds
CHECK_DEADLOCK FALSE

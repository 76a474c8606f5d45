SPECIFICATION Spec
CONSTANTS
    Threads = {t1, t2}
    NoThread = NoThread
    Sizes = {2, 3}
    Limits = {0, 5}
    MaxEvents = 3
    MaxOpens = 2
INVARIANTS
    TypeOK
    WithinLimit
    FlushedEventsSurvive
PROPERTIES
    RefusesOnlyWhenFull
    RecordReturns
CHECK_DEADLOCK FALSE

SPECIFICATION Spec
CONSTANTS
    Threads = {t1}
    NoThread = NoThread
    Sizes = {2}
    Limits = {0}
    MaxEvents = 3
    MaxOpens = 2
INVARIANT LinesAreWhole
CHECK_DEADLOCK FALSE

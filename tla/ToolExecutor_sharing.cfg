\* Two runs on one Tool object; r1 executes its calls in parallel, r2 does not.
SPECIFICATION FairSpec
CONSTANTS
    Runs = {r1, r2}
    Tools = {t1}
    BadCall = BadCall
    NoOwner = NoOwner
    MaxCalls = 3
    ParallelRuns = {r1}
    MaxParallelToolCalls = 2
INVARIANTS
    TypeOK
    OneInvocationPerTool
PROPERTIES
    EveryRequestReturns
    ImplementsContract

\* One run of up to five calls on two Tool objects: batches of two, two and one.
SPECIFICATION Spec
CONSTANTS
    Runs = {r1}
    Tools = {t1, t2}
    BadCall = BadCall
    NoOwner = NoOwner
    MaxCalls = 5
    ParallelRuns = {r1}
    MaxParallelToolCalls = 2
INVARIANTS
    BoundedWindow
    ResultsInRequestOrder
    InvokedOnce
    CompleteOnReturn

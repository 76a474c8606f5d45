SPECIFICATION Spec
CONSTANTS
    t1 = t1
    c1 = c1
    c2 = c2
    Runs = {r1}
    Sessions = {s1}
    Tools <- MCTools
    Responses <- MCResponses
    BadCall = BadCall
    NoRun = NoRun
    NoSystem = NoSystem
    NoCount = NoCount
    NoId = NoId
    None = None
    SystemTexts = {y1}
    MaxCalls = 2
    MaxModelRounds = 3
    MaxImported = 1
    CountMax = 3
    ParallelRuns = {}
    StoppingRuns = {r1}
    MaxParallelToolCalls = 2
INVARIANT
    NothingUnresolved

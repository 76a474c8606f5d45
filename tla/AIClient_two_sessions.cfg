SPECIFICATION FairSpec
CONSTANTS
    t1 = t1
    c1 = c1
    c2 = c2
    Runs = {r1, r2}
    Sessions = {s1, s2}
    Tools <- MCTools
    Responses <- MCResponses
    BadCall = BadCall
    NoRun = NoRun
    NoSystem = NoSystem
    NoCount = NoCount
    NoId = NoId
    None = None
    SystemTexts = {}
    MaxCalls = 2
    MaxModelRounds = 2
    MaxImported = 0
    CountMax = 3
    ParallelRuns = {r1}
    StoppingRuns = {r1}
    MaxParallelToolCalls = 2
PROPERTY
    LeaseIsReturned

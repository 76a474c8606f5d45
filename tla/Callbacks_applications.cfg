CONSTANTS
    u1 = u1
    u2 = u2
    c1 = c1
    c2 = c2
    toolA = toolA
    toolB = toolB
    s1 = s1
    s2 = s2
    s3 = s3
    s4 = s4
    Callers = {u1, u2}
    Workers = {w1, w2, w3}
    Clients = {c1, c2}
    Tools = {toolA, toolB}
    Sessions = {s1, s2, s3, s4}
    Tracer = Tracer
    NoThread = NoThread
    Keys = {key}
    Types = {int, text}
    Absent = Absent
    MaxUpdates = 3
    MaxLevel = 3
    Applications <- AllApplications
SPECIFICATION Spec
CHECK_DEADLOCK FALSE
INVARIANTS
    TypeOK
    CallbacksAreSerialized
    NoUpdateIsLost
    StuckOnlyWithoutRule
PROPERTIES
    OnlyCompletedUpdatesCount
    EverythingReturns

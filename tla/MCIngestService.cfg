SPECIFICATION MCSpec
CONSTANTS
    q1 = q1
    q2 = q2
    k1 = k1
    a = a
    b = b
    Requests = {q1}
    RequestSize <- MCRequestSize
    MaxPolls = 1
    Workers = {w1}
    MaxCapacity = 2
    BatchSize = 1
    FlushCap = 1
    Persist = FALSE
    NoCall = NoCall
    Keys = {k1}
    Confs = {a}
    NoConf = NoConf
    Static <- MCStatic
    MaxStarts = 1
    NoRunner = NoRunner
    MaxChanges = 1
INVARIANTS
    ExitSettles
PROPERTIES
    QuietStopIsSafe
    ShutdownEnds

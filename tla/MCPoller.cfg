SPECIFICATION MCSpec
CONSTANTS
    k1 = k1
    k2 = k2
    a = a
    b = b
    Keys = {k1, k2}
    Confs = {a, b}
    NoConf = NoConf
    Static <- MCStatic
    MaxStarts = 3
    NoRunner = NoRunner
    MaxChanges = 2
INVARIANTS
    OneRunnerPerTarget
PROPERTIES
    StaleReportIsLast
    RunnersEnd
    Converges

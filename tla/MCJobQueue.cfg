SPECIFICATION MCSpec
CONSTANTS
    Jobs = {good, bad}
    OrgOf <- MCOrgOf
    Bad = {bad}
    Workers = {w1, w2}
    NoJob = NoJob
    MaxAttempts = 2
    MaxFaults = 1
INVARIANTS
    OneRunnerPerJob
    RetriesBounded
    SyncedIsFinal
PROPERTIES
    SpecsSettle

SPECIFICATION MCSpec
CONSTANTS
    Jobs = {good, bad}
    OrgOf <- MCOrgOf
    Bad = {bad}
    Workers = {w1, w2}
    NoJob = NoJob
    MaxAttempts = 2
    MaxFaults = 1
PROPERTY RetriedOrDeadLettered

SPECIFICATION MCSpec
CONSTANTS
    MaxOffset = 4
    Kind <- MCKind
    Alerts <- MCAlerts
    MaxRetries = 1
    MaxFaults = 3
INVARIANT FailedIsRetried

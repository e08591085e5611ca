SPECIFICATION MCSpec
CONSTANTS
    None = None
    Owners = {p1}
    Callers = {c1, c2}
    TTL = 1
    MaxRotations = 2
    MaxTime = 2
    MaxAlerts = 3
    MaxStarts = 3
    Urls = {"u1"}
    Collections <- MCCollections
    HistorySize = 2
    MaxSends = 3
    MaxRows = 3
    MaxSteps = 2
    Apis = {"a1"}
    Endpoints = {"e1"}
    ApiOf <- MCApiOf
    MaxOps = 2
    Members = {"m1", "m2"}
    MaxRequests = 2
    Counted = {"b1", "b2"}
    EndpointsOf <- MCEndpointsOf
    Summaries <- MCSummaries
    Quiet <- MCQuiet
    Failed = Failed
    Texts = {{"api", "test"}, {"metric"}, {}}
    MaxBack = 1
    MaxRenames = 1
INVARIANTS
    VerdictIsCurrent
    ShownKeyIsCurrent
    AlertsAreNotSkipped
    RowIdsUnique
    HistoryIsRecent
    ShowsOwnWrites
    ShowsWhatIsStored
    CountSettles
CHECK_DEADLOCK FALSE

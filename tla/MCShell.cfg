SPECIFICATION MCSpec
CONSTANTS
    Reqs = {poll, logout}
    Mutating = {logout}
    Logout = logout
    Tokens = 3
    None = None
    MaxFailures = 1
    Limit = 1
    Loads = {l1, l2}
    Marks = {m1}
    MaxRows = 2
    MaxMarks = 2
    Ranges = {"24h", "1h"}
    DefaultRange = "24h"
    Records <- MCRecords
    ListLimit = 2
    Threshold = 2
    Batches <- MCBatches
    MaxQueue = 1
    MaxCount = 5
    MaxLate = 2
    MaxTests = 1
    MaxEdits = 1
    MaxFaults = 1
INVARIANTS
    OneRefresh
    CsrfMatches
    LogoutSticks
    ShowsTheSelection
PROPERTIES
    RequestsSettle
    ShowsNewest
    AutoRefreshRecovers
    FailingIsPaused

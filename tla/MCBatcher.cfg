SPECIFICATION MCSpec
CONSTANTS
    c1 = c1
    c2 = c2
    c3 = c3
    Calls <- MCCalls
    Size <- MCSize
    Workers = {w1, w2}
    MaxCapacity = 2
    BatchSize = 2
    FlushCap = 1
    Persist = TRUE
    NoCall = NoCall
INVARIANTS
    SendNeverBlocks
    StopDrains
    AllOrNothing
    SinksAgree
    OrderKept
PROPERTIES
    StopCompletes
    EventsSettle
    ImplementsDelivery

SPECIFICATION Spec
CONSTANTS
    Null = Null
    k1 = k1
    k2 = k2
    RawConfigs <- SomeConfigs
    Requests <- SomeRequests
    Responses <- SomeResponses
INVARIANTS
    TypeOK
    SameKeyAttributed
    ChargedOnce
    ChargedAsUsed
    ChargedWithoutCallback

SPECIFICATION FairSpec
CONSTANTS
    Null = Null
    Weekly = TRUE
    CalendarLen = 4
    ZoneOffset = 1
    k1 = k1
    r1 = r1
    r2 = r2
    Keys = {k1}
    Requests = {r1, r2}
    KeyOf <- OneKey
    Limit <- LowLimits
    MaxCost = 1
    ResetTimes = {1, 3}
    MaxUsed = 3
    MaxTime = 2
    MaxLag = 0
PROPERTY RecoversWithoutResponse

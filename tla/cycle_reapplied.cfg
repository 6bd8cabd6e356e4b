SPECIFICATION Spec
CONSTANTS
    Null = Null
    Weekly = TRUE
    CalendarLen = 3
    ZoneOffset = 1
    r1 = r1
    r2 = r2
    r3 = r3
    l1 = l1
    Requests = {r1, r2}
    Lookups = {l1}
    ResetTimes = {2, 4}
    MaxTime = 3
    MaxLag = 1
PROPERTY LateUsageStaysOut

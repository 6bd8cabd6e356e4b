SPECIFICATION Spec
CONSTANTS
    Null = Null
    s1 = s1
    s2 = s2
    s3 = s3
    a1 = a1
    a2 = a2
    c1 = c1
    c2 = c2
    x1 = x1
    x2 = x2
    x3 = x3
    Stores = {s1, s2, s3}
    Admins = {a1, a2}
    Callers = {c1, c2}
    Secrets = {x1, x2, x3}
    ResetTimes = {2, 4}
    CalendarLen = 3
    MaxTime = 4
    MaxLag = 1
    MaxConfigures = 2
SYMMETRY Symmetry
INVARIANTS
    TypeOK
    StoresOwned
    SecretKept
PROPERTIES
    LearnedBoundaryKept
    StartNotLost

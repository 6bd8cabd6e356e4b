SPECIFICATION Spec
CONSTANTS
    Null = Null
    q1 = q1
    q2 = q2
    k1 = k1
    s1 = s1
    s2 = s2
    Requests = {q1}
    Tagged = {q1}
    Keys = {k1}
    KeyOf <- OneKey
    Cost <- Weights
    Stores = {s1}
    Retention = 1
    MaxDay = 0
    MaxPeriod = 0
INVARIANT InterceptedIsCounted

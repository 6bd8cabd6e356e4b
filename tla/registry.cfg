SPECIFICATION Spec
CONSTANTS
    Null = Null
    k1 = k1
    k2 = k2
    r1 = r1
    r2 = r2
    o1 = o1
    o2 = o2
    Keys = {k1, k2}
    KeyOf <- OneKey
    Requesters = {r1, r2}
    Operators = {o1, o2}
    Limits = {1}
    Bodies <- SomeBodies
    DefaultLimit = Null
    MaxUsed = 1
    MaxCalls = 2
SYMMETRY Symmetry
INVARIANTS
    TypeOK
    ActiveByApproval
PROPERTIES
    AuthExplained
    OperatorsDecide
    ListWhole

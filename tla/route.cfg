SPECIFICATION Spec
CONSTANTS
    Null = Null
    ta = ta
    tb = tb
    f1 = f1
    f2 = f2
    p1 = p1
    Targets = {ta, tb}
    Order <- TwoTargets
    Rules <- MixedRules
    Headers <- SomeHeaders
    Failures = {f1, f2}
    Pickers = {p1}
    PerSecond = 2
    DurationMax = 16
    MaxTime = 5
SYMMETRY Symmetry
INVARIANTS
    TypeOK
    PickTakesFree
    BanBounded
PROPERTY PickAvoidsBans

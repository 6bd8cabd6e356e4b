SPECIFICATION Spec
CONSTANTS
    Null = Null
    s1 = s1
    s2 = s2
    Streams = {s1, s2}
    Bare = {s2}
    MaxChunks = 3
    TTL = 2
    MaxTime = 4
    MaxLag = 1
INVARIANTS
    TypeOK
    RecordedWhole
    TerminalCounted

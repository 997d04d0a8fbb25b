CONSTANTS
    Projects = {p1, p2}
    Clients = {c1, c2, c3}
    MaxEvents = 1
    Garbled = garbled
    c1 = c1
    c2 = c2
    p1 = p1
    Queries <- ReaderQueries
    Limit = 2
    MaxPages = 2
SPECIFICATION SearchSpec
INVARIANTS
    TypeOK
    StoredOnce
    DamageLocated
    ConflictExplained
    SkippedByFullPages
PROPERTIES
    AppendOnly
    LoopEnds
CHECK_DEADLOCK FALSE

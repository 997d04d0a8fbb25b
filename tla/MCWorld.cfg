CONSTANTS
    w1 = w1
    w2 = w2
    edit = edit
    open = open
    Worlds = {w1, w2}
    Actions = {edit, open}
    Once = {open}
    Fallible = {}
    Torn = {open}
    Silent = {}
    Seeds <- OldProject
    MaxCalls = 2
    MaxFaults = 0
    NoDoc = NoDoc
SPECIFICATION Spec
INVARIANTS
    TypeOK
    ConflictsAreOthers
    AuditHonest
PROPERTIES
    ImplementsAtomicProject
CHECK_DEADLOCK FALSE

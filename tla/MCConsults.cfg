CONSTANTS
    k1 = k1
    k2 = k2
    None = None
    Calls = {k1, k2}
    Requests = {k1, k2}
    EventTypes = {"working", "completed", "input-required"}
    MaxBlocks = 3
    Workers = {w1, w2}
    Windows = {1, 2}
    Matching = {2, 4}
    MaxLines = 5
    Subagents <- Names
    Target <- Consulted
    Setups <- AllSetups
    Deliverables <- Returned
    Digest <- Digests
    Safe <- SafeNames
    MaxOthers = 1
SPECIFICATION Spec
INVARIANTS
    TypeOK
    NamedArtefactsKept
    OrphansExplained
    OneRecordPerConsult
    ActiveSubscribed
    ParsedAsSent
PROPERTIES
    SettledOnce
    PagesJoin
    TalkingOrDone
CHECK_DEADLOCK FALSE

CONSTANTS
    w1 = w1
    w2 = w2
    edit = edit
    open = open
    Worlds = {w1, w2}
    Actions = {edit, open}
    Once = {open}
    Fallible = {open, edit}
    Torn = {}
    Silent = {}
    Seeds <- NewProject
    MaxCalls = 1
    MaxFaults = 1
    NoDoc = NoDoc
SPECIFICATION FairSpec
INVARIANTS
    SnapshotIsPrefix
    SummaryIsPrefix
PROPERTIES
    ImplementsDurableProject
    EventuallyFlushed
    LosersGetThrough
CHECK_DEADLOCK FALSE

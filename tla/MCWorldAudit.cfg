CONSTANTS
    w1 = w1
    w2 = w2
    edit = edit
    open = open
    Worlds = {w1, w2}
    Actions = {edit, open}
    Once = {open}
    Fallible = {}
    Torn = {}
    Silent = {}
    Seeds <- NewProject
    MaxCalls = 1
    MaxFaults = 0
    NoDoc = NoDoc
SPECIFICATION Spec
PROPERTY AuditAppendOnly
CHECK_DEADLOCK FALSE

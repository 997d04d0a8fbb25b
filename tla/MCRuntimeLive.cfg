CONSTANTS
    run1 = run1
    user = user
    open = open
    note = note
    advisor = advisor
    look = look
    status = status
    notes = notes
    Worlds = {run1, user}
    Runs = {run1}
    Actions = {open, note}
    Once = {open}
    Fallible = {}
    Torn = {}
    Silent = {}
    Seeds <- OldProject
    MaxCalls = 2
    MaxFaults = 1
    NoDoc = NoDoc
    Subagents = {advisor}
    Others = {look}
    Gated = {}
    Fields = {status, notes}
    Reads <- DeclaredReads
    Writes <- DeclaredWrites
    MaxIterations = 1
    MaxTurn = 1
    DirectCalls = 2
    ContinueStreakCap = 1
    RecoverCap = 2
    ActionLimit = NoLimit
    SubagentLimit = 1
    NoLimit = NoLimit
SPECIFICATION RFairSpec
INVARIANTS
    RepliesTrue
PROPERTIES
    RunsEnd
CHECK_DEADLOCK FALSE

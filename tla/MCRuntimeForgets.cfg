CONSTANTS
    run1 = run1
    user = user
    open = open
    note = note
    advisor = advisor
    look = look
    status = status
    notes = notes
    Worlds = {run1, user}
    Runs = {run1}
    Actions = {open, note}
    Once = {open}
    Fallible = {}
    Torn = {}
    Silent = {}
    Seeds <- OldProject
    MaxCalls = 2
    MaxFaults = 0
    NoDoc = NoDoc
    Subagents = {}
    Others = {}
    Gated = {}
    Fields = {status, notes}
    Reads <- DeclaredReads
    Writes <- DeclaredWrites
    MaxIterations = 2
    MaxTurn = 2
    DirectCalls = 1
    ContinueStreakCap = 1
    RecoverCap = 2
    ActionLimit = 2
    SubagentLimit = 1
    NoLimit = NoLimit
SPECIFICATION RSpec
INVARIANTS
    CommitsRemembered
CHECK_DEADLOCK FALSE

SPECIFICATION DocSpec
CONSTANTS
    Clients = {opencode, pi}
    OpenCode = opencode
    Pi = pi
    a = a
    b = b
    s1 = s1
    Services = {a, b}
    ServerIds = {s1}
    Selections <- MCSelections
    Jobs <- MCJobs
    Decided <- MCDecided
    Legacy <- MCLegacy
    NoDocument = NoDocument
    NoRecord = NoRecord
    NoJob = NoJob
    NoState = NoState
    NoServer = NoServer
    Found <- MCFound
    MaxChanges = 2
INVARIANT RepairHelps
CHECK_DEADLOCK FALSE

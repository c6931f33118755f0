SPECIFICATION PersistentSpec
CONSTANTS
    h1 = h1
    h2 = h2
    codex = codex
    opencode = opencode
    s1 = s1
    s2 = s2
    NoPlan = NoPlan
    Helpers <- OneSession
    Clients <- OneClient
    ClientOf <- SessionOfCodex
    Services = {s1, s2}
    MaxProposals = 5
    MaxApprovals = 5
    MaxCrashes = 1
    MaxResets = 0
    MaxEdits = 1
    MaxDecisions = 2
    MaxExpired = 1
PROPERTY PersistenceInstalls
CHECK_DEADLOCK FALSE

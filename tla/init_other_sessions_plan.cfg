SPECIFICATION Spec
CONSTANTS
    h1 = h1
    h2 = h2
    codex = codex
    opencode = opencode
    s1 = s1
    NoPlan = NoPlan
    Helpers <- TwoSessions
    Clients <- TwoClients
    ClientOf <- SessionsOfBoth
    Services = {s1}
    MaxProposals = 2
    MaxApprovals = 1
    MaxCrashes = 1
    MaxResets = 0
    MaxEdits = 0
    MaxDecisions = 0
    MaxExpired = 2
INVARIANT ApprovedAsShown
CHECK_DEADLOCK FALSE

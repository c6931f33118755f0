SPECIFICATION Spec
CONSTANTS
    h1 = h1
    h2 = h2
    codex = codex
    opencode = opencode
    s1 = s1
    s2 = s2
    NoPlan = NoPlan
    Helpers <- TwoSessions
    Clients <- TwoClients
    ClientOf <- SessionsOfBoth
    Services = {s1, s2}
    MaxProposals = 2
    MaxApprovals = 2
    MaxCrashes = 1
    MaxResets = 1
    MaxEdits = 1
    MaxDecisions = 1
    MaxExpired = 1
INVARIANT TypeOK
INVARIANT InstalledIsConfigured
INVARIANT UserEntriesKept
INVARIANT OneInstallPerApproval
INVARIANT RecordsKept
CONSTRAINT AnyTwo
SYMMETRY AnyServices
CHECK_DEADLOCK FALSE

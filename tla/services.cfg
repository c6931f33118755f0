SPECIFICATION Spec
CONSTANTS
    pi = pi
    opencode = opencode
    h1 = h1
    h2 = h2
    h3 = h3
    Helpers = {h1, h2, h3}
    s1 = s1
    s2 = s2
    Services = {s1, s2}
    Clients = {pi, opencode}
    Removing = {opencode}
    Reactivating = {pi}
    ClientOf <- MCClientOf
    MaxCalls = 3
    MaxCrashes = 1
    MaxEdits = 1
INVARIANT OffUnlessRepaired
INVARIANT EnabledIsConfigured
CHECK_DEADLOCK FALSE
SYMMETRY Alike

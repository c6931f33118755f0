SPECIFICATION Spec
CONSTANTS
    Nobody = Nobody
    Stranger = Stranger
    alpha = alpha
    beta = beta
    one = one
    two = two
    Procs = {one, two}
    Projects = {alpha, beta}
    Unmanaged = {beta}
    FirstPort = 9110
    LastPort = 9111
    Commands <- MCCommands
    Limit <- MCLimit
INVARIANT TypeOK
INVARIANT OnePortOneProject
INVARIANT BackendsKeepApart
PROPERTY CreateIsWhole
CHECK_DEADLOCK FALSE
SYMMETRY Alike

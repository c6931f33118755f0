SPECIFICATION Spec
CONSTANTS
    p1 = p1
    a1 = a1
    a2 = a2
    c1 = c1
    Projects = {p1}
    NoProject = NoProject
    Services <- MCServices
    Approvals <- MCApprovals
    Acts = {a1, a2}
    Calls = {c1}
    Ids <- MCIds
    NoId = 0
    NoProcess = NoProcess
    MaxInstances = 3
    MaxChanges = 1
INVARIANT TypeOK
INVARIANT RoutesFollowState
INVARIANT Stoppable
PROPERTY Settles
CHECK_DEADLOCK FALSE

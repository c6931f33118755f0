SPECIFICATION FairSpec
CONSTANTS
    Free = Free
    local = local
    harness = harness
    foreign = foreign
    w1 = w1
    w2 = w2
    Wrappers = {w1, w2, foreign}
    Bases = {local, harness}
    BaseOf <- MCBaseOf
    MaxLogins = 2
INVARIANT NoLoginStampede
INVARIANT TokenStaysHome
INVARIANT RevokedUnlessAdminExpired
PROPERTY Settles
CHECK_DEADLOCK FALSE

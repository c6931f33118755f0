SPECIFICATION FairSpec
CONSTANTS
    Nobody = Nobody
    codex = codex
    pi = pi
    Procs = {codex, pi}
    CasCallers = {codex}
    MaxCommits = 1
    MaxCrashes = 1
    Overstay = TRUE
    Rewinds = TRUE
INVARIANT TypeOK
INVARIANT SerializedUnlessLockStolen
PROPERTY CasNeverClobbers
PROPERTY AtomicUnlessMishap
PROPERTY OrphanIsRecovered

SPECIFICATION FairSpec
CONSTANTS
    u1 = u1
    u2 = u2
    j1 = j1
    j2 = j2
    Users = {u1, u2}
    JobIds = {j1, j2}
    Attempts = 2
    OsFails = TRUE
    None = None
INVARIANTS
    OneJobPerUser
    StopReachesProcesses
    NothingLeftBehind
PROPERTY StopEndsJob
CHECK_DEADLOCK FALSE

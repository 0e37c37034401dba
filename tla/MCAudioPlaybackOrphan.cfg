SPECIFICATION Spec
CONSTANTS
    u1 = u1
    u2 = u2
    j1 = j1
    j2 = j2
    Users = {u1, u2}
    JobIds = {j1, j2}
    Attempts = 2
    OsFails = FALSE
    None = None
SYMMETRY Symmetry
INVARIANT StopFindsPlayback
CHECK_DEADLOCK FALSE

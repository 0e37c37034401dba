SPECIFICATION FairSpec
CONSTANTS
    u1 = u1
    u2 = u2
    j1 = j1
    j2 = j2
    Users = {u1}
    JobIds = {j1}
    Attempts = 2
    OsFails = FALSE
    None = None
PROPERTY FilesRemoved
CHECK_DEADLOCK FALSE

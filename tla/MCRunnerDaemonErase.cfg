SPECIFICATION FairSpec
CONSTANTS
    JobIds = {j1}
    Modes = {"existing_container", "other", "unknown"}
    Phases <- AllPhases
    None = None
PROPERTIES
    CredentialsBlanked
CHECK_DEADLOCK FALSE

\* One task and its job: jobs share nothing but the lock and the container,
\* and the threads of one job contend for the lock.
SPECIFICATION RemoteSpec
CONSTANTS
    JobIds = {j1}
    Modes = {"existing_container", "other", "unknown"}
    Phases <- SomePhases
    None = None
    MaxIncarnation = 2
    MaxRestarts = 1
INVARIANTS
    OutcomesFit
    BlankOnlyWhenOver
    VerdictFromCheckedNamespace
    OutcomeTrue
    LeftBehindByLoss
CHECK_DEADLOCK FALSE
PROPERTIES
    EndIsFinal
    KnownJobsEndOrVanish
    ClientReturns

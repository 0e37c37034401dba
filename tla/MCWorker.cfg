\* Four bodies that compete for three request_ids, two users, two tasks; the
\* one token comes back with the tick of the clock.
SPECIFICATION FairSpec
CONSTANTS
    u1 = u1
    u2 = u2
    r1 = r1
    r2 = r2
    r3 = r3
    None = None
    Users = {u1, u2}
    RequestIds = {r1, r2, r3}
    TaskIds = {t1, t2}
    Payloads <- AllBodies
    Phases <- SomePhases
    RunnerUrl = FALSE
    GlobalLimit = 1
    UserLimit = 1
    Window = 0
    MaxTime = 1
INVARIANTS
    OneActiveTask
    RequestsBound
    OutcomeConsistent
    OnlyTimedOutRunnersLinger
    AuditFaithful
PROPERTIES
    EndIsFinal
    FollowsLifecycle
    TasksEnd

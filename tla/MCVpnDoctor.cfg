\* Two things go wrong, so that one does while the other is being repaired;
\* two tasks, so that one can come before the canary and one after it.
SPECIFICATION FairSpec
CONSTANTS
    HasProxy = TRUE
    MaxFaults = 2
    MaxTasks = 2
    MaxRuns = 1
INVARIANTS
    LoginJudgedIsOwn
    RepairConnects
    NoOldVerdict
PROPERTIES
    ToldTasksSpared
    Recovers
CHECK_DEADLOCK FALSE

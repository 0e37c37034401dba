\* Two jobs on one session, every configuration, one restart of the client.
SPECIFICATION Spec
CONSTANTS
    Jobs = {j1, j2}
    MaxRestarts = 1
SYMMETRY JobSymmetry
INVARIANTS
    CleanupOnce
    WarningsTrue
    OperationAfterPreflight
    LoginUndisturbed

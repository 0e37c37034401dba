SPECIFICATION Spec
CONSTANTS
    Users = {u1, u2}
    GlobalLimit = 3
    UserLimit = 2
    Window = 2
    MaxTime = 6
    MaxStep = 2
INVARIANTS
    WindowBounds
    RefusalJustified

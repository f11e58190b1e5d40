\* Four requests of one key; a window outlasts the delay of a goroutine.
CONSTANTS
    None = None
    Request = {r1, r2, r3, r4}
    Limit = 1
    Window = 3
    Horizon = 4
    Delay = 2
    MaxTime = 6
SYMMETRY Symmetry
SPECIFICATION Spec
CHECK_DEADLOCK FALSE
INVARIANTS
    TypeOK
    SlidingLimit
    TwoWindows
    RefusedOnlyWhenFull

\* What gt_status_string says of every status that is returned.
SPECIFICATION CallSpec
CONSTANTS
    Tasks = {t1, t2, t3, t4}
    Regions = {r1, r2, r3, r4}
    Capacity = 3
    NULL = NULL
    MainStack = MainStack
    TaskMayDestroy = TRUE
    ReleaseMayFail = TRUE
SYMMETRY Symmetry
INVARIANT StatusesNamed

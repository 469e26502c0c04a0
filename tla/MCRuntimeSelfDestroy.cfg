\* A task may call gt_destroy.
SPECIFICATION Spec
CONSTANTS
    Tasks = {t1, t2, t3, t4, t5}
    Regions = {r1, r2, r3, r4, r5}
    Capacity = 4
    NULL = NULL
    MainStack = MainStack
    TaskMayDestroy = TRUE
    ReleaseMayFail = FALSE
SYMMETRY Symmetry
INVARIANT StackAlive

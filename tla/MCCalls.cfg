\* Whatever the environment does: munmap may fail, a task may call gt_destroy.
\* Four identifiers for five addresses: a creation can fail for want of each
\* resource in turn.
SPECIFICATION CallSpec
CONSTANTS
    Tasks = {t1, t2, t3, t4, t5}
    Regions = {r1, r2, r3, r4, r5}
    Capacity = 4
    NULL = NULL
    MainStack = MainStack
    TaskMayDestroy = TRUE
    ReleaseMayFail = TRUE
SYMMETRY Symmetry
INVARIANTS
    TypeOK
    TasksAccounted
    IdsAccounted
    StacksAccounted
    ReadyQueueExact
    CurrentOwnsCpu
    ContextsLoadable
    NoInternalFailure
    RunDrains
    Inv
PROPERTIES
    TaskLifeCycle
    ConfigurationKept
    NobodyOvertakes
    CreationAllOrNothing
    ExhaustedExactlyWhenFull

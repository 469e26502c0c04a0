\* Liveness: no symmetry.  Three identifiers for four tasks: a queue in which
\* order matters, and a run that cannot create a fourth task.
SPECIFICATION FairSpec
CONSTANTS
    Tasks = {t1, t2, t3, t4}
    Regions = {r1, r2, r3}
    Capacity = 3
    NULL = NULL
    MainStack = MainStack
    TaskMayDestroy = TRUE
    ReleaseMayFail = FALSE
INVARIANTS
    StackHeld
    NothingLeftMapped
PROPERTIES
    ReadyTasksRun
    ReleaseLoopsEnd
    RunEnds
    ImplementsCoopSched

\* A build with sibling-call optimisation (gcc -O2).
SPECIFICATION Spec
CONSTANTS
    Tasks = {t1, t2, t3}
    Main = Main
    NULL = NULL
    Depth = 9
    MaxFrames = 1
    TailCall = TRUE
INVARIANT LoadNeverReturns

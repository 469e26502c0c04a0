\* The debug build: every call is a call.
SPECIFICATION Spec
CONSTANTS
    Tasks = {t1, t2, t3}
    Main = Main
    NULL = NULL
    Depth = 10
    MaxFrames = 2
    TailCall = FALSE
INVARIANTS
    TypeOK
    StackBalanced
    WaitingIntact
    RegistersKept
    LoadNeverReturns

\* 16 pages' worth of sizes, every one of them asked for, in nine pages: two
\* stacks side by side, and a third where they leave room.
SPECIFICATION Spec
CONSTANTS
    Owners = {s1, s2, s3}
    WordSize = 32
    PageSize = 2
    LastPage = 9
    DefaultSize = 4
    ReleaseMayFail = FALSE
INVARIANTS
    GuardsHold
    RoomAsked
    PagesAccounted

\* Two lists that share five nodes, as rt_tasks and rt_zombies share runtime nodes.
SPECIFICATION Spec
CONSTANTS
    Lists = {l1, l2}
    Nodes = {n1, n2, n3, n4, n5}
    NULL = NULL
    MayPushLinked = FALSE
INVARIANTS
    ListInvariant
    TraversalsAgree
    WalkVisitsAll

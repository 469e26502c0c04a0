\* A caller admits a task that is in the queue already.
SPECIFICATION Spec
CONSTANTS
    Lists = {l1, l2}
    Nodes = {n1, n2, n3, n4, n5}
    NULL = NULL
    MayPushLinked = TRUE
INVARIANT ListInvariant

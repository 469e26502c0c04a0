\* Words of four bits: capacities of one to three words, whole and partial.
SPECIFICATION Spec
CONSTANTS
    WordBits = 4
    MaxIds = 10
    NULL = NULL
INVARIANTS
    TrailingBitsClear
    SearchesExact
    OwnedAreAllocated
PROPERTY
    ImplementsIdSet

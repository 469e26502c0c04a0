------------------------------- MODULE IdPool --------------------------------
(***************************************************************************)
(* The identifier pool (ds/id_pool/id_pool.h) over its bitmap              *)
(* (ds/bitmap/bitmap.h), word by word.  A word is the set of the offsets   *)
(* of its set bits, so ~w is a set difference, w & mask an intersection    *)
(* and __builtin_ctzl the least element.                                   *)
(***************************************************************************)
EXTENDS Integers, FiniteSetsExt

CONSTANTS
    WordBits,   \* GT_BITS_PER_WORD
    MaxIds,     \* the total_ids that the storage has room for (bound)
    NULL

ASSUME WordsHaveBits == WordBits \in Nat \ {0}
ASSUME SomeIds == MaxIds \in Nat \ {0}
ASSUME NullIsNoId == NULL \notin 0 .. MaxIds - 1

VARIABLES
    totalBits,  \* map.total_bits
    words,      \* the storage; map.words are its first TotalWords(totalBits)
    outId,      \* the answer of the last gt_id_pool_allocate, NULL for false
    owned,      \* the identifiers that the caller got and has not given back
    outcome     \* "ok", or "assert" when an assertion has ended the process

vars == <<totalBits, words, outId, owned, outcome>>

Offsets == 0 .. WordBits - 1
AllOnes == Offsets

WordIndex(bit) == bit \div WordBits
BitOffset(bit) == bit % WordBits
TotalWords(bits) == (bits + WordBits - 1) \div WordBits

\* Faulty: when the last word is full its mask comes out empty.
LastWordMaskEmpty(bits) == {k \in Offsets : k < BitOffset(bits)}

\* The valid offsets of the last word: (1 << bits % width) - 1, or ~0.
LastWordMask(bits) ==
    IF BitOffset(bits) # 0 THEN {k \in Offsets : k < BitOffset(bits)} ELSE AllOnes

LastWord == TotalWords(totalBits) - 1
Storage == 0 .. TotalWords(MaxIds) - 1
Test(bit) == BitOffset(bit) \in words[WordIndex(bit)]

\* gt_id_pool_is_allocated, whose assertion refuses identifiers out of range.
IsAllocated(id) == id < totalBits /\ Test(id)

IsEmpty == \A i \in 0 .. LastWord : words[i] = {}

\* Full words are compared with ~0, a partial last one with its mask.
IsFull ==
    LET fullWords == totalBits \div WordBits
    IN  /\ \A i \in 0 .. fullWords - 1 : words[i] = AllOnes
        /\ TotalWords(totalBits) > fullWords => words[fullWords] = LastWordMask(totalBits)

\* The loops of the searches stop at the first word that is not empty.
FirstIn(array) ==
    LET hits == {i \in 0 .. LastWord : array[i] # {}}
    IN  IF hits = {} THEN NULL ELSE Min(hits) * WordBits + Min(array[Min(hits)])

FindFirstSet == FirstIn(words)

\* Faulty: bits past the end of the last word are taken for clear ones.
FindFirstClearUnmasked == FirstIn([i \in 0 .. LastWord |-> Offsets \ words[i]])

FindFirstClear ==
    FirstIn([i \in 0 .. LastWord |->
                (Offsets \ words[i])
                \cap (IF i = LastWord THEN LastWordMask(totalBits) ELSE AllOnes)])

\* The storage after gt_bitmap_init for that many bits, after gt_mem_clear: the
\* words that are not used keep what they hold.
ClearedFor(bits) == [i \in Storage |-> IF i < TotalWords(bits) THEN {} ELSE words[i]]

\* Storage of static lifetime is zero before the first gt_id_pool_init.
Init ==
    /\ totalBits \in 1 .. MaxIds
    /\ words = [i \in Storage |-> {}]
    /\ outId = NULL /\ owned = {} /\ outcome = "ok"

\* gt_id_pool_init on storage that an earlier pool has used.
PoolInit(totalIds) ==
    /\ outcome = "ok"
    /\ totalBits' = totalIds
    /\ words' = ClearedFor(totalIds)
    /\ owned' = {} /\ UNCHANGED <<outId, outcome>>

Allocate ==
    /\ outcome = "ok"
    /\ outId' = FindFirstClear
    /\ words' = IF FindFirstClear = NULL THEN words
                ELSE [words EXCEPT ![WordIndex(FindFirstClear)] =
                         @ \cup {BitOffset(FindFirstClear)}]
    /\ owned' = IF FindFirstClear = NULL THEN owned ELSE owned \cup {FindFirstClear}
    /\ UNCHANGED <<totalBits, outcome>>

\* Faulty: the mask of the bit is not inverted, and the other bits go.
ReleaseUninverted(id) ==
    /\ outcome = "ok" /\ IsAllocated(id)
    /\ words' = [words EXCEPT ![WordIndex(id)] = @ \cap {BitOffset(id)}]
    /\ owned' = owned \ {id}
    /\ UNCHANGED <<totalBits, outId, outcome>>

\* gt_id_pool_release, of an identifier that its assertions let through.
Release(id) ==
    /\ outcome = "ok" /\ IsAllocated(id)
    /\ words' = [words EXCEPT ![WordIndex(id)] = @ \ {BitOffset(id)}]
    /\ owned' = owned \ {id}
    /\ UNCHANGED <<totalBits, outId, outcome>>

\* The same of one that is out of range or free: nothing is released.
ReleasePanics(id) ==
    /\ outcome = "ok" /\ ~IsAllocated(id)
    /\ outcome' = "assert"
    /\ UNCHANGED <<totalBits, words, outId, owned>>

\* Faulty: the last word is not masked.
SetAllUnmasked ==
    /\ outcome = "ok"
    /\ words' = [i \in Storage |-> IF i <= LastWord THEN AllOnes ELSE words[i]]
    /\ owned' = 0 .. totalBits - 1
    /\ UNCHANGED <<totalBits, outId, outcome>>

\* gt_bitmap_set_all and gt_bitmap_clear_all on the map of the pool: the caller
\* takes every identifier, or gives all back, at once.
SetAll ==
    /\ outcome = "ok"
    /\ words' = [i \in Storage |->
                    IF i = LastWord THEN AllOnes \cap LastWordMask(totalBits)
                    ELSE IF i < LastWord THEN AllOnes ELSE words[i]]
    /\ owned' = 0 .. totalBits - 1
    /\ UNCHANGED <<totalBits, outId, outcome>>

ClearAll ==
    /\ outcome = "ok"
    /\ words' = ClearedFor(totalBits)
    /\ owned' = {}
    /\ UNCHANGED <<totalBits, outId, outcome>>

Panicked == outcome # "ok" /\ UNCHANGED vars

\* A caller may release any identifier, MaxIds being out of range for every pool.
Next ==
    \/ \E totalIds \in 1 .. MaxIds : PoolInit(totalIds)
    \/ \E id \in 0 .. MaxIds : Release(id) \/ ReleasePanics(id)
    \/ Allocate \/ SetAll \/ ClearAll \/ Panicked

Spec == Init /\ [][Next]_vars

-----------------------------------------------------------------------------
\* "Trailing bits outside total_bits remain cleared" (bitmap.h), on which the
\* comparison of gt_bitmap_is_full with the bare mask relies.
TrailingBitsClear == words[LastWord] \subseteq LastWordMask(totalBits)

SetBits == {b \in 0 .. totalBits - 1 : Test(b)}

\* The searches and tests that go word by word answer for the bits: the lowest
\* set bit, the lowest clear one, empty and full, for every capacity, with
\* the last word partial or whole.
SearchesExact ==
    /\ IsEmpty <=> SetBits = {}
    /\ IsFull <=> SetBits = 0 .. totalBits - 1
    /\ FindFirstSet = IF SetBits = {} THEN NULL ELSE Min(SetBits)
    /\ FindFirstClear = LET clear == (0 .. totalBits - 1) \ SetBits
                        IN  IF clear = {} THEN NULL ELSE Min(clear)

\* A bit is set exactly while the caller owns the identifier: a release clears
\* the bit of that identifier and no other.  So the assertions of
\* gt_id_pool_release let through what the caller owns, and nothing else
\* ("Releasing a free ID is a programming error", id_pool.h).
OwnedAreAllocated == {id \in 0 .. MaxIds : IsAllocated(id)} = owned

Ids == INSTANCE IdSet WITH size <- totalBits, held <- owned, given <- outId

\* An allocation answers with the lowest identifier that nobody owns and is
\* refused only when all are owned: what CreateTakesId of Runtime relies on.
ImplementsIdSet == Ids!IdSetSafe
=============================================================================

----------------------------- MODULE StackMemory -----------------------------
(***************************************************************************)
(* Execution stacks (memory/stack/stack.c) on virtual memory mappings      *)
(* (platform/vm, platform/page): a stack is a mapping without access whose *)
(* pages are opened for reading and writing except the first and the last, *)
(* the guards.  Sizes and addresses are numbers below WordSize and wrap.   *)
(*                                                                         *)
(* Runtime knows a stack only as a region that is mapped or not; here are  *)
(* the sizes, the pages and the guards.                                    *)
(***************************************************************************)
EXTENDS Naturals, FiniteSets

CONSTANTS
    Owners,         \* the struct gt_stack's
    WordSize,       \* 2 ^ (bits of size_t)
    PageSize,
    LastPage,       \* pages that mmap may return are 1 .. LastPage (bound)
    DefaultSize,    \* GT_STACK_DEFAULT_SIZE
    ReleaseMayFail  \* whether munmap may fail

ASSUME PagesFit == /\ PageSize \in Nat \ {0} /\ WordSize \in Nat
                   /\ LastPage \in Nat \ {0}
                   /\ PageSize * (LastPage + 1) < WordSize
                   /\ WordSize % PageSize = 0
ASSUME DefaultIsWholePages == DefaultSize \in 1 .. WordSize - 1 /\ DefaultSize % PageSize = 0
ASSUME ReleaseFlag == ReleaseMayFail \in BOOLEAN

VARIABLES
    prot,       \* per page: "free", "none" (PROT_NONE) or "rw"
    mapping,    \* s_mapping of each stack
    usable,     \* s_base and s_size
    asked,      \* the stack_size its owner asked for
    outcome     \* "ok", or "assert" when the process has panicked

vars == <<prot, mapping, usable, asked, outcome>>

Pages == 1 .. LastPage
Sizes == 0 .. WordSize - 1
Cleared == [base |-> 0, size |-> 0]

\* The pages of a range that does not wrap.
PagesOf(m) == {p \in Pages : m.base <= p * PageSize /\ p * PageSize < m.base + m.size}

\* GT_ALIGN_DOWN_ANY(SIZE_MAX, page size), computed once by gt_page_init.
MaxAlignable == ((WordSize - 1) \div PageSize) * PageSize

\* Faulty: rounds down.
AlignDown(size) == (size \div PageSize) * PageSize

\* gt_page_align_up, which asserts size <= MaxAlignable.
AlignUp(size) == (((size + PageSize - 1) % WordSize) \div PageSize) * PageSize

GuardSize == 2 * PageSize
StackSize(size) == IF size = 0 THEN DefaultSize ELSE AlignUp(size)
MappingSize(size) == (StackSize(size) + GuardSize) % WordSize

\* Faulty: the guards are both at the high end.
UsableFromBase(m) ==
    [base |-> m.base, size |-> (m.size + WordSize - GuardSize) % WordSize]

\* The mapping without its first and its last page.
Usable(m) == [base |-> (m.base + PageSize) % WordSize,
              size |-> (m.size + WordSize - GuardSize) % WordSize]

\* mmap finds a range of free pages for a mapping.
Reservable(m) ==
    /\ m.size > 0 /\ m.base % PageSize = 0 /\ m.base > 0
    /\ m.base + m.size <= (LastPage + 1) * PageSize
    /\ \A p \in PagesOf(m) : prot[p] = "free"

\* mprotect refuses a range that wraps or is not mapped throughout.
Protectable(m, reserved) ==
    m.base + m.size < WordSize /\ PagesOf(m) \subseteq PagesOf(reserved)

Set(pages, access) == [p \in Pages |-> IF p \in pages THEN access ELSE prot[p]]

Init ==
    /\ prot = [p \in Pages |-> "free"]
    /\ mapping = [s \in Owners |-> Cleared]
    /\ usable = [s \in Owners |-> Cleared]
    /\ asked = [s \in Owners |-> 0]
    /\ outcome = "ok"

\* gt_stack_init is called on a stack that is not initialised.
Initializes(s) == outcome = "ok" /\ mapping[s] = Cleared

-----------------------------------------------------------------------------
\* The size cannot be aligned, or its sum with the guards wraps to 0: the
\* assertions of gt_page_align_up and gt_vm_mapping_reserve.
InitPanics(s, size) ==
    /\ Initializes(s)
    /\ size > MaxAlignable \/ MappingSize(size) = 0
    /\ outcome' = "assert"
    /\ UNCHANGED <<prot, mapping, usable, asked>>

\* mmap fails; it may for any size, the stack stays cleared.
InitReserveFails(s, size) ==
    /\ Initializes(s)
    /\ size <= MaxAlignable /\ MappingSize(size) # 0
    /\ UNCHANGED vars

\* Faulty: the rollback releases the usable part and not the mapping.
InitProtectFailsHalf(s, size, m) ==
    /\ Initializes(s)
    /\ size <= MaxAlignable /\ m.size = MappingSize(size) /\ Reservable(m)
    /\ prot' = Set(PagesOf(m) \ PagesOf(Usable(m)), "none")
    /\ UNCHANGED <<mapping, usable, asked, outcome>>

\* mprotect fails, as it may for any range: the mapping is released (the status
\* of that is not looked at) and the stack cleared.
InitProtectFails(s, size, m) ==
    /\ Initializes(s)
    /\ size <= MaxAlignable /\ m.size = MappingSize(size) /\ Reservable(m)
    /\ prot' \in {prot} \cup (IF ReleaseMayFail THEN {Set(PagesOf(m), "none")} ELSE {})
    /\ UNCHANGED <<mapping, usable, asked, outcome>>

InitSucceeds(s, size, m) ==
    /\ Initializes(s)
    /\ size <= MaxAlignable /\ m.size = MappingSize(size) /\ Reservable(m)
    /\ Protectable(Usable(m), m)
    /\ prot' = [p \in Pages |-> IF p \in PagesOf(Usable(m)) THEN "rw"
                                ELSE IF p \in PagesOf(m) THEN "none" ELSE prot[p]]
    /\ mapping' = [mapping EXCEPT ![s] = m]
    /\ usable' = [usable EXCEPT ![s] = Usable(m)]
    /\ asked' = [asked EXCEPT ![s] = size]
    /\ UNCHANGED outcome

\* gt_stack_destroy clears the stack whether munmap fails or not.
Destroy(s) ==
    /\ outcome = "ok" /\ mapping[s] # Cleared
    /\ prot' \in {Set(PagesOf(mapping[s]), "free")}
                 \cup (IF ReleaseMayFail THEN {prot} ELSE {})
    /\ mapping' = [mapping EXCEPT ![s] = Cleared]
    /\ usable' = [usable EXCEPT ![s] = Cleared]
    /\ asked' = [asked EXCEPT ![s] = 0]
    /\ UNCHANGED outcome

Panicked == outcome # "ok" /\ UNCHANGED vars

StackInit(s, size) ==
    \/ InitPanics(s, size) \/ InitReserveFails(s, size)
    \/ \E p \in Pages :
          LET m == [base |-> p * PageSize, size |-> MappingSize(size)]
          IN  InitProtectFails(s, size, m) \/ InitSucceeds(s, size, m)

Next ==
    \/ \E s \in Owners : Destroy(s) \/ \E size \in Sizes : StackInit(s, size)
    \/ Panicked

Spec == Init /\ [][Next]_vars

-----------------------------------------------------------------------------
Live == {s \in Owners : mapping[s] # Cleared}

\* Around the usable part of every live stack lies a page without access below
\* and one above, and all of it is open, whatever is initialised, rolled back or
\* destroyed next to it ("Guard pages shall remain inaccessible for the lifetime
\* of the execution stack", docs/memory/contract.md).
GuardsHold ==
    \A s \in Live :
        LET low == usable[s].base \div PageSize
            high == (usable[s].base + usable[s].size) \div PageSize
        IN  /\ low - 1 \in PagesOf(mapping[s]) /\ prot[low - 1] = "none"
            /\ high \in PagesOf(mapping[s]) /\ prot[high] = "none"
            /\ \A p \in low .. high - 1 : prot[p] = "rw"

\* A stack is never smaller than what was asked for, also where the sum of the
\* size and its guards wraps.
RoomAsked == \A s \in Live : usable[s].size > 0 /\ usable[s].size >= asked[s]

\* Mappings of different stacks are disjoint, and a page is mapped exactly while
\* a live stack owns it: no failed initialisation leaves pages behind.
PagesAccounted ==
    /\ \A s, t \in Live : s # t => PagesOf(mapping[s]) \cap PagesOf(mapping[t]) = {}
    /\ {p \in Pages : prot[p] # "free"} = UNION {PagesOf(mapping[s]) : s \in Live}
=============================================================================

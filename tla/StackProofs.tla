----------------------------- MODULE StackProofs -----------------------------
(***************************************************************************)
(* Guards, sizes and pages of execution stacks, for any page and word size *)
(* and any number of stacks in an address space of any length.             *)
(*                                                                         *)
(* Addresses and sizes are multiples of the page size, so the proofs count *)
(* pages: a live stack is a first page and a number of pages.  That the    *)
(* sums do not wrap is what mmap and mprotect refuse: a mapping too small  *)
(* for two guards has a usable part that ends behind the address space.    *)
(***************************************************************************)
EXTENDS StackMemory, Integers, TLAPS

USE PagesFit, DefaultIsWholePages, ReleaseFlag

\* Stack s has n pages from page p on, guards at both ends and room between.
Occupies(s, p, n) ==
    /\ p + n <= LastPage + 1
    /\ mapping[s] = [base |-> p * PageSize, size |-> n * PageSize]
    /\ usable[s] = [base |-> (p + 1) * PageSize, size |-> (n - 2) * PageSize]
    /\ asked[s] <= (n - 2) * PageSize
    /\ prot[p] = "none" /\ prot[p + n - 1] = "none"
    /\ \A q \in p + 1 .. p + n - 2 : prot[q] = "rw"

StackTypes ==
    /\ prot \in [Pages -> {"free", "none", "rw"}]
    /\ mapping \in [Owners -> [base : Nat, size : Nat]]
    /\ usable \in [Owners -> [base : Nat, size : Nat]]
    /\ asked \in [Owners -> Nat]

StacksDisjoint ==
    \A s, t \in Live : s # t => PagesOf(mapping[s]) \cap PagesOf(mapping[t]) = {}

\* Pages that munmap refused to release stay mapped with no owner.
NoPageLost ==
    ReleaseMayFail \/ \A p \in Pages :
        prot[p] # "free" => \E s \in Live : p \in PagesOf(mapping[s])

StackInv ==
    /\ StackTypes
    /\ \A s \in Live : \E p \in Pages, n \in 3 .. LastPage : Occupies(s, p, n)
    /\ StacksDisjoint
    /\ NoPageLost

-----------------------------------------------------------------------------
(* Pages and their multiples *)

LEMMA Multiples ==
    ASSUME NEW a \in Int, NEW b \in Int
    PROVE  /\ a * PageSize \in Int
           /\ a <= b <=> a * PageSize <= b * PageSize
           /\ a < b <=> a * PageSize < b * PageSize
           /\ a * PageSize + b * PageSize = (a + b) * PageSize
           /\ a * PageSize - b * PageSize = (a - b) * PageSize
           /\ a \in Nat => (a * PageSize) \div PageSize = a
  <1>1. PageSize \in Int /\ PageSize > 0
    OBVIOUS
  <1>2. a * PageSize \in Int /\ b * PageSize \in Int
    BY <1>1
  <1>3. a <= b => a * PageSize <= b * PageSize
    BY <1>1
  <1>4. a < b => a * PageSize < b * PageSize
    BY <1>1
  <1>5. b < a => b * PageSize < a * PageSize
    BY <1>1
  <1>6. /\ a * PageSize + b * PageSize = (a + b) * PageSize
        /\ a * PageSize - b * PageSize = (a - b) * PageSize
    BY <1>1
  <1>7. a \in Nat => (a * PageSize) \div PageSize = a
    BY <1>1
  <1>. QED BY <1>2, <1>3, <1>4, <1>5, <1>6, <1>7

\* A word size in pages.
LEMMA WordInPages ==
    \E w \in Nat : /\ WordSize = w * PageSize /\ LastPage + 1 < w
                   /\ MaxAlignable \in Nat /\ MaxAlignable <= WordSize - PageSize
  <1> DEFINE w == WordSize \div PageSize
  <1>1. w \in Nat /\ WordSize = w * PageSize
    OBVIOUS
  <1> HIDE DEF w
  <1>2. LastPage + 1 < w
    <2>1. (LastPage + 1) * PageSize < w * PageSize
      BY <1>1
    <2>. QED BY <1>1, <2>1, Multiples
  <1> DEFINE q == (WordSize - 1) \div PageSize
  <1>3. q \in Nat /\ q * PageSize <= WordSize - 1 /\ MaxAlignable = q * PageSize
    <2>1. WordSize - 1 \in Nat
      OBVIOUS
    <2>2. q \in Nat /\ WordSize - 1 = PageSize * q + ((WordSize - 1) % PageSize)
          /\ (WordSize - 1) % PageSize \in Nat
      BY <2>1
    <2>3. PageSize * q = q * PageSize /\ q * PageSize \in Int
      BY <2>2
    <2>. QED BY <2>2, <2>3 DEF MaxAlignable
  <1> HIDE DEF q
  <1>4. q < w
    <2>1. q * PageSize < w * PageSize
      BY <1>1, <1>3
    <2>. QED BY <1>1, <1>3, <2>1, Multiples
  <1>5. q * PageSize <= (w - 1) * PageSize
    BY <1>1, <1>3, <1>4, Multiples
  <1>6. (w - 1) * PageSize = WordSize - PageSize
    BY <1>1, Multiples
  <1>7. MaxAlignable \in Nat /\ MaxAlignable <= WordSize - PageSize
    BY <1>1, <1>3, <1>5, <1>6
  <1>. QED BY <1>1, <1>2, <1>7

\* The pages of a range that is counted in pages.
LEMMA PagesOfRange ==
    ASSUME NEW p \in Pages, NEW n \in Nat, p + n <= LastPage + 1
    PROVE  PagesOf([base |-> p * PageSize, size |-> n * PageSize]) = p .. p + n - 1
  <1>1. p * PageSize + n * PageSize = (p + n) * PageSize
    BY Multiples DEF Pages
  <1>2. \A q \in Pages : /\ p * PageSize <= q * PageSize <=> p <= q
                         /\ q * PageSize < (p + n) * PageSize <=> q < p + n
    BY Multiples DEF Pages
  <1>. QED BY <1>1, <1>2 DEF PagesOf, Pages

-----------------------------------------------------------------------------
(* Sizes *)

\* A stack size is a positive number of pages and at least what was asked for.
LEMMA StackSizeFacts ==
    ASSUME NEW size \in Sizes, size <= MaxAlignable
    PROVE  \E k \in Nat \ {0} : /\ StackSize(size) = k * PageSize
                                /\ k * PageSize < WordSize
                                /\ size <= k * PageSize
  <1>1. size \in Nat /\ size <= WordSize - PageSize
    BY WordInPages DEF Sizes
  <1>2. CASE size = 0
    <2> DEFINE k == DefaultSize \div PageSize
    <2>1. k \in Nat /\ DefaultSize = k * PageSize
      OBVIOUS
    <2>2. DefaultSize > 0 /\ DefaultSize < WordSize /\ StackSize(size) = DefaultSize
      BY <1>2 DEF StackSize
    <2> HIDE DEF k
    <2>3. k # 0
      BY <2>1, <2>2
    <2>. QED BY <1>2, <2>1, <2>2, <2>3
  <1>3. CASE size # 0
    <2> DEFINE x == size + PageSize - 1
               k == x \div PageSize
    <2>1. x \in Nat /\ x < WordSize /\ x % WordSize = x /\ size <= x
      BY <1>1, <1>3
    <2> HIDE DEF x
    <2>2. k \in Nat /\ x = PageSize * k + (x % PageSize) /\ x % PageSize \in 0 .. PageSize - 1
      BY <2>1
    <2> HIDE DEF k
    <2>3. PageSize * k = k * PageSize /\ k * PageSize \in Int
      BY <2>2
    <2>4. k * PageSize <= x /\ x < k * PageSize + PageSize
      BY <2>1, <2>2, <2>3
    <2>5. size <= k * PageSize
      BY <1>1, <2>3, <2>4 DEF x
    <2>6. k # 0
      BY <1>1, <1>3, <2>5
    <2>7. StackSize(size) = k * PageSize
      BY <1>3, <2>1 DEF StackSize, AlignUp, x, k
    <2>. QED BY <2>1, <2>2, <2>3, <2>4, <2>5, <2>6, <2>7
  <1>. QED BY <1>2, <1>3

\* What mmap grants is a number of pages from a page on.
LEMMA ReservedPages ==
    ASSUME NEW size \in Sizes, size <= MaxAlignable, NEW p \in Pages, NEW m,
           m = [base |-> p * PageSize, size |-> MappingSize(size)], Reservable(m)
    PROVE  \E n \in 1 .. LastPage :
              /\ m = [base |-> p * PageSize, size |-> n * PageSize]
              /\ p + n <= LastPage + 1
              /\ PagesOf(m) = p .. p + n - 1
              /\ n = 1 \/ StackSize(size) = (n - 2) * PageSize
  <1>1. PICK k \in Nat \ {0} : /\ StackSize(size) = k * PageSize
                               /\ k * PageSize < WordSize
    BY StackSizeFacts
  <1>2. PICK w \in Nat : WordSize = w * PageSize /\ LastPage + 1 < w
    BY WordInPages
  <1>3. p \in Nat /\ p >= 1 /\ p <= LastPage
    BY DEF Pages
  <1> DEFINE x == (k + 2) * PageSize
             n == IF k + 2 < w THEN k + 2 ELSE k + 2 - w
  <1>4. x = StackSize(size) + GuardSize /\ x \in Nat /\ x < 2 * WordSize /\ k < w
    <2>1. k < w
      BY <1>1, <1>2, Multiples
    <2>2. (k + 2) * PageSize = k * PageSize + 2 * PageSize
      BY Multiples
    <2>3. 2 * PageSize < w * PageSize
      BY <1>2, Multiples
    <2>. QED BY <1>1, <1>2, <2>1, <2>2, <2>3 DEF GuardSize
  <1>5. n \in Nat /\ x % WordSize = n * PageSize
    <2>1. CASE k + 2 < w
      <3>1. x < WordSize /\ n = k + 2
        BY <1>2, <2>1, Multiples
      <3>. QED BY <1>4, <2>1, <3>1
    <2>2. CASE ~(k + 2 < w)
      <3>1. n = k + 2 - w /\ n \in Nat /\ WordSize <= x
        BY <1>2, <2>2, Multiples
      <3>2. n * PageSize = x - WordSize
        BY <1>2, <3>1, Multiples
      <3>3. x % WordSize = x - WordSize
        <4> HIDE DEF x
        <4>1. x - WordSize \in Nat /\ x - WordSize < WordSize
          BY <1>4, <3>1
        <4>. QED BY <1>4, <3>1, <4>1
      <3>. QED BY <3>1, <3>2, <3>3
    <2>. QED BY <2>1, <2>2
  <1>6. m.base = p * PageSize /\ m.size = n * PageSize
    BY <1>4, <1>5 DEF MappingSize
  <1> HIDE DEF n, x
  <1>7. n > 0 /\ p + n <= LastPage + 1
    <2>1. n * PageSize > 0 /\ p * PageSize + n * PageSize <= (LastPage + 1) * PageSize
      BY <1>6 DEF Reservable
    <2>2. p * PageSize + n * PageSize = (p + n) * PageSize
      BY <1>3, <1>5, Multiples
    <2>3. n # 0
      BY <2>1
    <2>. QED BY <1>3, <1>5, <2>1, <2>2, <2>3, Multiples
  <1>8. PagesOf(m) = p .. p + n - 1
    BY <1>5, <1>6, <1>7, PagesOfRange
  <1>9. n = 1 \/ StackSize(size) = (n - 2) * PageSize
    BY <1>1, <1>2, <1>4, <1>7 DEF n
  <1>10. n \in 1 .. LastPage /\ m = [base |-> p * PageSize, size |-> n * PageSize]
    BY <1>3, <1>5, <1>6, <1>7
  <1>. QED BY <1>7, <1>8, <1>9, <1>10

\* mprotect opens what lies between two guards, and only if there is room.
LEMMA UsablePages ==
    ASSUME NEW size \in Sizes, size <= MaxAlignable, NEW p \in Pages, NEW m,
           m = [base |-> p * PageSize, size |-> MappingSize(size)], Reservable(m),
           Protectable(Usable(m), m)
    PROVE  \E n \in 3 .. LastPage :
              /\ m = [base |-> p * PageSize, size |-> n * PageSize]
              /\ p + n <= LastPage + 1
              /\ PagesOf(m) = p .. p + n - 1
              /\ Usable(m) = [base |-> (p + 1) * PageSize, size |-> (n - 2) * PageSize]
              /\ PagesOf(Usable(m)) = p + 1 .. p + n - 2
              /\ size <= (n - 2) * PageSize
  <1>1. PICK n \in 1 .. LastPage :
           /\ m = [base |-> p * PageSize, size |-> n * PageSize]
           /\ p + n <= LastPage + 1
           /\ PagesOf(m) = p .. p + n - 1
           /\ n = 1 \/ StackSize(size) = (n - 2) * PageSize
    BY ReservedPages
  <1>2. PICK w \in Nat : WordSize = w * PageSize /\ LastPage + 1 < w
    BY WordInPages
  <1>3. p \in Nat /\ p >= 1 /\ p <= LastPage
    BY DEF Pages
  <1>4. Usable(m).base = (p + 1) * PageSize
    <2>1. p * PageSize + PageSize = (p + 1) * PageSize /\ (p + 1) * PageSize \in Nat
      BY <1>3, Multiples
    <2>2. (p + 1) * PageSize < w * PageSize
      BY <1>1, <1>2, <1>3, Multiples
    <2>. QED BY <1>1, <1>2, <2>1, <2>2 DEF Usable
  <1>5. n # 1
    <2> SUFFICES ASSUME n = 1 PROVE FALSE
      OBVIOUS
    <2>1. m.size = PageSize
      BY <1>1
    <2>2. Usable(m).size = WordSize - PageSize
      <3>1. PageSize + WordSize - GuardSize = WordSize - PageSize
        BY DEF GuardSize
      <3>2. WordSize - PageSize \in Nat /\ WordSize - PageSize < WordSize
        BY <1>2, Multiples
      <3>. QED BY <2>1, <3>1, <3>2 DEF Usable
    <2>3. (p + 1) * PageSize + (WordSize - PageSize) < WordSize
      BY <1>4, <2>2 DEF Protectable
    <2>4. (p + 1) * PageSize = p * PageSize + PageSize /\ p * PageSize \in Nat
      BY <1>3, Multiples
    <2>. QED BY <2>3, <2>4
  <1>6. PICK k \in Nat \ {0} : StackSize(size) = k * PageSize /\ size <= k * PageSize
    BY StackSizeFacts
  <1>7. k = n - 2
    <2>1. k * PageSize = (n - 2) * PageSize
      BY <1>1, <1>5, <1>6
    <2>2. k <= n - 2 /\ n - 2 <= k
      BY <2>1, Multiples
    <2>. QED BY <2>2
  <1>8. Usable(m).size = (n - 2) * PageSize
    <2>1. n * PageSize + WordSize - GuardSize = (n - 2) * PageSize + WordSize
      BY Multiples DEF GuardSize
    <2>2. (n - 2) * PageSize \in Nat /\ (n - 2) * PageSize < WordSize
      BY <1>2, <1>7, Multiples
    <2>3. ((n - 2) * PageSize + WordSize) % WordSize = (n - 2) * PageSize
      <3> DEFINE y == (n - 2) * PageSize
      <3>1. y \in Nat /\ y < WordSize
        BY <2>2
      <3> HIDE DEF y
      <3>2. (y + WordSize) % WordSize = y
        BY <3>1
      <3>. QED BY <3>2 DEF y
    <2>. QED BY <1>1, <2>1, <2>3 DEF Usable
  <1>9. Usable(m) = [base |-> (p + 1) * PageSize, size |-> (n - 2) * PageSize]
    BY <1>4, <1>8 DEF Usable
  <1>10. n \in 3 .. LastPage /\ p + 1 \in Pages
    BY <1>1, <1>3, <1>6, <1>7 DEF Pages
  <1>11. PagesOf(Usable(m)) = p + 1 .. p + n - 2
    <2>1. PagesOf([base |-> (p + 1) * PageSize, size |-> (n - 2) * PageSize])
              = p + 1 .. (p + 1) + (n - 2) - 1
      <3>1. n - 2 \in Nat /\ (p + 1) + (n - 2) <= LastPage + 1
        BY <1>1, <1>3, <1>10
      <3>. QED BY <1>10, <3>1, PagesOfRange
    <2>. QED BY <1>3, <1>9, <1>10, <2>1
  <1>. QED BY <1>1, <1>6, <1>7, <1>9, <1>10, <1>11

-----------------------------------------------------------------------------
(* Every step *)

\* The pages of a live stack are its own, and mapped.
LEMMA LivePages ==
    ASSUME NEW s \in Owners, NEW p \in Pages, NEW n \in 3 .. LastPage, Occupies(s, p, n)
    PROVE  /\ PagesOf(mapping[s]) = p .. p + n - 1
           /\ p .. p + n - 1 \subseteq Pages
           /\ \A q \in p .. p + n - 1 : prot[q] # "free"
  <1>1. p \in Nat /\ p >= 1 /\ n \in Nat /\ p + n <= LastPage + 1
    BY DEF Pages, Occupies
  <1>2. PagesOf(mapping[s]) = p .. p + n - 1
    BY <1>1, PagesOfRange DEF Occupies
  <1>3. \A q \in p .. p + n - 1 : q = p \/ q = p + n - 1 \/ q \in p + 1 .. p + n - 2
    BY <1>1
  <1>4. \A q \in p .. p + n - 1 : prot[q] # "free"
    BY <1>3 DEF Occupies
  <1>5. p .. p + n - 1 \subseteq Pages
    BY <1>1 DEF Pages
  <1>. QED BY <1>2, <1>4, <1>5

\* A stack is where it was when nothing is done to its pages.
LEMMA OccupiesStays ==
    ASSUME NEW s \in Owners, NEW p \in Pages, NEW n \in 3 .. LastPage, Occupies(s, p, n),
           mapping'[s] = mapping[s], usable'[s] = usable[s], asked'[s] = asked[s],
           \A q \in PagesOf(mapping[s]) : prot'[q] = prot[q]
    PROVE  Occupies(s, p, n)'
  <1>1. /\ PagesOf(mapping[s]) = p .. p + n - 1 /\ p \in Nat /\ n \in Nat /\ n >= 3
    BY LivePages DEF Pages
  <1>2. p \in p .. p + n - 1 /\ p + n - 1 \in p .. p + n - 1
    BY <1>1
  <1>3. \A q \in p + 1 .. p + n - 2 : q \in p .. p + n - 1
    BY <1>1
  <1>. QED BY <1>1, <1>2, <1>3 DEF Occupies

\* What happens on free pages happens to no stack.
LEMMA OthersStay ==
    ASSUME StackInv, NEW s \in Owners, NEW t \in Live, t # s,
           mapping'[t] = mapping[t], usable'[t] = usable[t], asked'[t] = asked[t],
           \A q \in Pages : prot[q] # "free" /\ (s \in Live => q \notin PagesOf(mapping[s]))
                                => prot'[q] = prot[q]
    PROVE  \E p \in Pages, n \in 3 .. LastPage : Occupies(t, p, n)'
  <1>1. t \in Owners
    BY DEF Live
  <1>2. PICK p \in Pages, n \in 3 .. LastPage : Occupies(t, p, n)
    BY DEF StackInv
  <1>3. \A q \in PagesOf(mapping[t]) : q \in Pages /\ prot[q] # "free"
    BY <1>1, <1>2, LivePages
  <1>4. s \in Live => PagesOf(mapping[s]) \cap PagesOf(mapping[t]) = {}
    BY DEF StackInv, StacksDisjoint
  <1>5. Occupies(t, p, n)'
    BY <1>1, <1>2, <1>3, <1>4, OccupiesStays
  <1>. QED BY <1>5

LEMMA InitProtectFailsKeeps ==
    ASSUME StackInv, NEW s \in Owners, NEW size \in Sizes, NEW m,
           InitProtectFails(s, size, m)
    PROVE  StackInv'
  <1>1. /\ mapping[s] = Cleared /\ \A q \in PagesOf(m) : prot[q] = "free"
        /\ UNCHANGED <<mapping, usable, asked>>
        /\ prot' = prot \/ (ReleaseMayFail /\ prot' = Set(PagesOf(m), "none"))
    BY DEF InitProtectFails, Initializes, Reservable
  <1>2. StackTypes'
    BY <1>1 DEF StackInv, StackTypes, Set
  <1>3. /\ Live' = Live /\ s \notin Live
        /\ \A q \in Pages : prot[q] # "free" => prot'[q] = prot[q]
    BY <1>1 DEF Live, Set
  <1>4. \A t \in Live : \E p \in Pages, n \in 3 .. LastPage : Occupies(t, p, n)'
    BY <1>1, <1>3, OthersStay
  <1>5. StacksDisjoint'
    BY <1>1, <1>3 DEF StackInv, StacksDisjoint
  <1>6. NoPageLost'
    BY <1>1, <1>3 DEF StackInv, NoPageLost
  <1>. QED BY <1>2, <1>3, <1>4, <1>5, <1>6 DEF StackInv

LEMMA InitSucceedsKeeps ==
    ASSUME StackInv, NEW s \in Owners, NEW size \in Sizes, NEW p \in Pages, NEW m,
           m = [base |-> p * PageSize, size |-> MappingSize(size)],
           InitSucceeds(s, size, m)
    PROVE  StackInv'
  <1>1. /\ mapping[s] = Cleared /\ m.size > 0
        /\ \A q \in PagesOf(m) : prot[q] = "free"
        /\ prot' = [q \in Pages |-> IF q \in PagesOf(Usable(m)) THEN "rw"
                                    ELSE IF q \in PagesOf(m) THEN "none" ELSE prot[q]]
        /\ mapping' = [mapping EXCEPT ![s] = m]
        /\ usable' = [usable EXCEPT ![s] = Usable(m)]
        /\ asked' = [asked EXCEPT ![s] = size]
    BY DEF InitSucceeds, Initializes, Reservable
  <1>2. PICK n \in 3 .. LastPage :
           /\ m = [base |-> p * PageSize, size |-> n * PageSize]
           /\ p + n <= LastPage + 1
           /\ PagesOf(m) = p .. p + n - 1
           /\ Usable(m) = [base |-> (p + 1) * PageSize, size |-> (n - 2) * PageSize]
           /\ PagesOf(Usable(m)) = p + 1 .. p + n - 2
           /\ size <= (n - 2) * PageSize
    BY UsablePages DEF InitSucceeds
  <1>3. p \in Nat /\ p >= 1 /\ p + n - 1 \in Pages
    BY <1>2 DEF Pages
  <1>4. /\ m \in [base : Nat, size : Nat] /\ Usable(m) \in [base : Nat, size : Nat]
        /\ size \in Nat /\ m # Cleared
    BY <1>1, <1>2, <1>3, Multiples DEF Sizes, Cleared
  <1>5. StackTypes'
    <2>1. prot' \in [Pages -> {"free", "none", "rw"}]
      BY <1>1 DEF StackInv, StackTypes
    <2>. QED BY <1>1, <1>4, <2>1 DEF StackInv, StackTypes
  <1>6. /\ mapping'[s] = m /\ usable'[s] = Usable(m) /\ asked'[s] = size
        /\ \A t \in Owners \ {s} : /\ mapping'[t] = mapping[t] /\ usable'[t] = usable[t]
                                   /\ asked'[t] = asked[t]
    BY <1>1 DEF StackInv, StackTypes
  <1>7. Live' = Live \cup {s} /\ s \notin Live
    BY <1>1, <1>4, <1>6 DEF Live
  <1>8. Occupies(s, p, n)'
    <2>1. /\ p \in p .. p + n - 1 /\ p + n - 1 \in p .. p + n - 1
          /\ p \notin p + 1 .. p + n - 2 /\ p + n - 1 \notin p + 1 .. p + n - 2
      BY <1>3
    <2>2. \A q \in p + 1 .. p + n - 2 : q \in Pages
      BY <1>2, <1>3 DEF Pages
    <2>3. prot'[p] = "none" /\ prot'[p + n - 1] = "none"
      BY <1>1, <1>2, <1>3, <2>1
    <2>4. \A q \in p + 1 .. p + n - 2 : prot'[q] = "rw"
      BY <1>1, <1>2, <2>2
    <2>. QED BY <1>2, <1>6, <2>3, <2>4 DEF Occupies
  <1>9. PagesOf(Usable(m)) \subseteq PagesOf(m)
    <2>1. p \in Nat /\ n \in Nat
      BY <1>3
    <2>2. p + 1 .. p + n - 2 \subseteq p .. p + n - 1
      BY <2>1
    <2>. QED BY <1>2, <2>2
  <1>10. \A t \in Live : \E r \in Pages, k \in 3 .. LastPage : Occupies(t, r, k)'
    <2>1. \A q \in Pages : prot[q] # "free" => prot'[q] = prot[q]
      BY <1>1, <1>9
    <2>. QED BY <1>6, <1>7, <2>1, OthersStay DEF Live
  <1>11. ASSUME NEW t \in Live PROVE PagesOf(mapping[t]) \cap PagesOf(m) = {}
    <2>1. PICK r \in Pages, k \in 3 .. LastPage : Occupies(t, r, k)
      BY DEF StackInv
    <2>2. \A q \in PagesOf(mapping[t]) : prot[q] # "free"
      BY <2>1, LivePages DEF Live
    <2>. QED BY <1>1, <2>2
  <1>12. StacksDisjoint'
    BY <1>6, <1>7, <1>11 DEF StackInv, StacksDisjoint, Live
  <1>13. NoPageLost'
    <2>1. \A q \in Pages : prot'[q] # "free" => prot[q] # "free" \/ q \in PagesOf(m)
      BY <1>1, <1>9
    <2>. QED BY <1>6, <1>7, <2>1 DEF StackInv, NoPageLost, Live
  <1>. QED BY <1>5, <1>7, <1>8, <1>10, <1>12, <1>13 DEF StackInv

LEMMA DestroyKeeps ==
    ASSUME StackInv, NEW s \in Owners, Destroy(s) PROVE StackInv'
  <1>1. /\ s \in Live
        /\ \/ prot' = Set(PagesOf(mapping[s]), "free")
           \/ ReleaseMayFail /\ prot' = prot
        /\ mapping' = [mapping EXCEPT ![s] = Cleared]
        /\ usable' = [usable EXCEPT ![s] = Cleared]
        /\ asked' = [asked EXCEPT ![s] = 0]
    BY DEF Destroy, Live
  <1>2. StackTypes'
    <2>1. Cleared \in [base : Nat, size : Nat]
      BY DEF Cleared
    <2>2. prot' \in [Pages -> {"free", "none", "rw"}]
      BY <1>1 DEF StackInv, StackTypes, Set
    <2>. QED BY <1>1, <2>1, <2>2 DEF StackInv, StackTypes
  <1>3. /\ mapping'[s] = Cleared
        /\ \A t \in Owners \ {s} : /\ mapping'[t] = mapping[t] /\ usable'[t] = usable[t]
                                   /\ asked'[t] = asked[t]
    BY <1>1 DEF StackInv, StackTypes, Live
  <1>4. Live' = Live \ {s}
    BY <1>3 DEF Live
  <1>5. \A q \in Pages : q \notin PagesOf(mapping[s]) => prot'[q] = prot[q]
    BY <1>1 DEF Set
  <1>6. \A t \in Live \ {s} : \E p \in Pages, n \in 3 .. LastPage : Occupies(t, p, n)'
    BY <1>1, <1>3, <1>5, OthersStay DEF Live
  <1>7. StacksDisjoint'
    BY <1>3, <1>4 DEF StackInv, StacksDisjoint, Live
  <1>8. NoPageLost'
    <2> SUFFICES ASSUME ~ReleaseMayFail, NEW q \in Pages, prot'[q] # "free"
                 PROVE  \E t \in Live \ {s} : q \in PagesOf(mapping'[t])
      BY <1>4 DEF NoPageLost
    <2>1. q \notin PagesOf(mapping[s]) /\ prot[q] # "free"
      BY <1>1 DEF Set
    <2>2. PICK t \in Live : q \in PagesOf(mapping[t])
      BY <2>1 DEF StackInv, NoPageLost
    <2>. QED BY <1>3, <2>1, <2>2 DEF Live
  <1>. QED BY <1>2, <1>4, <1>6, <1>7, <1>8 DEF StackInv

LEMMA StackInvInit == Init => StackInv
  <1> SUFFICES ASSUME Init PROVE StackInv
    OBVIOUS
  <1>1. Live = {}
    BY DEF Init, Live
  <1>2. StackTypes
    BY DEF Init, StackTypes, Cleared
  <1>. QED BY <1>1, <1>2 DEF Init, StackInv, StacksDisjoint, NoPageLost

LEMMA StackInvStep == StackInv /\ [Next]_vars => StackInv'
  <1> SUFFICES ASSUME StackInv, [Next]_vars PROVE StackInv'
    OBVIOUS
  <1>1. ASSUME UNCHANGED <<prot, mapping, usable, asked>> PROVE StackInv'
    BY <1>1 DEF StackInv, StackTypes, StacksDisjoint, NoPageLost, Live, Occupies
  <1>2. ASSUME NEW s \in Owners, NEW size \in Sizes, StackInit(s, size) PROVE StackInv'
    <2>1. CASE InitPanics(s, size) \/ InitReserveFails(s, size)
      BY <1>1, <2>1 DEF InitPanics, InitReserveFails, vars
    <2>2. ASSUME NEW p \in Pages, NEW m,
                 m = [base |-> p * PageSize, size |-> MappingSize(size)],
                 InitProtectFails(s, size, m) \/ InitSucceeds(s, size, m)
          PROVE  StackInv'
      BY <2>2, InitProtectFailsKeeps, InitSucceedsKeeps
    <2>. QED BY <1>2, <2>1, <2>2 DEF StackInit
  <1>. QED BY <1>1, <1>2, DestroyKeeps DEF Next, Panicked, vars

LEMMA StackInvariant == Spec => []StackInv
  BY StackInvInit, StackInvStep, PTL DEF Spec

-----------------------------------------------------------------------------
\* What the count of pages says of the guards.
LEMMA StackGuards == StackInv => GuardsHold
  <1> SUFFICES ASSUME StackInv PROVE GuardsHold
    OBVIOUS
  <1> SUFFICES ASSUME NEW s \in Live
               PROVE  LET low == usable[s].base \div PageSize
                          high == (usable[s].base + usable[s].size) \div PageSize
                      IN  /\ low - 1 \in PagesOf(mapping[s]) /\ prot[low - 1] = "none"
                          /\ high \in PagesOf(mapping[s]) /\ prot[high] = "none"
                          /\ \A q \in low .. high - 1 : prot[q] = "rw"
    BY DEF GuardsHold
  <1>1. PICK p \in Pages, n \in 3 .. LastPage : Occupies(s, p, n)
    BY DEF StackInv
  <1>2. p \in Nat /\ n \in Nat /\ n >= 3
    BY DEF Pages
  <1>3. usable[s].base \div PageSize = p + 1
    <2>1. p + 1 \in Nat /\ usable[s].base = (p + 1) * PageSize
      BY <1>1, <1>2 DEF Occupies
    <2>2. ((p + 1) * PageSize) \div PageSize = p + 1
      BY <2>1, Multiples
    <2>. QED BY <2>1, <2>2
  <1>4. (usable[s].base + usable[s].size) \div PageSize = p + n - 1
    <2>1. (p + 1) * PageSize + (n - 2) * PageSize = (p + n - 1) * PageSize
      <3>1. (p + 1) + (n - 2) = p + n - 1
        BY <1>2
      <3>. QED BY <1>2, <3>1, Multiples
    <2>. QED BY <1>1, <1>2, <2>1, Multiples DEF Occupies
  <1>5. /\ (p + 1) - 1 = p /\ p \in p .. p + n - 1 /\ p + n - 1 \in p .. p + n - 1
        /\ (p + n - 1) - 1 = p + n - 2
    BY <1>2
  <1>6. s \in Owners /\ PagesOf(mapping[s]) = p .. p + n - 1
    BY <1>1, LivePages DEF Live
  <1>. QED BY <1>1, <1>3, <1>4, <1>5, <1>6 DEF Occupies

\* Every live stack has a page without access at either end and only open pages
\* between, whatever is initialised, rolled back or destroyed next to it, and
\* whether munmap fails or not.
THEOREM GuardsAlwaysHold == Spec => []GuardsHold
  <1>. QED BY StackInvariant, StackGuards, PTL

\* What the count of pages says of the room.
LEMMA StackRoom == StackInv => RoomAsked
  <1> SUFFICES ASSUME StackInv PROVE RoomAsked
    OBVIOUS
  <1>1. ASSUME NEW s \in Live PROVE usable[s].size > 0 /\ usable[s].size >= asked[s]
    <2>1. PICK p \in Pages, n \in 3 .. LastPage : Occupies(s, p, n)
      BY DEF StackInv
    <2>2. usable[s].size = (n - 2) * PageSize /\ asked[s] <= (n - 2) * PageSize
      BY <2>1 DEF Occupies
    <2>3. asked[s] \in Nat
      BY DEF StackInv, StackTypes, Live
    <2>4. 0 * PageSize < (n - 2) * PageSize /\ 0 * PageSize = 0
      BY Multiples
    <2>. QED BY <2>2, <2>3, <2>4
  <1>. QED BY <1>1 DEF RoomAsked

\* A stack is never smaller than what was asked for, and has room at all, also
\* where the sum of the size and its guards wraps.
THEOREM RoomIsAsAsked == Spec => []RoomAsked
  <1>. QED BY StackInvariant, StackRoom, PTL

\* While munmap does not fail, a page is mapped exactly while a live stack owns
\* it, and one only: no failed initialisation leaves pages behind.
THEOREM PagesAreAccounted == ASSUME ReleaseMayFail = FALSE PROVE Spec => []PagesAccounted
  <1>1. StackInv => PagesAccounted
    <2> SUFFICES ASSUME StackInv PROVE PagesAccounted
      OBVIOUS
    <2>1. ASSUME NEW s \in Live, NEW q \in PagesOf(mapping[s])
          PROVE  q \in Pages /\ prot[q] # "free"
      <3>1. PICK p \in Pages, n \in 3 .. LastPage : Occupies(s, p, n)
        BY DEF StackInv
      <3>. QED BY <3>1, LivePages DEF Live
    <2>2. \A q \in Pages : prot[q] # "free" => \E s \in Live : q \in PagesOf(mapping[s])
      BY DEF StackInv, NoPageLost
    <2> DEFINE mapped == {p \in Pages : prot[p] # "free"}
               owned == UNION {PagesOf(mapping[s]) : s \in Live}
    <2>3. mapped \subseteq owned
      BY <2>2
    <2>4. owned \subseteq mapped
      BY <2>1
    <2>5. mapped = owned
      BY <2>3, <2>4
    <2>. QED BY <2>5 DEF StackInv, StacksDisjoint, PagesAccounted
  <1>. QED BY <1>1, StackInvariant, PTL
==============================================================================

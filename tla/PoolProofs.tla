----------------------------- MODULE PoolProofs ------------------------------
(***************************************************************************)
(* The identifier pool over its bitmap, for words of any width and pools   *)
(* of any capacity.                                                        *)
(*                                                                         *)
(* An identifier is the address of a bit, word and offset, and below the   *)
(* capacity are exactly the addresses that the mask of the last word lets  *)
(* through.  So the owned identifiers are the bits that are set, which is  *)
(* inductive as it stands once the trailing bits are known to be clear;    *)
(* what the searches answer follows from the order of addresses.           *)
(***************************************************************************)
EXTENDS IdPool, SeqFacts

USE WordsHaveBits, SomeIds, NullIsNoId

-----------------------------------------------------------------------------
(* Least elements *)

LEMMA LeastIs ==
    ASSUME NEW S, S \subseteq Nat
    PROVE  /\ S # {} => Min(S) \in S /\ \A y \in S : Min(S) <= y
           /\ \A x \in S : (\A y \in S : x <= y) => Min(S) = x
  <1>1. ASSUME S # {} PROVE Min(S) \in S /\ \A y \in S : Min(S) <= y
    <2>1. \E x \in S : \A y \in S : x <= y
      BY <1>1, LeastExists
    <2>. QED BY <2>1 DEF Min
  <1>2. ASSUME NEW x \in S, \A y \in S : x <= y PROVE Min(S) = x
    <2>1. Min(S) \in S /\ Min(S) <= x /\ x <= Min(S)
      BY <1>1, <1>2
    <2>2. \A y \in S : y \in Int
      OBVIOUS
    <2>3. Min(S) \in Int /\ x \in Int
      BY <2>1, <2>2
    <2>. QED BY <2>1, <2>3
  <1>. QED BY <1>1, <1>2

-----------------------------------------------------------------------------
(* Addresses of bits *)

Address(i, k) == i * WordBits + k

LEMMA AddressOf ==
    ASSUME NEW b \in Nat
    PROVE  /\ WordIndex(b) \in Nat /\ BitOffset(b) \in Offsets
           /\ b = Address(WordIndex(b), BitOffset(b))
  <1>1. /\ b \div WordBits \in Nat
        /\ b = WordBits * (b \div WordBits) + (b % WordBits)
        /\ b % WordBits \in 0 .. WordBits - 1
    OBVIOUS
  <1>2. WordBits * (b \div WordBits) = (b \div WordBits) * WordBits
    BY <1>1
  <1>. QED BY <1>1, <1>2 DEF WordIndex, BitOffset, Offsets, Address

LEMMA AddressOrder ==
    ASSUME NEW i \in Int, NEW j \in Int, i < j, NEW k \in Offsets, NEW m \in Offsets
    PROVE  Address(i, k) < Address(j, m)
  <1>1. k \in Int /\ m \in Int /\ k < WordBits /\ m >= 0
    BY DEF Offsets
  <1>2. i + 1 <= j
    OBVIOUS
  <1>3. (i + 1) * WordBits <= j * WordBits
    BY <1>2
  <1>4. (i + 1) * WordBits = i * WordBits + WordBits
    OBVIOUS
  <1>5. i * WordBits \in Int /\ j * WordBits \in Int
    OBVIOUS
  <1>. QED BY <1>1, <1>3, <1>4, <1>5 DEF Address

LEMMA AddressAt ==
    ASSUME NEW i \in Nat, NEW k \in Offsets
    PROVE  /\ Address(i, k) \in Nat
           /\ WordIndex(Address(i, k)) = i /\ BitOffset(Address(i, k)) = k
  <1>1. Address(i, k) \in Nat
    BY DEF Address, Offsets
  <1> DEFINE b == Address(i, k)
             j == WordIndex(b)
             m == BitOffset(b)
  <1>2. j \in Nat /\ m \in Offsets /\ b = Address(j, m)
    BY <1>1, AddressOf
  <1>3. b = Address(i, k)
    OBVIOUS
  <1> HIDE DEF b, j, m
  <1>4. b \in Nat
    BY <1>1, <1>3
  <1>5. i = j
    <2>1. ASSUME i < j PROVE FALSE
      <3>1. Address(i, k) < Address(j, m)
        BY <1>2, <2>1, AddressOrder
      <3>. QED BY <1>2, <1>3, <1>4, <3>1
    <2>2. ASSUME j < i PROVE FALSE
      <3>1. Address(j, m) < Address(i, k)
        BY <1>2, <2>2, AddressOrder
      <3>. QED BY <1>2, <1>3, <1>4, <3>1
    <2>. QED BY <1>2, <2>1, <2>2
  <1>6. k = m
    BY <1>2, <1>3, <1>5 DEF Address, Offsets
  <1>. QED BY <1>1, <1>5, <1>6 DEF b, j, m

\* The valid offsets of a word of a bitmap of that many bits.
Valid(bits, i) == IF i = TotalWords(bits) - 1 THEN LastWordMask(bits) ELSE AllOnes

\* The words of a bitmap, up to the mask of the last one, hold its bits.
LEMMA WordsOfBits ==
    ASSUME NEW n \in Nat \ {0}
    PROVE  LET last == TotalWords(n) - 1
           IN  /\ last \in Nat
               /\ \A i \in Nat, k \in Offsets :
                     Address(i, k) < n <=> i <= last /\ k \in Valid(n, i)
               /\ BitOffset(n) # 0 => WordIndex(n) = last
               /\ BitOffset(n) = 0 => WordIndex(n) = last + 1 /\ LastWordMask(n) = AllOnes
  <1> DEFINE l == WordIndex(n - 1)
             r == BitOffset(n - 1)
  <1>1. l \in Nat /\ r \in Offsets /\ n - 1 = Address(l, r) /\ r \in 0 .. WordBits - 1
    BY AddressOf DEF Offsets
  <1> HIDE DEF l, r
  <1>2. n = l * WordBits + (r + 1) /\ l * WordBits \in Nat
    BY <1>1 DEF Address
  <1>3. TotalWords(n) = l + 1
    <2>1. n + WordBits - 1 = (l + 1) * WordBits + r
      BY <1>1, <1>2
    <2>2. n + WordBits - 1 = Address(l + 1, r)
      BY <2>1 DEF Address
    <2>3. WordIndex(Address(l + 1, r)) = l + 1
      BY <1>1, AddressAt
    <2>. QED BY <2>2, <2>3 DEF TotalWords, WordIndex
  <1>4. CASE r + 1 = WordBits
    <2>1. n = Address(l + 1, 0) /\ 0 \in Offsets /\ l + 1 \in Nat
      <3>1. (l + 1) * WordBits = l * WordBits + WordBits
        BY <1>1
      <3>. QED BY <1>1, <1>2, <1>4, <3>1 DEF Address, Offsets
    <2>2. BitOffset(n) = 0 /\ WordIndex(n) = l + 1
      BY <2>1, AddressAt
    <2>3. LastWordMask(n) = AllOnes
      BY <2>2 DEF LastWordMask
    <2>4. ASSUME NEW i \in Nat, NEW k \in Offsets
          PROVE  Address(i, k) < n <=> i <= l
      <3>1. i < l + 1 => Address(i, k) < n
        BY <1>1, <2>1, AddressOrder
      <3>2. i > l + 1 => n < Address(i, k)
        BY <1>1, <2>1, AddressOrder
      <3>3. i = l + 1 => n <= Address(i, k)
        BY <1>1, <2>1 DEF Address, Offsets
      <3>4. Address(i, k) \in Nat
        BY AddressAt
      <3>. QED BY <1>1, <3>1, <3>2, <3>3, <3>4
    <2>. QED BY <1>1, <1>3, <2>2, <2>3, <2>4 DEF Valid, AllOnes
  <1>5. CASE r + 1 # WordBits
    <2>1. n = Address(l, r + 1) /\ r + 1 \in Offsets
      BY <1>1, <1>2, <1>5 DEF Address, Offsets
    <2>2. BitOffset(n) = r + 1 /\ WordIndex(n) = l /\ r + 1 # 0
      BY <1>1, <2>1, AddressAt
    <2>3. LastWordMask(n) = {k \in Offsets : k < r + 1}
      BY <2>2 DEF LastWordMask
    <2>4. ASSUME NEW i \in Nat, NEW k \in Offsets
          PROVE  Address(i, k) < n <=> i <= l /\ (i = l => k < r + 1)
      <3>1. i < l => Address(i, k) < n
        BY <1>1, <2>1, AddressOrder
      <3>2. i > l => n < Address(i, k)
        BY <1>1, <2>1, AddressOrder
      <3>3. i = l => (Address(i, k) < n <=> k < r + 1)
        BY <1>1, <1>2 DEF Address, Offsets
      <3>4. Address(i, k) \in Nat
        BY AddressAt
      <3>. QED BY <1>1, <3>1, <3>2, <3>3, <3>4
    <2>. QED BY <1>1, <1>3, <2>2, <2>3, <2>4 DEF Valid, AllOnes
  <1>. QED BY <1>4, <1>5

-----------------------------------------------------------------------------
(* The invariant *)

PoolInv ==
    /\ totalBits \in 1 .. MaxIds
    /\ words \in [Storage -> SUBSET Offsets]
    /\ TrailingBitsClear
    /\ owned = SetBits

\* The storage holds the words of every capacity up to MaxIds, the bits of which
\* are at addresses in those words.
LEMMA StorageHolds ==
    ASSUME NEW n \in 1 .. MaxIds
    PROVE  /\ TotalWords(n) - 1 \in Nat
           /\ \A i \in 0 .. TotalWords(n) - 1 : i \in Storage
           /\ \A b \in 0 .. n - 1 : /\ WordIndex(b) \in 0 .. TotalWords(n) - 1
                                    /\ BitOffset(b) \in Valid(n, WordIndex(b))
                                    /\ BitOffset(b) \in Offsets
                                    /\ b = Address(WordIndex(b), BitOffset(b))
  <1> DEFINE last == TotalWords(n) - 1
             end == TotalWords(MaxIds) - 1
  <1>1. /\ last \in Nat
        /\ \A i \in Nat, k \in Offsets : Address(i, k) < n <=> i <= last /\ k \in Valid(n, i)
    BY WordsOfBits
  <1>2. /\ end \in Nat
        /\ \A i \in Nat, k \in Offsets :
              Address(i, k) < MaxIds <=> i <= end /\ k \in Valid(MaxIds, i)
    BY WordsOfBits
  <1>3. Storage = 0 .. end
    BY DEF Storage
  <1> HIDE DEF last, end
  <1>4. ASSUME NEW b \in 0 .. n - 1
        PROVE  /\ WordIndex(b) \in 0 .. last /\ BitOffset(b) \in Valid(n, WordIndex(b))
               /\ BitOffset(b) \in Offsets /\ b = Address(WordIndex(b), BitOffset(b))
    <2>1. /\ WordIndex(b) \in Nat /\ BitOffset(b) \in Offsets
          /\ b = Address(WordIndex(b), BitOffset(b)) /\ b < n
      BY AddressOf
    <2>. QED BY <1>1, <2>1
  <1>5. last <= end
    <2>1. n - 1 \in 0 .. n - 1 /\ n - 1 \in Nat /\ n - 1 < MaxIds
      OBVIOUS
    <2>2. 0 \in Offsets /\ 0 \in Valid(n, last)
      BY DEF Offsets, Valid, LastWordMask, AllOnes, BitOffset
    <2>3. Address(last, 0) < n
      BY <1>1, <2>2
    <2>4. Address(last, 0) < MaxIds
      <3>1. Address(last, 0) \in Nat
        BY <1>1, <2>2, AddressAt
      <3>. QED BY <2>3, <3>1
    <2>. QED BY <1>1, <1>2, <2>2, <2>4
  <1>6. \A i \in 0 .. last : i \in Storage
    BY <1>1, <1>2, <1>3, <1>5
  <1>. QED BY <1>1, <1>4, <1>6 DEF last

\* Every bit that is set in the words is that of an identifier.
LEMMA BitsAreIds ==
    ASSUME PoolInv, NEW i \in 0 .. LastWord, NEW k \in words[i]
    PROVE  /\ i \in Nat /\ k \in Offsets
           /\ Address(i, k) \in SetBits
  <1>1. i \in Storage /\ i \in Nat /\ totalBits \in Nat \ {0}
    BY StorageHolds DEF PoolInv, LastWord
  <1>2. k \in Offsets
    BY <1>1 DEF PoolInv
  <1>3. k \in Valid(totalBits, i)
    BY <1>2 DEF PoolInv, TrailingBitsClear, Valid, LastWord, AllOnes
  <1>4. Address(i, k) < totalBits
    BY <1>1, <1>2, <1>3, WordsOfBits DEF LastWord
  <1>5. /\ Address(i, k) \in Nat
        /\ WordIndex(Address(i, k)) = i /\ BitOffset(Address(i, k)) = k
    BY <1>1, <1>2, AddressAt
  <1>. QED BY <1>1, <1>2, <1>4, <1>5 DEF SetBits, Test

\* A search answers with the least address in the words it goes through.
LEMMA FirstInIsLeast ==
    ASSUME PoolInv, NEW array, \A i \in 0 .. LastWord : array[i] \subseteq Offsets,
           NEW B \in SUBSET Nat,
           \A i \in 0 .. LastWord : \A k \in array[i] : Address(i, k) \in B,
           \A b \in B : /\ WordIndex(b) \in 0 .. LastWord
                        /\ BitOffset(b) \in array[WordIndex(b)]
    PROVE  FirstIn(array) = IF B = {} THEN NULL ELSE Min(B)
  <1> DEFINE hits == {i \in 0 .. LastWord : array[i] # {}}
             first == Min(hits)
             low == Min(array[first])
  <1>0. LastWord \in Nat /\ \A k \in Offsets : k \in Nat
    BY StorageHolds DEF PoolInv, LastWord, Offsets
  <1>1. CASE B = {}
    <2>1. hits = {}
      BY <1>1
    <2>. QED BY <1>1, <2>1 DEF FirstIn
  <1>2. CASE B # {}
    <2>1. hits # {} /\ hits \subseteq Nat
      <3>1. PICK b \in B : TRUE
        BY <1>2
      <3>2. WordIndex(b) \in hits
        BY <3>1
      <3>. QED BY <1>0, <3>2
    <2>2. first \in hits /\ \A i \in hits : first <= i
      BY <2>1, LeastIs
    <2>3. array[first] \subseteq Nat /\ array[first] # {}
      <3>1. first \in 0 .. LastWord /\ array[first] # {}
        BY <2>2
      <3>. QED BY <1>0, <3>1
    <2>4. low \in array[first] /\ \A k \in array[first] : low <= k
      BY <2>3, LeastIs
    <2>5. FirstIn(array) = first * WordBits + low
      BY <2>1 DEF FirstIn
    <2>6. first \in Nat /\ first \in 0 .. LastWord /\ \A i \in 0 .. LastWord : array[i] # {} => first <= i
      BY <2>1, <2>2
    <2> HIDE DEF first, low, hits
    <2>7. Address(first, low) \in B /\ FirstIn(array) = Address(first, low)
      BY <2>4, <2>5, <2>6 DEF Address
    <2>8. ASSUME NEW b \in B PROVE Address(first, low) <= b
      <3>1. /\ b \in Nat /\ WordIndex(b) \in 0 .. LastWord
            /\ BitOffset(b) \in array[WordIndex(b)]
            /\ b = Address(WordIndex(b), BitOffset(b))
        BY AddressOf
      <3>2. first <= WordIndex(b)
        BY <2>6, <3>1
      <3>3. low \in Offsets /\ BitOffset(b) \in Offsets
        BY <2>4, <2>6, <3>1
      <3>4. CASE first = WordIndex(b)
        <4>1. low <= BitOffset(b)
          BY <2>4, <3>1, <3>4
        <4>. QED BY <2>6, <3>1, <3>3, <3>4, <4>1 DEF Address, Offsets
      <3>5. CASE first < WordIndex(b)
        <4>1. Address(first, low) < Address(WordIndex(b), BitOffset(b))
          BY <2>6, <3>1, <3>3, <3>5, AddressOrder
        <4>2. Address(first, low) \in Nat
          BY <2>6, <3>3, AddressAt
        <4>3. Address(first, low) < b
          BY <3>1, <4>1
        <4>. QED BY <3>1, <4>2, <4>3
      <3>. QED BY <2>6, <3>1, <3>2, <3>4, <3>5
    <2>9. Min(B) = Address(first, low)
      BY <2>7, <2>8, LeastIs
    <2>. QED BY <1>2, <2>7, <2>9
  <1>. QED BY <1>1, <1>2

\* The offsets that the search for a clear bit looks at in each word.
ClearIn(i) ==
    (Offsets \ words[i]) \cap (IF i = LastWord THEN LastWordMask(totalBits) ELSE AllOnes)

ClearBits == (0 .. totalBits - 1) \ SetBits

LEMMA SearchesAnswer ==
    ASSUME PoolInv
    PROVE  /\ FindFirstSet = IF SetBits = {} THEN NULL ELSE Min(SetBits)
           /\ FindFirstClear = IF ClearBits = {} THEN NULL ELSE Min(ClearBits)
  <1>0. totalBits \in Nat \ {0} /\ LastWord = TotalWords(totalBits) - 1 /\ LastWord \in Nat
    BY StorageHolds DEF PoolInv, LastWord
  <1>1. \A b \in 0 .. totalBits - 1 : /\ WordIndex(b) \in 0 .. LastWord
                                      /\ BitOffset(b) \in Valid(totalBits, WordIndex(b))
                                      /\ BitOffset(b) \in Offsets
    BY StorageHolds DEF PoolInv, LastWord
  <1>2. \A i \in 0 .. LastWord : words[i] \subseteq Offsets
    BY BitsAreIds
  <1>3. FindFirstSet = IF SetBits = {} THEN NULL ELSE Min(SetBits)
    <2>1. SetBits \in SUBSET Nat
      BY <1>0 DEF SetBits
    <2>2. \A i \in 0 .. LastWord : \A k \in words[i] : Address(i, k) \in SetBits
      BY BitsAreIds
    <2>3. \A b \in SetBits : /\ WordIndex(b) \in 0 .. LastWord
                             /\ BitOffset(b) \in words[WordIndex(b)]
      BY <1>1 DEF SetBits, Test
    <2>. QED BY <1>2, <2>1, <2>2, <2>3, FirstInIsLeast DEF FindFirstSet
  <1>4. FindFirstClear = IF ClearBits = {} THEN NULL ELSE Min(ClearBits)
    <2> DEFINE array == [i \in 0 .. LastWord |-> ClearIn(i)]
    <2>1. ClearBits \in SUBSET Nat
      BY <1>0 DEF ClearBits
    <2>2. \A i \in 0 .. LastWord : array[i] = (Offsets \ words[i]) \cap Valid(totalBits, i)
      BY <1>0 DEF ClearIn, Valid
    <2>3. FindFirstClear = FirstIn(array)
      BY DEF FindFirstClear, ClearIn
    <2> HIDE DEF array
    <2>4. \A i \in 0 .. LastWord : array[i] \subseteq Offsets
      BY <2>2
    <2>5. ASSUME NEW i \in 0 .. LastWord, NEW k \in array[i]
          PROVE  Address(i, k) \in ClearBits
      <3>1. i \in Nat /\ k \in Offsets /\ k \notin words[i] /\ k \in Valid(totalBits, i)
        BY <2>2
      <3>2. Address(i, k) < totalBits
        BY <1>0, <3>1, WordsOfBits
      <3>3. /\ Address(i, k) \in Nat
            /\ WordIndex(Address(i, k)) = i /\ BitOffset(Address(i, k)) = k
        BY <3>1, AddressAt
      <3>. QED BY <1>0, <3>1, <3>2, <3>3 DEF ClearBits, SetBits, Test
    <2>6. \A b \in ClearBits : /\ WordIndex(b) \in 0 .. LastWord
                               /\ BitOffset(b) \in array[WordIndex(b)]
      BY <1>1, <2>2 DEF ClearBits, SetBits, Test
    <2>. QED BY <2>1, <2>3, <2>4, <2>5, <2>6, FirstInIsLeast
  <1>. QED BY <1>3, <1>4

-----------------------------------------------------------------------------
(* Every step *)

LEMMA PoolInvInit == Init => PoolInv
  <1> SUFFICES ASSUME Init PROVE PoolInv
    OBVIOUS
  <1>1. /\ totalBits \in 1 .. MaxIds /\ words \in [Storage -> SUBSET Offsets]
        /\ \A i \in Storage : words[i] = {}
    BY DEF Init
  <1>2. /\ LastWord \in 0 .. LastWord /\ \A i \in 0 .. LastWord : i \in Storage
        /\ \A b \in 0 .. totalBits - 1 : WordIndex(b) \in 0 .. LastWord
    BY <1>1, StorageHolds DEF LastWord
  <1>3. TrailingBitsClear
    BY <1>1, <1>2 DEF TrailingBitsClear
  <1>4. SetBits = {}
    BY <1>1, <1>2 DEF SetBits, Test
  <1>. QED BY <1>1, <1>3, <1>4 DEF Init, PoolInv

\* The bitmap is cleared for a capacity, that of the pool or another one.
LEMMA ClearKeeps ==
    ASSUME PoolInv, NEW n \in 1 .. MaxIds,
           totalBits' = n, words' = ClearedFor(n), owned' = {}
    PROVE  PoolInv'
  <1>1. /\ TotalWords(n) - 1 \in 0 .. TotalWords(n) - 1
        /\ \A i \in 0 .. TotalWords(n) - 1 : i \in Storage
        /\ \A b \in 0 .. n - 1 : WordIndex(b) \in 0 .. TotalWords(n) - 1
        /\ TotalWords(n) - 1 \in Nat
    BY StorageHolds
  <1>2. /\ words' \in [Storage -> SUBSET Offsets]
        /\ \A i \in 0 .. TotalWords(n) - 1 : words'[i] = {}
    <2>1. TotalWords(n) \in Int
      BY <1>1 DEF TotalWords
    <2>2. \A i \in 0 .. TotalWords(n) - 1 : i < TotalWords(n)
      BY <2>1
    <2>. QED BY <1>1, <2>2 DEF ClearedFor, PoolInv
  <1>3. TrailingBitsClear'
    BY <1>1, <1>2 DEF TrailingBitsClear, LastWord
  <1>4. SetBits' = {}
    BY <1>1, <1>2 DEF SetBits, Test
  <1>. QED BY <1>2, <1>3, <1>4 DEF PoolInv

\* One bit is set or cleared, and no other.
LEMMA OneBit ==
    ASSUME PoolInv, NEW id \in 0 .. totalBits - 1, NEW new,
           totalBits' = totalBits,
           words' = [words EXCEPT ![WordIndex(id)] = new],
           \/ new = words[WordIndex(id)] \cup {BitOffset(id)}
           \/ new = words[WordIndex(id)] \ {BitOffset(id)}
    PROVE  /\ words' \in [Storage -> SUBSET Offsets] /\ TrailingBitsClear'
           /\ \A b \in 0 .. totalBits - 1 :
                 Test(b)' = IF b = id THEN BitOffset(id) \in new ELSE Test(b)
  <1> DEFINE i == WordIndex(id)
             k == BitOffset(id)
  <1>0. totalBits \in 1 .. MaxIds
    BY DEF PoolInv
  <1>1. /\ i \in 0 .. LastWord /\ i \in Storage /\ k \in Offsets
        /\ k \in Valid(totalBits, i) /\ id = Address(i, k)
    BY <1>0, StorageHolds DEF LastWord
  <1>2. /\ \A b \in 0 .. totalBits - 1 : /\ WordIndex(b) \in Storage
                                         /\ b = Address(WordIndex(b), BitOffset(b))
        /\ LastWord \in Storage /\ LastWord' = LastWord
    BY <1>0, StorageHolds DEF LastWord
  <1>3. words[i] \in SUBSET Offsets
    BY <1>1 DEF PoolInv
  <1>4. words' = [words EXCEPT ![i] = new]
        /\ (new = words[i] \cup {k} \/ new = words[i] \ {k})
    OBVIOUS
  <1> HIDE DEF i, k
  <1>5. /\ words' \in [Storage -> SUBSET Offsets]
        /\ \A j \in Storage : words'[j] = IF j = i THEN new ELSE words[j]
    BY <1>1, <1>3, <1>4 DEF PoolInv
  <1>6. TrailingBitsClear'
    BY <1>0, <1>1, <1>2, <1>4, <1>5 DEF TrailingBitsClear, PoolInv, Valid, LastWord
  <1>7. ASSUME NEW b \in 0 .. totalBits - 1
        PROVE  Test(b)' = IF b = id THEN k \in new ELSE Test(b)
    <2>1. Test(b)' = (BitOffset(b) \in words'[WordIndex(b)])
      BY DEF Test
    <2>2. CASE b = id
      BY <1>1, <1>5, <2>1, <2>2 DEF i, k
    <2>3. CASE b # id
      <3>1. WordIndex(b) # i \/ BitOffset(b) # k
        BY <1>1, <1>2, <2>3
      <3>2. BitOffset(b) \in words'[WordIndex(b)] <=> BitOffset(b) \in words[WordIndex(b)]
        BY <1>2, <1>4, <1>5, <3>1
      <3>. QED BY <2>1, <2>3, <3>2 DEF Test
    <2>. QED BY <2>2, <2>3
  <1>. QED BY <1>5, <1>6, <1>7 DEF i, k

\* An allocation takes the lowest clear bit, if there is one.
LEMMA AllocateTakes ==
    ASSUME PoolInv, Allocate
    PROVE  \/ /\ ClearBits = {} /\ outId' = NULL /\ UNCHANGED <<totalBits, words, owned>>
           \/ \E id \in ClearBits :
                 /\ \A b \in ClearBits : id <= b
                 /\ outId' = id /\ owned' = owned \cup {id} /\ totalBits' = totalBits
                 /\ words' = [words EXCEPT ![WordIndex(id)] = @ \cup {BitOffset(id)}]
  <1>1. FindFirstClear = IF ClearBits = {} THEN NULL ELSE Min(ClearBits)
    BY SearchesAnswer
  <1>2. CASE ClearBits = {}
    BY <1>1, <1>2 DEF Allocate
  <1>3. CASE ClearBits # {}
    <2>1. ClearBits \subseteq Nat
      BY DEF PoolInv, ClearBits
    <2>2. /\ FindFirstClear \in ClearBits
          /\ \A b \in ClearBits : FindFirstClear <= b
      BY <1>1, <1>3, <2>1, LeastIs
    <2>3. FindFirstClear # NULL
      BY <2>2 DEF PoolInv, ClearBits
    <2>4. PICK id \in ClearBits : id = FindFirstClear
      BY <2>2
    <2>5. /\ \A b \in ClearBits : id <= b
          /\ outId' = id /\ owned' = owned \cup {id} /\ totalBits' = totalBits
          /\ words' = [words EXCEPT ![WordIndex(id)] = @ \cup {BitOffset(id)}]
      BY <2>2, <2>3, <2>4 DEF Allocate
    <2>. QED BY <2>5
  <1>. QED BY <1>2, <1>3

LEMMA AllocateKeeps == ASSUME PoolInv, Allocate PROVE PoolInv'
  <1>1. CASE ClearBits = {} /\ UNCHANGED <<totalBits, words, owned>>
    BY <1>1 DEF PoolInv, TrailingBitsClear, SetBits, Test, LastWord
  <1>2. ASSUME NEW id \in ClearBits, owned' = owned \cup {id}, totalBits' = totalBits,
               words' = [words EXCEPT ![WordIndex(id)] = @ \cup {BitOffset(id)}]
        PROVE  PoolInv'
    <2> DEFINE new == words[WordIndex(id)] \cup {BitOffset(id)}
    <2>1. id \in 0 .. totalBits - 1
      BY DEF ClearBits
    <2>2. /\ words' = [words EXCEPT ![WordIndex(id)] = new]
          /\ new = words[WordIndex(id)] \cup {BitOffset(id)} /\ BitOffset(id) \in new
      BY <1>2
    <2> HIDE DEF new
    <2>3. /\ words' \in [Storage -> SUBSET Offsets] /\ TrailingBitsClear'
          /\ \A b \in 0 .. totalBits - 1 : Test(b)' = IF b = id THEN BitOffset(id) \in new
                                                      ELSE Test(b)
      BY <1>2, <2>1, <2>2, OneBit
    <2>4. SetBits' = SetBits \cup {id}
      BY <1>2, <2>1, <2>2, <2>3 DEF SetBits
    <2>. QED BY <1>2, <2>3, <2>4 DEF PoolInv
  <1>. QED BY <1>1, <1>2, AllocateTakes

\* The assertions of gt_id_pool_release let through what is owned.
LEMMA ReleasedIsOwned ==
    ASSUME PoolInv, NEW id \in 0 .. MaxIds, IsAllocated(id)
    PROVE  id \in 0 .. totalBits - 1 /\ id \in owned
  BY DEF PoolInv, IsAllocated, SetBits

LEMMA ReleaseKeeps ==
    ASSUME PoolInv, NEW id \in 0 .. totalBits - 1, Release(id) PROVE PoolInv'
  <1> DEFINE new == words[WordIndex(id)] \ {BitOffset(id)}
  <1>1. /\ words' = [words EXCEPT ![WordIndex(id)] = new] /\ totalBits' = totalBits
        /\ new = words[WordIndex(id)] \ {BitOffset(id)} /\ BitOffset(id) \notin new
        /\ owned' = owned \ {id}
    BY DEF Release
  <1> HIDE DEF new
  <1>2. /\ words' \in [Storage -> SUBSET Offsets] /\ TrailingBitsClear'
        /\ \A b \in 0 .. totalBits - 1 : Test(b)' = IF b = id THEN BitOffset(id) \in new
                                                    ELSE Test(b)
    BY <1>1, OneBit
  <1>3. SetBits' = SetBits \ {id}
    BY <1>1, <1>2 DEF SetBits
  <1>. QED BY <1>1, <1>2, <1>3 DEF PoolInv

LEMMA SetAllKeeps == ASSUME PoolInv, SetAll PROVE PoolInv'
  <1>1. /\ totalBits \in 1 .. MaxIds /\ totalBits' = totalBits /\ LastWord' = LastWord
        /\ LastWord = TotalWords(totalBits) - 1
    BY DEF PoolInv, SetAll, LastWord
  <1>2. /\ LastWord \in Nat /\ \A i \in 0 .. LastWord : i \in Storage
        /\ \A b \in 0 .. totalBits - 1 : /\ WordIndex(b) \in 0 .. LastWord
                                         /\ BitOffset(b) \in Valid(totalBits, WordIndex(b))
    BY <1>1, StorageHolds
  <1>3. \A i \in 0 .. LastWord : Valid(totalBits, i) \subseteq Offsets
    BY DEF Valid, LastWordMask, AllOnes
  <1>4. /\ words' \in [Storage -> SUBSET Offsets]
        /\ \A i \in 0 .. LastWord : words'[i] = Valid(totalBits, i)
    <2>1. \A i \in Storage :
             words'[i] = IF i = LastWord THEN AllOnes \cap LastWordMask(totalBits)
                         ELSE IF i < LastWord THEN AllOnes ELSE words[i]
      BY DEF SetAll
    <2>2. \A i \in 0 .. LastWord : words'[i] = Valid(totalBits, i)
      BY <1>1, <1>2, <1>3, <2>1 DEF Valid, AllOnes
    <2>3. words' \in [Storage -> SUBSET Offsets]
      BY DEF SetAll, AllOnes, PoolInv
    <2>. QED BY <2>2, <2>3
  <1>5. TrailingBitsClear'
    BY <1>1, <1>2, <1>4 DEF TrailingBitsClear, Valid
  <1>6. SetBits' = 0 .. totalBits - 1
    BY <1>1, <1>2, <1>4 DEF SetBits, Test
  <1>. QED BY <1>1, <1>4, <1>5, <1>6 DEF PoolInv, SetAll

LEMMA PoolInvStep == PoolInv /\ [Next]_vars => PoolInv'
  <1> SUFFICES ASSUME PoolInv, [Next]_vars PROVE PoolInv'
    OBVIOUS
  <1>1. ASSUME NEW n \in 1 .. MaxIds, PoolInit(n) PROVE PoolInv'
    BY <1>1, ClearKeeps DEF PoolInit
  <1>2. CASE ClearAll
    <2>1. totalBits \in 1 .. MaxIds
      BY DEF PoolInv
    <2>. QED BY <1>2, <2>1, ClearKeeps DEF ClearAll
  <1>3. CASE UNCHANGED vars
    BY <1>3 DEF vars, PoolInv, TrailingBitsClear, SetBits, Test, LastWord
  <1>4. ASSUME NEW id \in 0 .. MaxIds, Release(id) PROVE PoolInv'
    <2>1. id \in 0 .. totalBits - 1
      BY <1>4, ReleasedIsOwned DEF Release
    <2>. QED BY <1>4, <2>1, ReleaseKeeps
  <1>5. ASSUME NEW id \in 0 .. MaxIds, ReleasePanics(id) PROVE PoolInv'
    BY <1>5 DEF ReleasePanics, PoolInv, TrailingBitsClear, SetBits, Test, LastWord
  <1>6. CASE Panicked
    BY <1>3, <1>6 DEF Panicked
  <1>. QED BY <1>1, <1>2, <1>3, <1>4, <1>5, <1>6, AllocateKeeps, SetAllKeeps DEF Next

LEMMA PoolInvariant == Spec => []PoolInv
  BY PoolInvInit, PoolInvStep, PTL DEF Spec

-----------------------------------------------------------------------------
\* Bits past the capacity are never set, whatever is allocated, released, set or
\* cleared at once, or set up anew for another capacity.
THEOREM TrailingBitsStayClear == Spec => []TrailingBitsClear
  BY PoolInvariant, PTL DEF PoolInv

\* A bit is set exactly while its identifier is owned, so that the assertions of
\* gt_id_pool_release let through what is owned and nothing else.
THEOREM OwnedAreAlwaysAllocated == Spec => []OwnedAreAllocated
  <1>1. PoolInv => OwnedAreAllocated
    <2> SUFFICES ASSUME PoolInv PROVE {id \in 0 .. MaxIds : IsAllocated(id)} = SetBits
      BY DEF OwnedAreAllocated, PoolInv
    <2>. QED BY DEF PoolInv, IsAllocated, SetBits
  <1>. QED BY <1>1, PoolInvariant, PTL

\* What the words answer is true of the bits.
LEMMA WordsAnswerForBits == PoolInv => SearchesExact
  <1> SUFFICES ASSUME PoolInv PROVE SearchesExact
    OBVIOUS
  <1>1. /\ totalBits \in Nat \ {0} /\ LastWord \in Nat
        /\ LastWord = TotalWords(totalBits) - 1
        /\ \A b \in 0 .. totalBits - 1 : /\ WordIndex(b) \in 0 .. LastWord
                                         /\ BitOffset(b) \in Valid(totalBits, WordIndex(b))
    BY StorageHolds DEF PoolInv, LastWord
  <1>2. IsEmpty <=> SetBits = {}
    <2>1. IsEmpty => SetBits = {}
      BY <1>1 DEF IsEmpty, SetBits, Test
    <2>2. ASSUME SetBits = {}, NEW i \in 0 .. LastWord PROVE words[i] = {}
      BY <2>2, BitsAreIds
    <2>. QED BY <2>1, <2>2 DEF IsEmpty
  <1>3. (\A i \in 0 .. LastWord : words[i] = Valid(totalBits, i))
            <=> SetBits = 0 .. totalBits - 1
    <2>1. ASSUME \A i \in 0 .. LastWord : words[i] = Valid(totalBits, i)
          PROVE  SetBits = 0 .. totalBits - 1
      BY <1>1, <2>1 DEF SetBits, Test
    <2>2. ASSUME SetBits = 0 .. totalBits - 1, NEW i \in 0 .. LastWord
          PROVE  words[i] = Valid(totalBits, i)
      <3>1. ASSUME NEW k \in Valid(totalBits, i) PROVE k \in words[i]
        <4>1. i \in Nat /\ k \in Offsets
          BY <1>1 DEF Valid, LastWordMask, AllOnes
        <4>2. /\ Address(i, k) \in Nat /\ Address(i, k) < totalBits
              /\ WordIndex(Address(i, k)) = i /\ BitOffset(Address(i, k)) = k
          BY <1>1, <4>1, AddressAt, WordsOfBits
        <4>3. Address(i, k) \in SetBits
          BY <1>1, <2>2, <4>2
        <4>. QED BY <4>2, <4>3 DEF SetBits, Test
      <3>2. ASSUME NEW k \in words[i] PROVE k \in Valid(totalBits, i)
        <4>1. i \in Nat /\ k \in Offsets /\ Address(i, k) \in SetBits
          BY BitsAreIds
        <4>2. Address(i, k) < totalBits
          BY <1>1, <4>1 DEF SetBits
        <4>. QED BY <1>1, <4>1, <4>2, WordsOfBits
      <3>. QED BY <3>1, <3>2
    <2>. QED BY <2>1, <2>2
  <1>4. IsFull <=> \A i \in 0 .. LastWord : words[i] = Valid(totalBits, i)
    <2> DEFINE full == totalBits \div WordBits
    <2>1. full = WordIndex(totalBits)
      BY DEF WordIndex
    <2>2. CASE BitOffset(totalBits) # 0
      <3>1. full = LastWord
        BY <1>1, <2>1, <2>2, WordsOfBits
      <3>2. TotalWords(totalBits) = LastWord + 1
        BY <1>1 DEF TotalWords
      <3> HIDE DEF full
      <3>3. \A i \in 0 .. LastWord : i = LastWord \/ i \in 0 .. full - 1
        BY <1>1, <3>1
      <3>4. \A i \in 0 .. full - 1 : i \in 0 .. LastWord /\ i # LastWord
        BY <1>1, <3>1
      <3>5. TotalWords(totalBits) > full /\ LastWord \in 0 .. LastWord
        BY <1>1, <3>1, <3>2
      <3>6. IsFull <=> /\ \A i \in 0 .. full - 1 : words[i] = AllOnes
                       /\ words[full] = LastWordMask(totalBits)
        BY <3>5 DEF IsFull, full
      <3>. QED BY <1>1, <3>1, <3>3, <3>4, <3>5, <3>6 DEF Valid
    <2>3. CASE BitOffset(totalBits) = 0
      <3>1. full = LastWord + 1 /\ LastWordMask(totalBits) = AllOnes
        BY <1>1, <2>1, <2>3, WordsOfBits
      <3>2. TotalWords(totalBits) = LastWord + 1
        BY <1>1 DEF TotalWords
      <3> HIDE DEF full
      <3>3. ~(TotalWords(totalBits) > full) /\ full - 1 = LastWord
        BY <1>1, <3>1, <3>2
      <3>4. IsFull <=> \A i \in 0 .. LastWord : words[i] = AllOnes
        BY <3>3 DEF IsFull, full
      <3>. QED BY <3>1, <3>4 DEF Valid
    <2>. QED BY <2>2, <2>3
  <1>. QED BY <1>2, <1>3, <1>4, SearchesAnswer DEF SearchesExact, ClearBits

\* For words of every width and every capacity, the searches and tests that go
\* word by word answer for the bits, the last word being whole or partial.
THEOREM SearchesAreExact == Spec => []SearchesExact
  <1>. QED BY PoolInvariant, WordsAnswerForBits, PTL

\* An allocation hands out the lowest identifier that nobody owns and is refused
\* only when all are owned, for words and pools of every size: every step of the
\* bitmap is a step of IdSet.
THEOREM PoolImplementsIdSet == Spec => ImplementsIdSet
  <1>1. Init => Ids!Start
    BY DEF Init, Ids!Start
  <1>2. PoolInv /\ [Next]_vars => [Ids!IdSetNext]_<<totalBits, owned, outId>>
    <2> SUFFICES ASSUME PoolInv, [Next]_vars
                 PROVE  [Ids!IdSetNext]_<<totalBits, owned, outId>>
      OBVIOUS
    <2>1. CASE Allocate
      <3>1. Ids!Free = ClearBits
        BY DEF Ids!Free, ClearBits, PoolInv
      <3>2. Ids!Take \/ Ids!Refuse
        BY <2>1, <3>1, AllocateTakes DEF Ids!Take, Ids!Refuse
      <3>. QED BY <3>2 DEF Ids!IdSetNext
    <2>2. ASSUME NEW id \in 0 .. MaxIds, Release(id) PROVE Ids!Return
      <3>1. id \in owned
        BY <2>2, ReleasedIsOwned DEF Release
      <3>. QED BY <2>2, <3>1 DEF Release, Ids!Return
    <2>3. ASSUME NEW n \in 1 .. MaxIds, PoolInit(n) PROVE Ids!Renew
      BY <2>3 DEF PoolInit, Ids!Renew
    <2>4. CASE SetAll
      BY <2>4 DEF SetAll, Ids!TakeAll, Ids!IdSetNext
    <2>5. CASE ClearAll
      BY <2>5 DEF ClearAll, Ids!ReturnAll, Ids!IdSetNext
    <2>6. CASE UNCHANGED vars
      BY <2>6 DEF vars
    <2>7. ASSUME NEW id \in 0 .. MaxIds, ReleasePanics(id)
          PROVE  UNCHANGED <<totalBits, owned, outId>>
      BY <2>7 DEF ReleasePanics
    <2>8. Panicked => UNCHANGED <<totalBits, owned, outId>>
      BY DEF Panicked, vars
    <2>. QED BY <2>1, <2>2, <2>3, <2>4, <2>5, <2>6, <2>7, <2>8 DEF Next, Ids!IdSetNext
  <1>. QED BY <1>1, <1>2, PoolInvariant, PTL DEF Spec, ImplementsIdSet, Ids!IdSetSafe
==============================================================================

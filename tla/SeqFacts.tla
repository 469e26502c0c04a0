------------------------------ MODULE SeqFacts ------------------------------
(***************************************************************************)
(* What the list operations of the runtime do to the set of elements of a  *)
(* list and to the absence of duplicates in it; and the least element of a *)
(* set of numbers, which is how the proofs do induction.                   *)
(***************************************************************************)
EXTENDS SequencesExt, SequenceTheorems, WellFoundedInduction, TLAPS

\* A node pushed at the back joins the elements, and duplicates nothing when it
\* was not there (gt_list_push_back).
LEMMA AppendFacts ==
    ASSUME NEW S, NEW s \in Seq(S), NEW x \in S
    PROVE  /\ Append(s, x) \in Seq(S)
           /\ ToSet(Append(s, x)) = ToSet(s) \cup {x}
           /\ Len(Append(s, x)) = Len(s) + 1
           /\ IsInjective(s) /\ x \notin ToSet(s) => IsInjective(Append(s, x))
  <1> DEFINE a == Append(s, x)
  <1>1. /\ a \in Seq(S) /\ Len(a) = Len(s) + 1 /\ DOMAIN a = 1 .. Len(s) + 1
        /\ \A i \in 1 .. Len(s) : a[i] = s[i]
        /\ a[Len(s) + 1] = x
        /\ DOMAIN s = 1 .. Len(s) /\ Len(s) \in Nat
    BY AppendProperties
  <1>2. ToSet(a) = ToSet(s) \cup {x}
    <2>1. \A y \in ToSet(a) : y \in ToSet(s) \cup {x}
      BY <1>1 DEF ToSet
    <2>2. \A y \in ToSet(s) : y \in ToSet(a)
      BY <1>1 DEF ToSet
    <2>3. x \in ToSet(a)
      BY <1>1 DEF ToSet
    <2>. QED BY <2>1, <2>2, <2>3
  <1>3. IsInjective(s) /\ x \notin ToSet(s) => IsInjective(a)
    BY <1>1 DEF IsInjective, ToSet
  <1>. QED BY <1>1, <1>2, <1>3

\* Taking the front off removes one element and leaves no second copy of it
\* (gt_queue_dequeue, gt_list_remove of the front).
LEMMA HeadTailFacts ==
    ASSUME NEW S, NEW s \in Seq(S), s # <<>>
    PROVE  /\ Head(s) \in S /\ Tail(s) \in Seq(S)
           /\ Head(s) \in ToSet(s)
           /\ ToSet(s) = {Head(s)} \cup ToSet(Tail(s))
           /\ Len(s) = Len(Tail(s)) + 1 /\ Len(s) > 0
           /\ IsInjective(s) => Head(s) \notin ToSet(Tail(s)) /\ IsInjective(Tail(s))
  <1> DEFINE r == Tail(s)
  <1>1. /\ Len(s) \in Nat \ {0} /\ DOMAIN s = 1 .. Len(s)
        /\ Head(s) = s[1] /\ Head(s) \in S
        /\ r \in Seq(S) /\ Len(r) = Len(s) - 1 /\ DOMAIN r = 1 .. Len(s) - 1
        /\ \A i \in 1 .. Len(s) - 1 : r[i] = s[i + 1]
    BY HeadTailProperties, EmptySeq
  <1>2. Head(s) \in ToSet(s)
    BY <1>1 DEF ToSet
  <1>3. ToSet(s) = {Head(s)} \cup ToSet(r)
    <2>1. \A y \in ToSet(s) : y \in {Head(s)} \cup ToSet(r)
      <3> SUFFICES ASSUME NEW i \in 1 .. Len(s), i # 1 PROVE s[i] \in ToSet(r)
        BY <1>1 DEF ToSet
      <3>1. i - 1 \in 1 .. Len(s) - 1 /\ r[i - 1] = s[i]
        BY <1>1
      <3>. QED BY <3>1, <1>1 DEF ToSet
    <2>2. \A y \in ToSet(r) : y \in ToSet(s)
      <3> SUFFICES ASSUME NEW i \in 1 .. Len(s) - 1 PROVE r[i] \in ToSet(s)
        BY <1>1 DEF ToSet
      <3>. QED BY <1>1 DEF ToSet
    <2>. QED BY <1>2, <2>1, <2>2
  <1>4. IsInjective(s) => Head(s) \notin ToSet(r) /\ IsInjective(r)
    <2> SUFFICES ASSUME IsInjective(s)
                 PROVE  Head(s) \notin ToSet(r) /\ IsInjective(r)
      OBVIOUS
    <2>1. \A i, j \in 1 .. Len(s) : s[i] = s[j] => i = j
      BY <1>1 DEF IsInjective
    <2>2. Head(s) \notin ToSet(r)
      BY <1>1, <2>1 DEF ToSet
    <2>3. \A i, j \in 1 .. Len(s) - 1 : r[i] = r[j] => i = j
      BY <1>1, <2>1
    <2>. QED BY <1>1, <2>2, <2>3 DEF IsInjective
  <1>. QED BY <1>1, <1>2, <1>3, <1>4

\* Cutting position k out of a list moves what is behind it one place forward.
LEMMA RemoveAtElements ==
    ASSUME NEW S, NEW s \in Seq(S), NEW k \in 1 .. Len(s)
    PROVE  /\ RemoveAt(s, k) \in Seq(S)
           /\ Len(RemoveAt(s, k)) = Len(s) - 1
           /\ \A i \in 1 .. Len(s) - 1 :
                 RemoveAt(s, k)[i] = IF i < k THEN s[i] ELSE s[i + 1]
  <1> DEFINE n == Len(s)
             r == RemoveAt(s, k)
             a == SubSeq(s, 1, k - 1)
             b == SubSeq(s, k + 1, n)
  <1>1. n \in Nat /\ k \in Nat /\ DOMAIN s = 1 .. n /\ \A i \in 1 .. n : s[i] \in S
    BY ElementOfSeq, LenProperties
  <1>2. /\ a \in Seq(S) /\ Len(a) = k - 1
        /\ \A i \in 1 .. k - 1 : a[i] = s[i]
    <2>1. \A i \in 1 .. k - 1 : s[i] \in S
      BY <1>1
    <2>. QED BY <1>1, <2>1, SubSeqProperties
  <1>3. /\ b \in Seq(S) /\ Len(b) = n - k
        /\ \A i \in 1 .. n - k : b[i] = s[i + k]
    <2>1. \A i \in k + 1 .. n : s[i] \in S
      BY <1>1
    <2>2. /\ b \in Seq(S) /\ Len(b) = IF k + 1 <= n THEN n - (k + 1) + 1 ELSE 0
          /\ \A i \in 1 .. n - (k + 1) + 1 : b[i] = s[(k + 1) + i - 1]
      <3>1. k + 1 \in Int /\ n \in Int
        BY <1>1
      <3>. QED BY <2>1, <3>1, SubSeqProperties
    <2> HIDE DEF a, b, r
    <2>3. n - (k + 1) + 1 = n - k /\ Len(b) = n - k
      <3>1. n \in Nat /\ k \in Nat /\ k <= n /\ n - (k + 1) + 1 = n - k
        BY <1>1
      <3> HIDE DEF n
      <3>2. CASE k = n
        <4>1. ~(k + 1 <= n) /\ n - k = 0
          BY <3>1, <3>2
        <4>. QED BY <2>2, <3>1, <4>1
      <3>3. CASE k # n
        <4>1. k + 1 <= n
          BY <3>1, <3>3
        <4>. QED BY <2>2, <3>1, <4>1
      <3>. QED BY <3>2, <3>3
    <2>4. ASSUME NEW i \in 1 .. n - k PROVE b[i] = s[i + k]
      <3>1. (k + 1) + i - 1 = i + k
        BY <1>1
      <3>2. b[i] = s[(k + 1) + i - 1]
        BY <2>2, <2>3
      <3>. QED BY <3>1, <3>2
    <2>. QED BY <2>2, <2>3, <2>4
  <1>4. r = a \o b
    BY DEF RemoveAt
  <1> HIDE DEF a, b, r
  <1>5. /\ r \in Seq(S) /\ Len(r) = n - 1 /\ DOMAIN r = 1 .. n - 1
        /\ \A i \in 1 .. n - 1 : r[i] = IF i < k THEN s[i] ELSE s[i + 1]
    <2>1. /\ r \in Seq(S) /\ Len(r) = Len(a) + Len(b)
          /\ \A i \in 1 .. Len(a) + Len(b) :
                r[i] = IF i <= Len(a) THEN a[i] ELSE b[i - Len(a)]
      BY <1>2, <1>3, <1>4, ConcatProperties
    <2>2. Len(r) = n - 1 /\ DOMAIN r = 1 .. n - 1
      BY <1>1, <1>2, <1>3, <2>1, LenProperties
    <2>3. ASSUME NEW i \in 1 .. n - 1
          PROVE  r[i] = IF i < k THEN s[i] ELSE s[i + 1]
      <3>1. CASE i < k
        <4>1. i \in 1 .. k - 1 /\ i <= Len(a) /\ i \in 1 .. Len(a) + Len(b)
          BY <1>1, <1>2, <1>3, <3>1
        <4>2. r[i] = a[i] /\ a[i] = s[i]
          BY <1>2, <2>1, <4>1
        <4>. QED BY <3>1, <4>2
      <3>2. CASE ~(i < k)
        <4>1. i - (k - 1) \in 1 .. n - k /\ r[i] = b[i - (k - 1)]
          BY <1>1, <1>2, <1>3, <2>1, <3>2
        <4>2. i - (k - 1) + k = i + 1
          BY <1>1
        <4>. QED BY <1>3, <3>2, <4>1, <4>2
      <3>. QED BY <3>1, <3>2
    <2>. QED BY <2>1, <2>2, <2>3
  <1>. QED BY <1>5 DEF r

\* Without duplicates, it removes that element and nothing else (gt_list_remove of
\* an inner node).
LEMMA RemoveAtFacts ==
    ASSUME NEW S, NEW s \in Seq(S), IsInjective(s), NEW k \in 1 .. Len(s)
    PROVE  /\ RemoveAt(s, k) \in Seq(S)
           /\ ToSet(RemoveAt(s, k)) = ToSet(s) \ {s[k]}
           /\ Len(RemoveAt(s, k)) = Len(s) - 1
           /\ IsInjective(RemoveAt(s, k))
  <1> DEFINE n == Len(s)
             r == RemoveAt(s, k)
  <1>1. n \in Nat /\ k \in Nat /\ DOMAIN s = 1 .. n
    BY ElementOfSeq, LenProperties
  <1>2. /\ r \in Seq(S) /\ Len(r) = n - 1 /\ DOMAIN r = 1 .. n - 1
        /\ \A i \in 1 .. n - 1 : r[i] = IF i < k THEN s[i] ELSE s[i + 1]
    BY <1>1, RemoveAtElements, LenProperties
  <1> HIDE DEF r
  <1>3. \A i, j \in 1 .. n : s[i] = s[j] => i = j
    BY <1>1 DEF IsInjective
  <1>4. ToSet(r) = ToSet(s) \ {s[k]}
    <2>1. ASSUME NEW i \in 1 .. n - 1 PROVE r[i] \in ToSet(s) \ {s[k]}
      <3>1. PICK j \in 1 .. n : j # k /\ r[i] = s[j]
        <4>1. CASE i < k
          <5>1. i \in 1 .. n /\ i # k /\ r[i] = s[i]
            BY <1>1, <1>2, <4>1
          <5>. QED BY <5>1
        <4>2. CASE ~(i < k)
          <5>1. i + 1 \in 1 .. n /\ i + 1 # k /\ r[i] = s[i + 1]
            BY <1>1, <1>2, <4>2
          <5>. QED BY <5>1
        <4>. QED BY <4>1, <4>2
      <3>2. s[j] # s[k]
        BY <1>1, <1>3, <3>1
      <3>3. s[j] \in ToSet(s)
        BY <1>1, <3>1 DEF ToSet
      <3>. QED BY <3>1, <3>2, <3>3
    <2>2. ASSUME NEW i \in 1 .. n, i # k PROVE s[i] \in ToSet(r)
      <3>1. CASE i < k
        <4>1. i \in 1 .. n - 1 /\ r[i] = s[i]
          BY <1>1, <1>2, <3>1
        <4>. QED BY <4>1, <1>2 DEF ToSet
      <3>2. CASE i > k
        <4>1. i - 1 \in 1 .. n - 1 /\ r[i - 1] = s[i]
          BY <1>1, <1>2, <3>2
        <4>. QED BY <4>1, <1>2 DEF ToSet
      <3>. QED BY <1>1, <2>2, <3>1, <3>2
    <2>. QED BY <1>1, <1>2, <2>1, <2>2 DEF ToSet
  <1>5. \A i, j \in 1 .. n - 1 : r[i] = r[j] => i = j
    BY <1>1, <1>2, <1>3
  <1>. QED BY <1>2, <1>4, <1>5 DEF IsInjective, r

\* Inserting at position k moves what is there and behind it one place back.
LEMMA InsertAtElements ==
    ASSUME NEW S, NEW s \in Seq(S), NEW k \in 1 .. Len(s) + 1, NEW x \in S
    PROVE  /\ InsertAt(s, k, x) \in Seq(S)
           /\ Len(InsertAt(s, k, x)) = Len(s) + 1
           /\ \A i \in 1 .. Len(s) + 1 :
                 InsertAt(s, k, x)[i] = IF i < k THEN s[i]
                                        ELSE IF i = k THEN x ELSE s[i - 1]
  <1> DEFINE n == Len(s)
             a == SubSeq(s, 1, k - 1)
             b == SubSeq(s, k, n)
             c == a \o <<x>>
             r == c \o b
  <1>1. n \in Nat /\ k \in Nat /\ \A i \in 1 .. n : s[i] \in S
    BY ElementOfSeq, LenProperties
  <1>2. /\ a \in Seq(S) /\ Len(a) = k - 1
        /\ \A i \in 1 .. k - 1 : a[i] = s[i]
    <2>1. \A i \in 1 .. k - 1 : s[i] \in S
      BY <1>1
    <2>. QED BY <1>1, <2>1, SubSeqProperties
  <1>3. /\ b \in Seq(S) /\ Len(b) = n - k + 1
        /\ \A i \in 1 .. n - k + 1 : b[i] = s[k + i - 1]
    <2>1. /\ b \in Seq(S) /\ Len(b) = IF k <= n THEN n - k + 1 ELSE 0
          /\ \A i \in 1 .. n - k + 1 : b[i] = s[k + i - 1]
      <3>1. \A i \in k .. n : s[i] \in S
        BY <1>1
      <3>2. k \in Int /\ n \in Int
        BY <1>1
      <3>. QED BY <3>1, <3>2, SubSeqProperties
    <2> HIDE DEF b
    <2>2. Len(b) = n - k + 1
      <3>1. k <= n \/ n - k + 1 = 0
        BY <1>1
      <3>. QED BY <2>1, <3>1
    <2>. QED BY <2>1, <2>2
  <1> HIDE DEF a, b
  <1>4. <<x>> \in Seq(S) /\ Len(<<x>>) = 1 /\ <<x>>[1] = x
    OBVIOUS
  <1>5. /\ c \in Seq(S) /\ Len(c) = k
        /\ \A i \in 1 .. k : c[i] = IF i < k THEN s[i] ELSE x
    <2>1. /\ c \in Seq(S) /\ Len(c) = Len(a) + Len(<<x>>)
          /\ \A i \in 1 .. Len(a) + Len(<<x>>) :
                c[i] = IF i <= Len(a) THEN a[i] ELSE <<x>>[i - Len(a)]
      BY <1>2, <1>4, ConcatProperties
    <2>2. Len(a) + Len(<<x>>) = k
      BY <1>1, <1>2, <1>4
    <2> HIDE DEF c
    <2>3. ASSUME NEW i \in 1 .. k PROVE c[i] = IF i < k THEN s[i] ELSE x
      <3>1. CASE i < k
        <4>1. i \in 1 .. k - 1 /\ i <= Len(a)
          BY <1>1, <1>2, <3>1
        <4>. QED BY <1>2, <2>1, <2>2, <3>1, <4>1
      <3>2. CASE i = k
        <4>1. ~(i <= Len(a)) /\ i - Len(a) = 1
          BY <1>1, <1>2, <3>2
        <4>. QED BY <1>1, <1>4, <2>1, <2>2, <3>2, <4>1
      <3>. QED BY <1>1, <3>1, <3>2
    <2>. QED BY <2>1, <2>2, <2>3
  <1> HIDE DEF c
  <1>6. /\ r \in Seq(S) /\ Len(r) = n + 1
        /\ \A i \in 1 .. n + 1 : r[i] = IF i < k THEN s[i] ELSE IF i = k THEN x ELSE s[i - 1]
    <2>1. /\ r \in Seq(S) /\ Len(r) = Len(c) + Len(b)
          /\ \A i \in 1 .. Len(c) + Len(b) :
                r[i] = IF i <= Len(c) THEN c[i] ELSE b[i - Len(c)]
      BY <1>3, <1>5, ConcatProperties
    <2>2. Len(c) + Len(b) = n + 1
      BY <1>1, <1>3, <1>5
    <2> HIDE DEF r
    <2>3. ASSUME NEW i \in 1 .. n + 1
          PROVE  r[i] = IF i < k THEN s[i] ELSE IF i = k THEN x ELSE s[i - 1]
      <3>1. CASE i <= k
        <4>1. i \in 1 .. k /\ i <= Len(c)
          BY <1>1, <1>5, <3>1
        <4>. QED BY <1>1, <1>5, <2>1, <2>2, <3>1, <4>1
      <3>2. CASE ~(i <= k)
        <4>1. /\ i - k \in 1 .. n - k + 1 /\ k + (i - k) - 1 = i - 1
              /\ ~(i <= Len(c)) /\ ~(i < k) /\ i # k
          BY <1>1, <1>5, <3>2
        <4>2. r[i] = b[i - k]
          BY <1>5, <2>1, <2>2, <4>1
        <4>3. b[i - k] = s[i - 1]
          BY <1>3, <4>1
        <4>. QED BY <4>1, <4>2, <4>3
      <3>. QED BY <3>1, <3>2
    <2>. QED BY <2>1, <2>2, <2>3
  <1>. QED BY <1>6 DEF InsertAt, a, b, c

-----------------------------------------------------------------------------
\* A set of numbers that is not empty has a least element: the least number at
\* which a claim fails is what an induction refutes.
LEMMA LeastExists ==
    ASSUME NEW S, S \subseteq Nat, S # {}
    PROVE  \E x \in S : \A y \in S : x <= y
  <1> DEFINE R == OpToRel(<, Nat)
  <1>1. IsWellFoundedOn(R, Nat)
    BY NatLessThanWellFounded
  <1>2. \A a, b \in Nat : a < b => <<a, b>> \in R
    BY DEF OpToRel
  <1> HIDE DEF R
  <1>3. PICK x \in S : \A y \in S : ~(<<y, x>> \in R)
    BY <1>1, WFMin
  <1>4. ASSUME NEW y \in S PROVE x <= y
    <2>1. x \in Nat /\ y \in Nat /\ ~(y < x)
      BY <1>2, <1>3
    <2>. QED BY <2>1
  <1>. QED BY <1>4
==============================================================================

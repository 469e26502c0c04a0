----------------------------- MODULE ListProofs -----------------------------
(***************************************************************************)
(* The lists of list.h, for any number of lists and nodes, when no caller  *)
(* inserts a node that is in a list.                                       *)
(*                                                                         *)
(* That neighbours point at each other is not inductive: nothing in it     *)
(* says that a head cannot be dequeued from another list, or that two      *)
(* nodes do not point at each other with no head between them.  So the     *)
(* invariant follows the pointers along the sequences of the callers: from *)
(* the head through every node back to the head, no node twice and none in *)
(* two lists, and no pointers in a node that is in none.  A safe iteration *)
(* is at a place of its list: what is ahead of it is what it must see.     *)
(***************************************************************************)
EXTENDS IntrusiveList, Integers, FiniteSetTheorems, SeqFacts

USE CellsDiffer, PushFlag

\* The i-th cell on the way round a list: its head before the first node and
\* after the last.
At(l, s, i) == IF i \in 1 .. Len(s) THEN s[i] ELSE l

Ring(k, l, s) ==
    \A i \in 0 .. Len(s) : /\ k.next[At(l, s, i)] = At(l, s, i + 1)
                           /\ k.prev[At(l, s, i + 1)] = At(l, s, i)

\* No node is listed twice.
Apart(lists) ==
    \A l, m \in Lists : \A i \in 1 .. Len(lists[l]), j \in 1 .. Len(lists[m]) :
        lists[l][i] = lists[m][j] => l = m /\ i = j

Listed(lists, n) == \E l \in Lists : \E i \in 1 .. Len(lists[l]) : lists[l][i] = n

Pointers == [next : [Cells -> Cells \cup {NULL}], prev : [Cells -> Cells \cup {NULL}]]
Orders == [Lists -> Seq(Nodes)]

Chained(k, lists) ==
    /\ k \in Pointers /\ lists \in Orders
    /\ \A l \in Lists : Ring(k, l, lists[l])
    /\ Apart(lists)
    /\ \A n \in Nodes : Listed(lists, n) \/ (k.next[n] = NULL /\ k.prev[n] = NULL)

\* A safe iteration has passed d nodes of those still in the list.
Ahead(d) ==
    LET s == order[walk]
    IN  /\ Len(toVisit) = Len(s) - d + 1
        /\ \A i \in 2 .. Len(toVisit) : toVisit[i] = s[d + i - 1]
        /\ pos = toVisit[1]
        /\ nxt = At(walk, s, d + 1)
        /\ \A i \in 1 .. Len(s) : s[i] = pos => i = d

WalkInv ==
    /\ toVisit \in Seq(Nodes) /\ walk \in Lists \cup {NULL}
    /\ walk # NULL => \/ pos = walk /\ toVisit = <<>>
                      \/ pos \in Nodes /\ \E d \in 0 .. Len(order[walk]) : Ahead(d)

-----------------------------------------------------------------------------
(* Cells and places *)

LEMMA CellsOfRing ==
    ASSUME NEW k, NEW lists, Chained(k, lists), NEW l \in Lists, NEW m \in Lists
    PROVE  LET s == lists[l]
               t == lists[m]
           IN  /\ s \in Seq(Nodes) /\ Len(s) \in Nat
               /\ \A i \in 1 .. Len(s) : At(l, s, i) = s[i] /\ s[i] \in Nodes
               /\ At(l, s, 0) = l /\ At(l, s, Len(s) + 1) = l
               /\ \A i \in Int : At(l, s, i) \in Cells \ {NULL}
               /\ \A i \in 0 .. Len(s), j \in 0 .. Len(t) :
                     /\ At(l, s, i) = At(m, t, j) => l = m /\ i = j
                     /\ At(l, s, i + 1) = At(m, t, j + 1) => l = m /\ i = j
  <1> DEFINE s == lists[l]
             t == lists[m]
  <1>1. /\ s \in Seq(Nodes) /\ Len(s) \in Nat /\ \A i \in 1 .. Len(s) : s[i] \in Nodes
        /\ t \in Seq(Nodes) /\ Len(t) \in Nat /\ \A i \in 1 .. Len(t) : t[i] \in Nodes
    BY ElementOfSeq, LenProperties DEF Chained, Orders
  <1>2. \A i \in 1 .. Len(s), j \in 1 .. Len(t) : s[i] = t[j] => l = m /\ i = j
    BY DEF Chained, Apart
  <1> HIDE DEF s, t
  <1>3. \A i \in 1 .. Len(s) : At(l, s, i) = s[i] /\ s[i] \in Nodes
    BY <1>1 DEF At
  <1>4. At(l, s, 0) = l /\ At(l, s, Len(s) + 1) = l
    BY <1>1 DEF At
  <1>5. \A i \in Int : At(l, s, i) \in Cells \ {NULL}
    BY <1>1 DEF At, Cells
  <1>6. ASSUME NEW i \in 0 .. Len(s), NEW j \in 0 .. Len(t), At(l, s, i) = At(m, t, j)
        PROVE  l = m /\ i = j
    BY <1>1, <1>2, <1>6 DEF At
  <1>7. ASSUME NEW i \in 0 .. Len(s), NEW j \in 0 .. Len(t),
               At(l, s, i + 1) = At(m, t, j + 1)
        PROVE  l = m /\ i = j
    <2>1. i + 1 \in 1 .. Len(s) \/ i = Len(s)
      BY <1>1
    <2>2. j + 1 \in 1 .. Len(t) \/ j = Len(t)
      BY <1>1
    <2>3. CASE i = Len(s) /\ j = Len(t)
      <3>1. l = m
        BY <1>1, <1>7, <2>3 DEF At
      <3>. QED BY <2>3, <3>1 DEF s, t
    <2>4. CASE i + 1 \in 1 .. Len(s) /\ j + 1 \in 1 .. Len(t)
      <3>1. s[i + 1] = t[j + 1]
        BY <1>7, <2>4 DEF At
      <3>2. l = m /\ i + 1 = j + 1
        BY <1>2, <2>4, <3>1
      <3>. QED BY <1>1, <3>2
    <2>5. CASE i + 1 \in 1 .. Len(s) /\ j = Len(t)
      BY <1>1, <1>7, <2>5 DEF At
    <2>6. CASE i = Len(s) /\ j + 1 \in 1 .. Len(t)
      BY <1>1, <1>7, <2>6 DEF At
    <2>. QED BY <2>1, <2>2, <2>3, <2>4, <2>5, <2>6
  <1>. QED BY <1>1, <1>3, <1>4, <1>5, <1>6, <1>7 DEF s, t

\* gt_list_node_is_linked tells whether a node is in a list.
LEMMA LinkedIsListed ==
    ASSUME NEW k, NEW lists, Chained(k, lists), NEW n \in Nodes
    PROVE  /\ Listed(lists, n) => k.next[n] # NULL /\ k.prev[n] # NULL
           /\ ~Listed(lists, n) => k.next[n] = NULL /\ k.prev[n] = NULL
  <1>1. ASSUME NEW l \in Lists, NEW i \in 1 .. Len(lists[l]), lists[l][i] = n
        PROVE  k.next[n] # NULL /\ k.prev[n] # NULL
    <2>1. /\ Len(lists[l]) \in Nat /\ At(l, lists[l], i) = n
          /\ At(l, lists[l], i + 1) # NULL /\ At(l, lists[l], i - 1) # NULL
      BY <1>1, CellsOfRing
    <2>2. i \in 0 .. Len(lists[l]) /\ i - 1 \in 0 .. Len(lists[l]) /\ (i - 1) + 1 = i
      BY <2>1
    <2>3. Ring(k, l, lists[l])
      BY DEF Chained
    <2>4. k.next[n] = At(l, lists[l], i + 1) /\ k.prev[n] = At(l, lists[l], i - 1)
      <3>1. k.next[At(l, lists[l], i)] = At(l, lists[l], i + 1)
        BY <2>2, <2>3 DEF Ring
      <3>2. k.prev[At(l, lists[l], (i - 1) + 1)] = At(l, lists[l], i - 1)
        BY <2>2, <2>3 DEF Ring
      <3>. QED BY <2>1, <2>2, <3>1, <3>2
    <2>. QED BY <2>1, <2>4
  <1>. QED BY <1>1 DEF Listed, Chained

-----------------------------------------------------------------------------
(* A node joins a list *)

\* t is s with node at place j.
Inserts(t, s, j, node) ==
    /\ t \in Seq(Nodes) /\ Len(t) = Len(s) + 1
    /\ \A i \in 1 .. Len(s) + 1 :
          t[i] = IF i < j THEN s[i] ELSE IF i = j THEN node ELSE s[i - 1]

UntouchedBut(m, k, node, p, q) ==
    \A c \in Cells \ {node, p, q} : m.next[c] = k.next[c] /\ m.prev[c] = k.prev[c]

\* p and q are the cells around place j.
Around(p, q, l, s, j) ==
    j \in 1 .. Len(s) + 1 /\ p = At(l, s, j - 1) /\ q = At(l, s, j)

\* Linked between the cells around a place, a node is on the way round there.
LEMMA LinkRing ==
    ASSUME NEW k, NEW lists, Chained(k, lists), NEW l \in Lists,
           NEW j, NEW p, NEW q, Around(p, q, l, lists[l], j),
           NEW node \in Nodes, ~Listed(lists, node),
           NEW t, Inserts(t, lists[l], j, node), NEW m, m = Linked(k, node, p, q)
    PROVE  /\ m \in Pointers /\ Ring(m, l, t)
           /\ \A o \in Lists \ {l} : Ring(m, o, lists[o])
           /\ UntouchedBut(m, k, node, p, q)
  <1> DEFINE s == lists[l]
  <1>0. j \in 1 .. Len(s) + 1 /\ p = At(l, s, j - 1) /\ q = At(l, s, j)
    BY DEF Around
  <1>1. /\ Len(s) \in Nat /\ j \in Int /\ p \in Cells \ {NULL} /\ q \in Cells \ {NULL}
        /\ node \in Cells /\ k \in Pointers
    BY <1>0, CellsOfRing DEF Cells, Chained
  <1>2. ASSUME NEW o \in Lists, NEW i \in Int PROVE At(o, lists[o], i) # node
    BY <1>2 DEF At, Listed
  <1>3. /\ m \in Pointers
        /\ \A c \in Cells :
              /\ m.next[c] = IF c = p THEN node ELSE IF c = node THEN q ELSE k.next[c]
              /\ m.prev[c] = IF c = q THEN node ELSE IF c = node THEN p ELSE k.prev[c]
    <2>1. p # node /\ q # node
      BY <1>0, <1>1, <1>2
    <2>. QED BY <1>0, <1>1, <2>1 DEF Linked, Pointers
  <1>4. ASSUME NEW o \in Lists, NEW i \in 0 .. Len(lists[o]), o # l \/ i # j - 1
        PROVE  /\ m.next[At(o, lists[o], i)] = At(o, lists[o], i + 1)
               /\ m.prev[At(o, lists[o], i + 1)] = At(o, lists[o], i)
    <2>1. /\ i \in Int /\ i + 1 \in Int
          /\ At(o, lists[o], i) \in Cells /\ At(o, lists[o], i + 1) \in Cells
      BY CellsOfRing
    <2>2. j - 1 \in 0 .. Len(s) /\ (j - 1) + 1 = j
      BY <1>0, <1>1
    <2>3. At(o, lists[o], i) # p /\ At(o, lists[o], i + 1) # q
      BY <1>0, <1>4, <2>2, CellsOfRing
    <2>4. At(o, lists[o], i) # node /\ At(o, lists[o], i + 1) # node
      BY <1>2, <2>1
    <2>5. /\ k.next[At(o, lists[o], i)] = At(o, lists[o], i + 1)
          /\ k.prev[At(o, lists[o], i + 1)] = At(o, lists[o], i)
      BY DEF Chained, Ring
    <2>. QED BY <1>0, <1>3, <2>1, <2>3, <2>4, <2>5
  <1>5. \A o \in Lists \ {l} : Ring(m, o, lists[o])
    BY <1>4 DEF Ring
  <1>6. \A i \in 0 .. Len(s) + 2 :
           At(l, t, i) = IF i < j THEN At(l, s, i) ELSE IF i = j THEN node
                         ELSE At(l, s, i - 1)
    BY <1>0, <1>1 DEF At, Inserts
  <1>7. Ring(m, l, t)
    <2> SUFFICES ASSUME NEW i \in 0 .. Len(s) + 1
                 PROVE  m.next[At(l, t, i)] = At(l, t, i + 1)
                        /\ m.prev[At(l, t, i + 1)] = At(l, t, i)
      BY DEF Ring, Inserts
    <2>1. i \in 0 .. Len(s) + 2 /\ i + 1 \in 0 .. Len(s) + 2
      BY <1>0, <1>1
    <2>2. CASE i < j - 1
      <3>1. At(l, t, i) = At(l, s, i) /\ At(l, t, i + 1) = At(l, s, i + 1)
        BY <1>0, <1>1, <1>6, <2>1, <2>2
      <3>2. i \in 0 .. Len(s) /\ i # j - 1
        BY <1>0, <1>1, <2>2
      <3>. QED BY <1>0, <1>4, <3>1, <3>2
    <2>3. CASE i = j - 1
      <3>1. At(l, t, i) = p /\ At(l, t, i + 1) = node
        BY <1>0, <1>1, <1>6, <2>1, <2>3
      <3>. QED BY <1>0, <1>1, <1>2, <1>3, <3>1
    <2>4. CASE i = j
      <3>1. At(l, t, i) = node /\ At(l, t, i + 1) = q
        BY <1>0, <1>1, <1>6, <2>1, <2>4
      <3>. QED BY <1>0, <1>1, <1>2, <1>3, <3>1
    <2>5. CASE i > j
      <3>1. At(l, t, i) = At(l, s, i - 1) /\ At(l, t, i + 1) = At(l, s, (i - 1) + 1)
        BY <1>0, <1>1, <1>6, <2>1, <2>5
      <3>2. i - 1 \in 0 .. Len(s) /\ i - 1 # j - 1
        BY <1>0, <1>1, <2>5
      <3>. QED BY <1>0, <1>4, <3>1, <3>2
    <2>. QED BY <1>0, <1>1, <2>2, <2>3, <2>4, <2>5
  <1>8. UntouchedBut(m, k, node, p, q)
    BY <1>3 DEF UntouchedBut
  <1>. QED BY <1>3, <1>5, <1>7, <1>8

LEMMA LinkKeeps ==
    ASSUME NEW k, NEW lists, Chained(k, lists), NEW l \in Lists,
           NEW j, NEW p, NEW q, Around(p, q, l, lists[l], j),
           NEW node \in Nodes, ~Listed(lists, node),
           NEW t, Inserts(t, lists[l], j, node)
    PROVE  Chained(Linked(k, node, p, q), [lists EXCEPT ![l] = t])
  <1> DEFINE s == lists[l]
             m == Linked(k, node, p, q)
             new == [lists EXCEPT ![l] = t]
  <1>0. m = Linked(k, node, p, q)
    OBVIOUS
  <1> HIDE DEF m
  <1>1. /\ m \in Pointers /\ Ring(m, l, t)
        /\ \A o \in Lists \ {l} : Ring(m, o, lists[o])
        /\ UntouchedBut(m, k, node, p, q)
    BY <1>0, LinkRing
  <1>2. /\ new \in Orders /\ new[l] = t
        /\ \A o \in Lists \ {l} : new[o] = lists[o]
    BY DEF Chained, Orders, Inserts
  <1> HIDE DEF new
  <1>3. Len(s) \in Nat /\ j \in Int /\ j \in 1 .. Len(s) + 1
    BY CellsOfRing DEF Around
  <1>4. \A o \in Lists : \A i \in 1 .. Len(lists[o]) : lists[o][i] # node
    BY DEF Listed
  <1>5. Apart(new)
    <2>1. ASSUME NEW i \in 1 .. Len(s) + 1, NEW o \in Lists \ {l},
                 NEW i2 \in 1 .. Len(lists[o])
          PROVE  t[i] # lists[o][i2]
      <3>1. \A x \in 1 .. Len(s) : s[x] # lists[o][i2]
        BY DEF Chained, Apart
      <3>2. t[i] = node \/ \E x \in 1 .. Len(s) : t[i] = s[x]
        <4>1. i < j => i \in 1 .. Len(s)
          BY <1>3
        <4>2. i > j => i - 1 \in 1 .. Len(s)
          BY <1>3
        <4>3. i < j \/ i = j \/ i > j
          BY <1>3
        <4>. QED BY <1>3, <4>1, <4>2, <4>3 DEF Inserts
      <3>. QED BY <1>4, <3>1, <3>2
    <2>2. ASSUME NEW i \in 1 .. Len(s) + 1, NEW i2 \in 1 .. Len(s) + 1, t[i] = t[i2]
          PROVE  i = i2
      <3>1. \A x, y \in 1 .. Len(s) : s[x] = s[y] => x = y
        BY DEF Chained, Apart
      <3>2. \A x \in 1 .. Len(s) : s[x] # node
        BY <1>4
      <3>3. \A x \in 1 .. Len(s) + 1 :
               t[x] = IF x < j THEN s[x] ELSE IF x = j THEN node ELSE s[x - 1]
        BY DEF Inserts
      <3>4. CASE i = j \/ i2 = j
        BY <1>3, <2>2, <3>2, <3>3, <3>4
      <3>5. CASE i # j /\ i2 # j
        BY <1>3, <2>2, <3>1, <3>3, <3>5
      <3>. QED BY <3>4, <3>5
    <2>3. Len(t) = Len(s) + 1
      BY DEF Inserts
    <2>4. \A o, o2 \in Lists \ {l} : \A i \in 1 .. Len(lists[o]), i2 \in 1 .. Len(lists[o2]) :
              lists[o][i] = lists[o2][i2] => o = o2 /\ i = i2
      BY DEF Chained, Apart
    <2> SUFFICES ASSUME NEW o \in Lists, NEW o2 \in Lists, NEW i \in 1 .. Len(new[o]),
                        NEW i2 \in 1 .. Len(new[o2]), new[o][i] = new[o2][i2]
                 PROVE  o = o2 /\ i = i2
      BY DEF Apart
    <2>5. CASE o = l /\ o2 = l
      BY <1>2, <2>2, <2>3, <2>5
    <2>6. CASE o = l /\ o2 # l
      BY <1>2, <2>1, <2>3, <2>6
    <2>7. CASE o # l /\ o2 = l
      BY <1>2, <2>1, <2>3, <2>7
    <2>8. CASE o # l /\ o2 # l
      BY <1>2, <2>4, <2>8
    <2>. QED BY <2>5, <2>6, <2>7, <2>8
  <1>6. \A n \in Nodes : Listed(lists, n) \/ n = node => Listed(new, n)
    <2>1. ASSUME NEW o \in Lists, NEW i \in 1 .. Len(lists[o])
          PROVE  Listed(new, lists[o][i])
      <3>1. CASE o # l
        BY <1>2, <3>1 DEF Listed
      <3>2. CASE o = l
        <4>1. i < j => t[i] = s[i] /\ i \in 1 .. Len(t)
          BY <1>3, <3>2 DEF Inserts
        <4>2. ~(i < j) => t[i + 1] = s[i] /\ i + 1 \in 1 .. Len(t)
          BY <1>3, <3>2 DEF Inserts
        <4>. QED BY <1>2, <3>2, <4>1, <4>2 DEF Listed
      <3>. QED BY <3>1, <3>2
    <2>2. t[j] = node /\ j \in 1 .. Len(t)
      BY <1>3 DEF Inserts
    <2>3. Listed(new, node)
      BY <1>2, <2>2 DEF Listed
    <2>4. ASSUME NEW n \in Nodes, Listed(lists, n) PROVE Listed(new, n)
      <3>1. PICK o \in Lists : \E i \in 1 .. Len(lists[o]) : lists[o][i] = n
        BY <2>4 DEF Listed
      <3>. QED BY <2>1, <3>1
    <2>. QED BY <2>3, <2>4
  <1>7. \A n \in Nodes : Listed(new, n) \/ (m.next[n] = NULL /\ m.prev[n] = NULL)
    <2> SUFFICES ASSUME NEW n \in Nodes, ~Listed(new, n)
                 PROVE  m.next[n] = NULL /\ m.prev[n] = NULL
      OBVIOUS
    <2>1. ~Listed(lists, n) /\ n # node
      BY <1>6
    <2>2. n \in Cells /\ n # p /\ n # q
      BY <1>3, <2>1 DEF Around, At, Listed, Cells
    <2>. QED BY <1>1, <2>1, <2>2 DEF Chained, UntouchedBut
  <1>8. \A o \in Lists : Ring(m, o, new[o])
    BY <1>1, <1>2
  <1>. QED BY <1>1, <1>2, <1>5, <1>7, <1>8 DEF Chained, m, new

-----------------------------------------------------------------------------
(* A node leaves its list *)

\* t is s without what is at place j.
Removes(t, s, j) ==
    /\ t \in Seq(Nodes) /\ Len(t) = Len(s) - 1
    /\ \A i \in 1 .. Len(s) - 1 : t[i] = IF i < j THEN s[i] ELSE s[i + 1]

\* Unlinked, a node is passed by on the way round.
LEMMA UnlinkRing ==
    ASSUME NEW k, NEW lists, Chained(k, lists), NEW l \in Lists,
           NEW j \in 1 .. Len(lists[l]), NEW t, Removes(t, lists[l], j), NEW m,
           m = Unlinked(k, lists[l][j])
    PROVE  /\ m \in Pointers /\ Ring(m, l, t)
           /\ \A o \in Lists \ {l} : Ring(m, o, lists[o])
           /\ m.next[lists[l][j]] = NULL /\ m.prev[lists[l][j]] = NULL
           /\ \A n \in Nodes : ~Listed(lists, n) =>
                 m.next[n] = k.next[n] /\ m.prev[n] = k.prev[n]
  <1> DEFINE s == lists[l]
             node == s[j]
             p == At(l, s, j - 1)
             q == At(l, s, j + 1)
  <1>1. /\ Len(s) \in Nat /\ j \in Int /\ p \in Cells \ {NULL} /\ q \in Cells \ {NULL}
        /\ node \in Nodes /\ node \in Cells /\ k \in Pointers /\ At(l, s, j) = node
    BY CellsOfRing DEF Cells, Chained
  <1>2. /\ j - 1 \in 0 .. Len(s) /\ (j - 1) + 1 = j /\ j \in 0 .. Len(s)
    BY <1>1
  <1>3. /\ k.next[node] = q /\ k.prev[node] = p
    <2>1. k.next[At(l, s, j)] = At(l, s, j + 1)
      BY <1>2 DEF Chained, Ring
    <2>2. k.prev[At(l, s, (j - 1) + 1)] = At(l, s, j - 1)
      BY <1>2 DEF Chained, Ring
    <2>. QED BY <1>1, <1>2, <2>1, <2>2
  <1>4. p # node /\ q # node
    <2>1. p # At(l, s, j)
      BY <1>2, CellsOfRing
    <2>2. At(l, s, j + 1) # At(l, s, (j - 1) + 1)
      <3>1. j # j - 1
        BY <1>1
      <3>. QED BY <1>2, <3>1, CellsOfRing
    <2>. QED BY <1>1, <1>2, <2>1, <2>2
  <1>5. /\ m \in Pointers
        /\ \A c \in Cells :
              /\ m.next[c] = IF c = node THEN NULL ELSE IF c = p THEN q ELSE k.next[c]
              /\ m.prev[c] = IF c = node THEN NULL ELSE IF c = q THEN p ELSE k.prev[c]
    <2>1. m = Unlinked(k, node)
      OBVIOUS
    <2> HIDE DEF p, q, node
    <2>. QED BY <1>1, <1>3, <1>4, <2>1 DEF Unlinked, Pointers
  <1>6. ASSUME NEW o \in Lists, NEW i \in 0 .. Len(lists[o]),
               o # l \/ (i # j - 1 /\ i # j)
        PROVE  /\ m.next[At(o, lists[o], i)] = At(o, lists[o], i + 1)
               /\ m.prev[At(o, lists[o], i + 1)] = At(o, lists[o], i)
    <2>1. /\ i \in Int /\ i + 1 \in Int
          /\ At(o, lists[o], i) \in Cells /\ At(o, lists[o], i + 1) \in Cells
      BY CellsOfRing
    <2>2. At(o, lists[o], i) # p /\ At(o, lists[o], i + 1) # q
      BY <1>2, <1>6, CellsOfRing
    <2>3. At(o, lists[o], i) # node /\ At(o, lists[o], i + 1) # node
      <3>1. At(o, lists[o], i) # At(l, s, j)
        BY <1>2, <1>6, CellsOfRing
      <3>2. At(o, lists[o], i + 1) # At(l, s, (j - 1) + 1)
        BY <1>2, <1>6, CellsOfRing
      <3>. QED BY <1>1, <1>2, <3>1, <3>2
    <2>4. /\ k.next[At(o, lists[o], i)] = At(o, lists[o], i + 1)
          /\ k.prev[At(o, lists[o], i + 1)] = At(o, lists[o], i)
      BY DEF Chained, Ring
    <2>. QED BY <1>5, <2>1, <2>2, <2>3, <2>4
  <1>7. \A o \in Lists \ {l} : Ring(m, o, lists[o])
    BY <1>6 DEF Ring
  <1>8. \A i \in 0 .. Len(s) :
           At(l, t, i) = IF i < j THEN At(l, s, i) ELSE At(l, s, i + 1)
    BY <1>1 DEF At, Removes
  <1>9. Ring(m, l, t)
    <2> SUFFICES ASSUME NEW i \in 0 .. Len(s) - 1
                 PROVE  m.next[At(l, t, i)] = At(l, t, i + 1)
                        /\ m.prev[At(l, t, i + 1)] = At(l, t, i)
      BY DEF Ring, Removes
    <2>1. i \in 0 .. Len(s) /\ i + 1 \in 0 .. Len(s)
      BY <1>1
    <2>2. CASE i < j - 1
      <3>1. At(l, t, i) = At(l, s, i) /\ At(l, t, i + 1) = At(l, s, i + 1)
        BY <1>1, <1>8, <2>1, <2>2
      <3>2. i # j - 1 /\ i # j
        BY <1>1, <2>2
      <3>. QED BY <1>6, <2>1, <3>1, <3>2
    <2>3. CASE i = j - 1
      <3>1. At(l, t, i) = p /\ At(l, t, i + 1) = q
        BY <1>1, <1>8, <2>1, <2>3
      <3>. QED BY <1>1, <1>4, <1>5, <3>1
    <2>4. CASE i > j - 1
      <3>1. At(l, t, i) = At(l, s, i + 1) /\ At(l, t, i + 1) = At(l, s, (i + 1) + 1)
        BY <1>1, <1>8, <2>1, <2>4
      <3>2. i + 1 # j - 1 /\ i + 1 # j
        BY <1>1, <2>4
      <3>. QED BY <1>6, <2>1, <3>1, <3>2
    <2>. QED BY <1>1, <2>2, <2>3, <2>4
  <1>10. ASSUME NEW n \in Nodes, ~Listed(lists, n)
         PROVE  m.next[n] = k.next[n] /\ m.prev[n] = k.prev[n]
    <2>1. n \in Cells /\ n # p /\ n # q /\ n # node
      BY <1>10 DEF At, Listed, Cells
    <2>. QED BY <1>5, <2>1
  <1>. QED BY <1>1, <1>5, <1>7, <1>9, <1>10

LEMMA UnlinkKeeps ==
    ASSUME NEW k, NEW lists, Chained(k, lists), NEW l \in Lists,
           NEW j \in 1 .. Len(lists[l]), NEW t, Removes(t, lists[l], j)
    PROVE  /\ Chained(Unlinked(k, lists[l][j]), [lists EXCEPT ![l] = t])
           /\ ~Listed([lists EXCEPT ![l] = t], lists[l][j])
  <1> DEFINE s == lists[l]
             m == Unlinked(k, lists[l][j])
             new == [lists EXCEPT ![l] = t]
  <1>0. m = Unlinked(k, lists[l][j])
    OBVIOUS
  <1> HIDE DEF m
  <1>1. /\ m \in Pointers /\ Ring(m, l, t)
        /\ \A o \in Lists \ {l} : Ring(m, o, lists[o])
        /\ m.next[s[j]] = NULL /\ m.prev[s[j]] = NULL
        /\ \A n \in Nodes : ~Listed(lists, n) =>
              m.next[n] = k.next[n] /\ m.prev[n] = k.prev[n]
    BY <1>0, UnlinkRing
  <1>2. /\ new \in Orders /\ new[l] = t
        /\ \A o \in Lists \ {l} : new[o] = lists[o]
    BY DEF Chained, Orders, Removes
  <1> HIDE DEF new
  <1>3. Len(s) \in Nat /\ j \in Int
    BY CellsOfRing
  \* Every place after is a place before, different ones are different, and none
  \* is that of the node.
  <1> DEFINE was(o, i) == IF o = l /\ i >= j THEN i + 1 ELSE i
  <1>4. \A o \in Lists : \A i \in 1 .. Len(new[o]) :
           /\ was(o, i) \in 1 .. Len(lists[o])
           /\ new[o][i] = lists[o][was(o, i)]
           /\ o = l => was(o, i) # j
    <2>1. ASSUME NEW i \in 1 .. Len(t)
          PROVE  /\ was(l, i) \in 1 .. Len(s) /\ t[i] = s[was(l, i)] /\ was(l, i) # j
      BY <1>3 DEF Removes
    <2>. QED BY <1>2, <2>1
  <1>5. \A o \in Lists : \A i, i2 \in 1 .. Len(new[o]) : was(o, i) = was(o, i2) => i = i2
    BY <1>3
  <1> HIDE DEF was
  <1>6. \A o, o2 \in Lists : \A i \in 1 .. Len(lists[o]), i2 \in 1 .. Len(lists[o2]) :
           lists[o][i] = lists[o2][i2] => o = o2 /\ i = i2
    BY DEF Chained, Apart
  <1>7. Apart(new)
    <2> SUFFICES ASSUME NEW o \in Lists, NEW o2 \in Lists, NEW i \in 1 .. Len(new[o]),
                        NEW i2 \in 1 .. Len(new[o2]), new[o][i] = new[o2][i2]
                 PROVE  o = o2 /\ i = i2
      BY DEF Apart
    <2>1. PICK x \in 1 .. Len(lists[o]) : x = was(o, i) /\ new[o][i] = lists[o][x]
      BY <1>4
    <2>2. PICK y \in 1 .. Len(lists[o2]) : y = was(o2, i2) /\ new[o2][i2] = lists[o2][y]
      BY <1>4
    <2>3. lists[o][x] = lists[o2][y]
      BY <2>1, <2>2
    <2>4. o = o2 /\ x = y
      BY <1>6, <2>3
    <2>. QED BY <1>5, <2>1, <2>2, <2>4
  <1>8. ~Listed(new, s[j])
    BY <1>4, <1>6 DEF Listed
  <1>9. \A n \in Nodes : Listed(lists, n) => Listed(new, n) \/ n = s[j]
    <2>1. ASSUME NEW o \in Lists, NEW i \in 1 .. Len(lists[o]), o # l \/ i # j
          PROVE  Listed(new, lists[o][i])
      <3>1. CASE o # l
        BY <1>2, <3>1 DEF Listed
      <3>2. CASE o = l
        <4>1. i < j => t[i] = s[i] /\ i \in 1 .. Len(t)
          BY <1>3, <3>2 DEF Removes
        <4>2. i > j => t[i - 1] = s[i] /\ i - 1 \in 1 .. Len(t)
          BY <1>3, <3>2 DEF Removes
        <4>3. i < j \/ i > j
          BY <1>3, <2>1, <3>2
        <4>. QED BY <1>2, <3>2, <4>1, <4>2, <4>3 DEF Listed
      <3>. QED BY <3>1, <3>2
    <2>2. ASSUME NEW n \in Nodes, Listed(lists, n), n # s[j] PROVE Listed(new, n)
      <3>1. PICK o \in Lists : \E i \in 1 .. Len(lists[o]) : lists[o][i] = n
        BY <2>2 DEF Listed
      <3>. QED BY <2>1, <2>2, <3>1
    <2>. QED BY <2>2
  <1>10. \A n \in Nodes : Listed(new, n) \/ (m.next[n] = NULL /\ m.prev[n] = NULL)
    BY <1>1, <1>9 DEF Chained
  <1>11. \A o \in Lists : Ring(m, o, new[o])
    BY <1>1, <1>2
  <1>12. Chained(m, new)
    BY <1>1, <1>2, <1>7, <1>10, <1>11 DEF Chained
  <1>. QED BY <1>8, <1>12 DEF m, new

-----------------------------------------------------------------------------
(* Operations *)

LEMMA InsertBeforeKeeps ==
    ASSUME NEW k, NEW lists, Chained(k, lists), NEW l \in Lists, NEW j, NEW at,
           j \in 1 .. Len(lists[l]) + 1, at = At(l, lists[l], j),
           NEW node \in Nodes, ~Listed(lists, node),
           NEW t, Inserts(t, lists[l], j, node)
    PROVE  Chained(InsertedBefore(k, at, node), [lists EXCEPT ![l] = t])
  <1> DEFINE s == lists[l]
             p == k.prev[at]
  <1>1. Len(s) \in Nat /\ j - 1 \in 0 .. Len(s) /\ (j - 1) + 1 = j
    BY CellsOfRing
  <1>2. p = At(l, s, j - 1)
    <2>1. k.prev[At(l, s, (j - 1) + 1)] = At(l, s, j - 1)
      BY <1>1 DEF Chained, Ring
    <2>. QED BY <1>1, <2>1
  <1> HIDE DEF p
  <1>3. Around(p, at, l, lists[l], j)
    BY <1>2 DEF Around
  <1>4. Chained(Linked(k, node, p, at), [lists EXCEPT ![l] = t])
    BY <1>3, LinkKeeps
  <1>. QED BY <1>4 DEF InsertedBefore, p

LEMMA InsertAfterKeeps ==
    ASSUME NEW k, NEW lists, Chained(k, lists), NEW l \in Lists, NEW j, NEW at,
           j \in 1 .. Len(lists[l]) + 1, at = At(l, lists[l], j - 1),
           NEW node \in Nodes, ~Listed(lists, node),
           NEW t, Inserts(t, lists[l], j, node)
    PROVE  Chained(InsertedAfter(k, at, node), [lists EXCEPT ![l] = t])
  <1> DEFINE s == lists[l]
             q == k.next[at]
  <1>1. Len(s) \in Nat /\ j - 1 \in 0 .. Len(s) /\ (j - 1) + 1 = j
    BY CellsOfRing
  <1>2. q = At(l, s, j)
    <2>1. k.next[At(l, s, j - 1)] = At(l, s, (j - 1) + 1)
      BY <1>1 DEF Chained, Ring
    <2>. QED BY <1>1, <2>1
  <1> HIDE DEF q
  <1>3. Around(at, q, l, lists[l], j)
    BY <1>2 DEF Around
  <1>4. Chained(Linked(k, node, at, q), [lists EXCEPT ![l] = t])
    BY <1>3, LinkKeeps
  <1>. QED BY <1>4 DEF InsertedAfter, q

\* At either end, a node is inserted next to the head.
LEMMA PushKeeps ==
    ASSUME NEW k, NEW lists, Chained(k, lists), NEW l \in Lists,
           NEW node \in Nodes, ~Listed(lists, node)
    PROVE  /\ Chained(InsertedBefore(k, l, node), [lists EXCEPT ![l] = Append(@, node)])
           /\ Chained(InsertedAfter(k, l, node), [lists EXCEPT ![l] = <<node>> \o @])
  <1> DEFINE s == lists[l]
  <1>1. /\ s \in Seq(Nodes) /\ Len(s) \in Nat /\ At(l, s, 0) = l
        /\ At(l, s, Len(s) + 1) = l
    BY CellsOfRing
  <1>2. Inserts(Append(s, node), s, Len(s) + 1, node)
    <2>1. /\ Append(s, node) \in Seq(Nodes) /\ Len(Append(s, node)) = Len(s) + 1
          /\ \A i \in 1 .. Len(s) : Append(s, node)[i] = s[i]
          /\ Append(s, node)[Len(s) + 1] = node
      BY <1>1, AppendProperties
    <2> HIDE DEF s
    <2>. QED BY <1>1, <2>1 DEF Inserts
  <1>3. Inserts(<<node>> \o s, s, 1, node)
    <2>1. <<node>> \in Seq(Nodes) /\ Len(<<node>>) = 1 /\ <<node>>[1] = node
      OBVIOUS
    <2> DEFINE c == <<node>> \o s
    <2> HIDE DEF s
    <2>2. /\ c \in Seq(Nodes) /\ Len(c) = 1 + Len(s)
          /\ \A i \in 1 .. 1 + Len(s) : c[i] = IF i <= 1 THEN <<node>>[i] ELSE s[i - 1]
      BY <1>1, <2>1, ConcatProperties
    <2> HIDE DEF c
    <2>3. Inserts(c, s, 1, node)
      BY <1>1, <2>1, <2>2 DEF Inserts
    <2>. QED BY <2>3 DEF c
  <1>4. /\ Len(s) + 1 \in 1 .. Len(s) + 1 /\ 1 \in 1 .. Len(s) + 1 /\ 1 - 1 = 0
    BY <1>1
  <1>5. Chained(InsertedBefore(k, l, node), [lists EXCEPT ![l] = Append(s, node)])
    BY <1>1, <1>2, <1>4, InsertBeforeKeeps
  <1>6. Chained(InsertedAfter(k, l, node), [lists EXCEPT ![l] = <<node>> \o s])
    BY <1>1, <1>3, <1>4, InsertAfterKeeps
  <1>. QED BY <1>5, <1>6

\* A caller of a node that is in a list knows which list, and where in it.
LEMMA WhereListed ==
    ASSUME Chained(links, order), NEW n \in Nodes
    PROVE  /\ IsLinked(n) <=> Listed(order, n)
           /\ IsLinked(n) => /\ Holder(n) \in Lists
                             /\ Place(n) \in 1 .. Len(order[Holder(n)])
                             /\ order[Holder(n)][Place(n)] = n
           /\ \A l \in Lists : Contains(order[l], n) =>
                 IsLinked(n) /\ Holder(n) = l
  <1>1. IsLinked(n) <=> Listed(order, n)
    BY LinkedIsListed DEF IsLinked
  <1>2. \A l \in Lists : DOMAIN order[l] = 1 .. Len(order[l])
    BY LenProperties DEF Chained, Orders
  <1>3. ASSUME Listed(order, n)
        PROVE  /\ Holder(n) \in Lists
               /\ Place(n) \in 1 .. Len(order[Holder(n)])
               /\ order[Holder(n)][Place(n)] = n
    <2>1. \E l \in Lists : Contains(order[l], n)
      BY <1>3 DEF Listed, Contains
    <2>2. Holder(n) \in Lists /\ Contains(order[Holder(n)], n)
      BY <2>1 DEF Holder
    <2>3. \E i \in DOMAIN order[Holder(n)] : order[Holder(n)][i] = n
      BY <1>2, <2>2 DEF Contains
    <2>4. Place(n) \in DOMAIN order[Holder(n)] /\ order[Holder(n)][Place(n)] = n
      BY <2>3 DEF Place
    <2>. QED BY <1>2, <2>2, <2>4
  <1>4. ASSUME NEW l \in Lists, Contains(order[l], n)
        PROVE  Listed(order, n) /\ Holder(n) = l
    <2>1. PICK i \in 1 .. Len(order[l]) : order[l][i] = n
      BY <1>4 DEF Contains
    <2>2. Listed(order, n)
      BY <2>1 DEF Listed
    <2>. QED BY <1>3, <2>1, <2>2 DEF Chained, Apart
  <1>. QED BY <1>1, <1>3, <1>4

\* Taking a node out of where it is.
LEMMA TakeOutKeeps ==
    ASSUME Chained(links, order), NEW n \in Nodes, IsLinked(n)
    PROVE  /\ Chained(Unlinked(links, n), Without(n)) /\ ~Listed(Without(n), n)
           /\ Removes(Without(n)[Holder(n)], order[Holder(n)], Place(n))
           /\ \A l \in Lists \ {Holder(n)} : Without(n)[l] = order[l]
  <1> DEFINE h == Holder(n)
             i == Place(n)
             s == order[h]
  <1>1. h \in Lists /\ i \in 1 .. Len(s) /\ s[i] = n
    BY WhereListed
  <1>2. s \in Seq(Nodes) /\ order \in Orders
    BY <1>1, CellsOfRing DEF Chained
  <1>3. Without(n) = [order EXCEPT ![h] = RemoveAt(s, i)]
    BY DEF Without
  <1> HIDE DEF h, i
  <1>4. Removes(RemoveAt(s, i), s, i)
    BY <1>1, <1>2, RemoveAtElements DEF Removes
  <1>5. /\ Chained(Unlinked(links, n), [order EXCEPT ![h] = RemoveAt(s, i)])
        /\ ~Listed([order EXCEPT ![h] = RemoveAt(s, i)], n)
    BY <1>1, <1>4, UnlinkKeeps
  <1>6. Without(n)[h] = RemoveAt(s, i) /\ \A l \in Lists \ {h} : Without(n)[l] = order[l]
    BY <1>1, <1>2, <1>3 DEF Orders
  <1>. QED BY <1>3, <1>4, <1>5, <1>6 DEF h, i

\* Next to another node, in front of it or behind.
LEMMA InsertNextToKeeps ==
    ASSUME Chained(links, order), NEW at \in Nodes, NEW node \in Nodes,
           InsertBefore(at, node) \/ InsertAfter(at, node)
    PROVE  Chained(links', order')
  <1> DEFINE h == Holder(at)
             i == Place(at)
             s == order[h]
  <1>1. /\ h \in Lists /\ i \in 1 .. Len(s) /\ s[i] = at /\ ~Listed(order, node)
    BY WhereListed DEF InsertBefore, InsertAfter
  <1>2. s \in Seq(Nodes) /\ Len(s) \in Nat /\ At(h, s, i) = at
    BY <1>1, CellsOfRing
  <1>3. CASE InsertBefore(at, node)
    <2>1. /\ links' = InsertedBefore(links, at, node)
          /\ order' = [order EXCEPT ![h] = InsertAt(s, i, node)]
      BY <1>3 DEF InsertBefore
    <2> HIDE DEF h, i
    <2>2. i \in 1 .. Len(s) + 1
      BY <1>1, <1>2
    <2>3. Inserts(InsertAt(s, i, node), s, i, node)
      <3> HIDE DEF s
      <3>. QED BY <1>2, <2>2, InsertAtElements DEF Inserts
    <2>. QED BY <1>1, <1>2, <2>1, <2>2, <2>3, InsertBeforeKeeps
  <1>4. CASE InsertAfter(at, node)
    <2> DEFINE j == i + 1
    <2>1. /\ links' = InsertedAfter(links, at, node)
          /\ order' = [order EXCEPT ![h] = InsertAt(s, j, node)]
      BY <1>4 DEF InsertAfter
    <2> HIDE DEF h, i
    <2>2. j \in 1 .. Len(s) + 1 /\ at = At(h, s, j - 1)
      <3>1. j - 1 = i
        BY <1>1, <1>2
      <3>. QED BY <1>1, <1>2, <3>1
    <2> HIDE DEF j
    <2>3. Inserts(InsertAt(s, j, node), s, j, node)
      <3> HIDE DEF s
      <3>. QED BY <1>2, <2>2, InsertAtElements DEF Inserts
    <2>. QED BY <1>1, <2>1, <2>2, <2>3, InsertAfterKeeps
  <1>. QED BY <1>3, <1>4

LEMMA MoveKeeps ==
    ASSUME Chained(links, order), NEW list \in Lists, NEW node \in Nodes,
           MoveFront(list, node) \/ MoveBack(list, node)
    PROVE  /\ Chained(links', order')
           /\ \A l \in Lists \ {list} : order'[l] = Without(node)[l]
  <1>1. IsLinked(node)
    BY DEF MoveFront, MoveBack
  <1> DEFINE k == Unlinked(links, node)
             w == Without(node)
  <1>2. Chained(k, w) /\ ~Listed(w, node)
    BY <1>1, TakeOutKeeps
  <1>3. \/ /\ links' = InsertedAfter(k, list, node)
           /\ order' = [w EXCEPT ![list] = <<node>> \o @]
        \/ /\ links' = InsertedBefore(k, list, node)
           /\ order' = [w EXCEPT ![list] = Append(@, node)]
    BY DEF MoveFront, MoveBack
  <1> HIDE DEF k, w
  <1>4. Chained(links', order')
    <2>1. /\ Chained(InsertedBefore(k, list, node), [w EXCEPT ![list] = Append(@, node)])
          /\ Chained(InsertedAfter(k, list, node), [w EXCEPT ![list] = <<node>> \o @])
      BY <1>2, PushKeeps
    <2>. QED BY <1>3, <2>1
  <1>5. \A l \in Lists \ {list} : order'[l] = w[l]
    BY <1>2, <1>3 DEF Chained, Orders
  <1>. QED BY <1>4, <1>5 DEF w

LEMMA DequeueKeeps ==
    ASSUME Chained(links, order), NEW l \in Lists, Dequeue(l)
    PROVE  Chained(links', order')
  <1> DEFINE s == order[l]
             t == Tail(s)
  <1>1. /\ s \in Seq(Nodes) /\ Len(s) \in Nat /\ At(l, s, 0) = l
        /\ At(l, s, Len(s) + 1) = l /\ \A i \in 1 .. Len(s) : At(l, s, i) = s[i]
    BY CellsOfRing
  <1>2. /\ ~IsEmpty(l) /\ links' = Unlinked(links, links.next[l])
        /\ order' = [order EXCEPT ![l] = t]
    BY DEF Dequeue, FrontNode
  <1>3. Len(s) # 0
    <2>1. Len(s) = 0 => links.next[l] = l /\ links.prev[l] = l
      <3>1. ASSUME Len(s) = 0 PROVE links.next[l] = l /\ links.prev[l] = l
        <4>1. 0 \in 0 .. Len(s) /\ 0 + 1 = Len(s) + 1
          BY <3>1
        <4>2. /\ links.next[At(l, s, 0)] = At(l, s, 0 + 1)
              /\ links.prev[At(l, s, 0 + 1)] = At(l, s, 0)
          BY <4>1 DEF Chained, Ring
        <4>. QED BY <1>1, <4>1, <4>2
      <3>. QED BY <3>1
    <2>. QED BY <1>2, <2>1 DEF IsEmpty
  <1>4. 1 \in 1 .. Len(s) /\ links.next[l] = s[1]
    <2>1. 1 \in 1 .. Len(s) /\ 0 \in 0 .. Len(s) /\ 0 + 1 = 1
      BY <1>1, <1>3
    <2>2. links.next[At(l, s, 0)] = At(l, s, 0 + 1)
      BY <2>1 DEF Chained, Ring
    <2>. QED BY <1>1, <2>1, <2>2
  <1>5. Removes(t, s, 1)
    <2>1. s # <<>>
      BY <1>3
    <2> HIDE DEF s
    <2>2. /\ t \in Seq(Nodes) /\ Len(t) = Len(s) - 1
          /\ \A i \in 1 .. Len(s) - 1 : t[i] = s[i + 1]
      BY <1>1, <2>1, HeadTailProperties
    <2>. QED BY <1>1, <2>2 DEF Removes
  <1> HIDE DEF t
  <1>. QED BY <1>2, <1>4, <1>5, UnlinkKeeps

LEMMA ChainedInit == Init => Chained(links, order)
  <1> SUFFICES ASSUME Init PROVE Chained(links, order)
    OBVIOUS
  <1>1. /\ links \in Pointers /\ order \in Orders
        /\ \A l \in Lists : links.next[l] = l /\ links.prev[l] = l
        /\ \A n \in Nodes : links.next[n] = NULL /\ links.prev[n] = NULL
    BY DEF Init, Pointers, Orders, Cells
  <1>2. \A l \in Lists : order[l] = <<>> /\ Len(order[l]) = 0
    BY DEF Init
  <1>3. \A l \in Lists : \A i \in Int : At(l, order[l], i) = l
    BY <1>2 DEF At
  <1>4. \A l \in Lists : Ring(links, l, order[l])
    BY <1>1, <1>2, <1>3 DEF Ring
  <1>. QED BY <1>1, <1>2, <1>4 DEF Chained, Apart

LEMMA ChainedStep ==
    ASSUME MayPushLinked = FALSE, Chained(links, order), [Next]_vars
    PROVE  Chained(links', order')
  <1>1. ASSUME NEW list \in Lists, NEW node \in Nodes,
               PushBack(list, node) \/ PushFront(list, node)
        PROVE  Chained(links', order')
    <2>1. ~Listed(order, node)
      BY <1>1, WhereListed DEF PushBack, PushFront, MayInsert
    <2>2. /\ Chained(InsertedBefore(links, list, node),
                     [order EXCEPT ![list] = Append(@, node)])
          /\ Chained(InsertedAfter(links, list, node),
                     [order EXCEPT ![list] = <<node>> \o @])
      BY <2>1, PushKeeps
    <2>. QED BY <1>1, <2>2 DEF PushBack, PushFront
  <1>2. ASSUME NEW node \in Nodes, RemoveNode(node) PROVE Chained(links', order')
    BY <1>2, TakeOutKeeps DEF RemoveNode
  <1>3. ASSUME Operation PROVE Chained(links', order')
    BY <1>1, <1>2, <1>3, MoveKeeps, InsertNextToKeeps, DequeueKeeps DEF Operation
  <1>4. ASSUME WalkBody PROVE Chained(links', order')
    BY <1>2, <1>4, MoveKeeps DEF WalkBody
  <1>5. CASE (\E list \in Lists : WalkBegins(list)) \/ WalkSteps \/ WalkEnds
             \/ UNCHANGED vars
    BY <1>5 DEF WalkBegins, WalkSteps, WalkEnds, vars
  <1>. QED BY <1>3, <1>4, <1>5 DEF Next

-----------------------------------------------------------------------------
(* Safe iteration *)

\* Where the body takes the current node away, what is ahead stays ahead.
LEMMA AheadStays ==
    ASSUME Chained(links, order), NEW d \in 0 .. Len(order[walk]), walk \in Lists,
           Ahead(d), toVisit \in Seq(Nodes), NEW i \in 1 .. Len(order[walk]),
           order[walk][i] = pos, Removes(order'[walk], order[walk], i),
           UNCHANGED cursors, \A j \in 1 .. Len(order'[walk]) : order'[walk][j] # pos
    PROVE  d - 1 \in 0 .. Len(order'[walk]) /\ Ahead(d - 1)'
  <1> DEFINE s == order[walk]
             t == order'[walk]
  <1>1. /\ Len(s) \in Nat /\ s \in Seq(Nodes) /\ Len(toVisit) \in Nat
        /\ walk' = walk /\ pos' = pos /\ nxt' = nxt /\ toVisit' = toVisit
    BY CellsOfRing DEF cursors
  <1>2. i = d
    BY DEF Ahead
  <1>3. Len(t) = Len(s) - 1 /\ \A j \in 1 .. Len(s) - 1 : t[j] = IF j < d THEN s[j] ELSE s[j + 1]
    BY <1>2 DEF Removes
  <1>4. /\ Len(toVisit) = Len(s) - d + 1
        /\ \A j \in 2 .. Len(toVisit) : toVisit[j] = s[d + j - 1]
        /\ pos = toVisit[1] /\ nxt = At(walk, s, d + 1)
    BY DEF Ahead
  <1>5. \A j \in 1 .. Len(t) : t[j] # pos
    OBVIOUS
  <1>6. d \in 1 .. Len(s)
    BY <1>2
  <1> HIDE DEF s, t
  <1>7. Len(toVisit) = Len(t) - (d - 1) + 1
    BY <1>1, <1>3, <1>4, <1>6
  <1>8. ASSUME NEW j \in 2 .. Len(toVisit) PROVE toVisit[j] = t[(d - 1) + j - 1]
    <2>1. (d - 1) + j - 1 \in 1 .. Len(s) - 1 /\ ~((d - 1) + j - 1 < d)
          /\ (d - 1) + j - 1 + 1 = d + j - 1
      <3>1. Len(toVisit) = Len(s) - d + 1 /\ Len(s) \in Int /\ d \in Int /\ d >= 1
        BY <1>1, <1>4, <1>6
      <3>2. j \in Int /\ j >= 2 /\ j <= Len(s) - d + 1
        BY <3>1
      <3>. QED BY <3>1, <3>2
    <2>. QED BY <1>3, <1>4, <2>1
  <1>9. nxt = At(walk, t, (d - 1) + 1)
    BY <1>1, <1>3, <1>4, <1>6 DEF At
  <1>10. d - 1 \in 0 .. Len(t)
    BY <1>1, <1>3, <1>6
  <1>. QED BY <1>1, <1>5, <1>7, <1>8, <1>9, <1>10 DEF Ahead, t

LEMMA WalkBodyKeeps ==
    ASSUME Chained(links, order), WalkInv, WalkBody, UNCHANGED cursors
    PROVE  WalkInv'
  <1>1. PICK node \in Nodes :
           /\ walk # NULL /\ pos = node /\ Contains(order[walk], node)
           /\ \/ RemoveNode(node)
              \/ \E list \in Lists \ {walk} : MoveFront(list, node) \/ MoveBack(list, node)
    BY DEF WalkBody
  <1>2. /\ walk \in Lists /\ toVisit \in Seq(Nodes) /\ pos # walk
        /\ UNCHANGED <<walk, pos, nxt, toVisit>>
    BY <1>1 DEF WalkInv, cursors
  <1>3. PICK d \in 0 .. Len(order[walk]) : Ahead(d)
    BY <1>1, <1>2 DEF WalkInv
  <1>4. IsLinked(node) /\ Holder(node) = walk
    BY <1>1, <1>2, WhereListed
  <1>5. /\ Removes(Without(node)[walk], order[walk], Place(node))
        /\ ~Listed(Without(node), node)
        /\ Place(node) \in 1 .. Len(order[walk]) /\ order[walk][Place(node)] = node
    BY <1>4, TakeOutKeeps, WhereListed
  <1>6. order'[walk] = Without(node)[walk]
    <2>1. CASE RemoveNode(node)
      BY <2>1 DEF RemoveNode
    <2>2. CASE \E list \in Lists \ {walk} : MoveFront(list, node) \/ MoveBack(list, node)
      <3>1. PICK list \in Lists \ {walk} : MoveFront(list, node) \/ MoveBack(list, node)
        BY <2>2
      <3>2. \A l \in Lists \ {list} : order'[l] = Without(node)[l]
        BY <3>1, MoveKeeps
      <3>. QED BY <1>2, <3>1, <3>2
    <2>. QED BY <1>1, <2>1, <2>2
  <1>7. \A j \in 1 .. Len(order'[walk]) : order'[walk][j] # pos
    BY <1>1, <1>2, <1>5, <1>6 DEF Listed
  <1>8. d - 1 \in 0 .. Len(order'[walk]) /\ Ahead(d - 1)'
    BY <1>1, <1>2, <1>3, <1>5, <1>6, <1>7, AheadStays
  <1>. QED BY <1>1, <1>2, <1>8 DEF WalkInv

LEMMA WalkBeginsKeeps ==
    ASSUME Chained(links, order), NEW list \in Lists, WalkBegins(list)
    PROVE  WalkInv'
  <1> DEFINE s == order[list]
  <1>1. /\ s \in Seq(Nodes) /\ Len(s) \in Nat /\ At(list, s, 0) = list
        /\ At(list, s, Len(s) + 1) = list
        /\ \A i \in 1 .. Len(s) : At(list, s, i) = s[i] /\ s[i] \in Nodes
        /\ \A i \in 0 .. Len(s) : links.next[At(list, s, i)] = At(list, s, i + 1)
    BY CellsOfRing DEF Chained, Ring
  <1>2. /\ walk' = list /\ pos' = links.next[list] /\ nxt' = links.next[pos']
        /\ toVisit' = s /\ order' = order
    BY DEF WalkBegins
  <1>3. \A i \in 1 .. Len(s) : s[i] = s[1] => i = 1
    BY <1>1 DEF Chained, Apart
  <1> HIDE DEF s
  <1>4. pos' = At(list, s, 1)
    <2>1. 0 \in 0 .. Len(s) /\ 0 + 1 = 1
      BY <1>1
    <2>. QED BY <1>1, <1>2, <2>1
  <1>5. CASE Len(s) = 0
    <2>1. s = <<>> /\ pos' = list
      <3>1. At(list, s, 1) = list
        BY <1>5 DEF At
      <3>. QED BY <1>1, <1>4, <1>5, <3>1, EmptySeq
    <2>. QED BY <1>2, <2>1 DEF WalkInv
  <1>6. CASE Len(s) # 0
    <2>1. 1 \in 1 .. Len(s) /\ 1 \in 0 .. Len(s)
      BY <1>1, <1>6
    <2>2. pos' = s[1] /\ pos' \in Nodes /\ nxt' = At(list, s, 1 + 1)
      BY <1>1, <1>2, <1>4, <2>1
    <2>3. Len(s) = Len(s) - 1 + 1 /\ \A i \in 2 .. Len(s) : s[i] = s[1 + i - 1]
      <3>1. \A i \in 2 .. Len(s) : i = 1 + i - 1
        BY <1>1
      <3>. QED BY <1>1, <3>1
    <2>4. Ahead(1)'
      BY <1>2, <1>3, <2>2, <2>3 DEF Ahead, s
    <2>5. 1 \in 0 .. Len(order'[walk'])
      BY <1>2, <2>1 DEF s
    <2>. QED BY <1>1, <1>2, <2>2, <2>4, <2>5 DEF WalkInv
  <1>. QED BY <1>5, <1>6

LEMMA WalkStepsKeeps ==
    ASSUME Chained(links, order), WalkInv, WalkSteps
    PROVE  WalkInv'
  <1>1. /\ walk \in Lists /\ pos # walk /\ pos' = nxt /\ nxt' = links.next[nxt]
        /\ toVisit' = Tail(toVisit) /\ order' = order /\ walk' = walk
        /\ toVisit \in Seq(Nodes)
    BY DEF WalkSteps, WalkInv
  <1>2. PICK d \in 0 .. Len(order[walk]) : Ahead(d)
    BY <1>1 DEF WalkInv, WalkSteps
  <1> DEFINE s == order[walk]
             v == toVisit
             w == Tail(toVisit)
  <1>3. /\ s \in Seq(Nodes) /\ Len(s) \in Nat /\ At(walk, s, Len(s) + 1) = walk
        /\ \A i \in 1 .. Len(s) : At(walk, s, i) = s[i] /\ s[i] \in Nodes
        /\ \A i \in 0 .. Len(s) : links.next[At(walk, s, i)] = At(walk, s, i + 1)
    <2>1. \A i \in 0 .. Len(s) : links.next[At(walk, s, i)] = At(walk, s, i + 1)
      BY <1>1 DEF Chained, Ring
    <2>. QED BY <1>1, <2>1, CellsOfRing
  <1>4. \A i, j \in 1 .. Len(s) : s[i] = s[j] => i = j
    BY <1>1 DEF Chained, Apart
  <1>5. /\ Len(v) = Len(s) - d + 1 /\ nxt = At(walk, s, d + 1)
        /\ \A i \in 2 .. Len(v) : v[i] = s[d + i - 1]
        /\ d \in 0 .. Len(s)
    BY <1>2 DEF Ahead
  <1> HIDE DEF s
  <1>6. /\ w \in Seq(Nodes) /\ Len(w) = Len(v) - 1
        /\ \A i \in 1 .. Len(v) - 1 : w[i] = v[i + 1]
    <2>1. v # <<>>
      BY <1>3, <1>5
    <2>. QED BY <1>1, <2>1, HeadTailProperties
  <1> HIDE DEF v, w
  <1>7. toVisit' = w
    BY <1>1 DEF w
  <1>8. CASE d = Len(s)
    <2>1. Len(w) = 0 /\ nxt = walk
      BY <1>3, <1>5, <1>6, <1>8
    <2>2. w = <<>>
      BY <1>6, <2>1, EmptySeq
    <2>. QED BY <1>1, <1>6, <1>7, <2>1, <2>2 DEF WalkInv
  <1>9. CASE d # Len(s)
    <2>1. d + 1 \in 1 .. Len(s) /\ d + 1 \in 0 .. Len(s)
      BY <1>3, <1>5, <1>9
    <2>2. pos' = s[d + 1] /\ pos' \in Nodes /\ nxt' = At(walk, s, (d + 1) + 1)
      BY <1>1, <1>3, <1>5, <2>1
    <2>3. Len(w) = Len(s) - (d + 1) + 1
      BY <1>3, <1>5, <1>6
    <2>4. ASSUME NEW i \in 1 .. Len(w) PROVE w[i] = s[d + i]
      <3>1. i \in 1 .. Len(v) - 1 /\ i + 1 \in 2 .. Len(v) /\ d + (i + 1) - 1 = d + i
        BY <1>3, <1>5, <1>6
      <3>2. w[i] = v[i + 1] /\ v[i + 1] = s[d + (i + 1) - 1]
        BY <1>5, <1>6, <3>1
      <3>. QED BY <3>1, <3>2
    <2>5. \A i \in 2 .. Len(w) : w[i] = s[(d + 1) + i - 1]
      <3>1. \A i \in 2 .. Len(w) : i \in 1 .. Len(w) /\ (d + 1) + i - 1 = d + i
        BY <1>3, <2>3
      <3>. QED BY <2>4, <3>1
    <2>6. pos' = w[1]
      <3>1. 1 \in 1 .. Len(w)
        BY <1>3, <2>1, <2>3
      <3>. QED BY <2>2, <2>4, <3>1
    <2>7. \A i \in 1 .. Len(s) : s[i] = pos' => i = d + 1
      BY <1>4, <2>1, <2>2
    <2>8. Ahead(d + 1)'
      BY <1>1, <1>7, <2>2, <2>3, <2>5, <2>6, <2>7 DEF Ahead, s
    <2>9. d + 1 \in 0 .. Len(order'[walk'])
      BY <1>1, <2>1 DEF s
    <2>. QED BY <1>1, <1>6, <1>7, <2>2, <2>8, <2>9 DEF WalkInv
  <1>. QED BY <1>8, <1>9

LEMMA ListInvInit == Init => Chained(links, order) /\ WalkInv
  BY ChainedInit DEF Init, WalkInv

LEMMA WalkInvStep ==
    ASSUME Chained(links, order), WalkInv, [Next]_vars PROVE WalkInv'
  <1>1. CASE walk = NULL /\ Operation /\ UNCHANGED cursors
    BY <1>1 DEF WalkInv, cursors
  <1>2. CASE WalkEnds
    BY <1>2 DEF WalkEnds, WalkInv
  <1>3. CASE UNCHANGED vars
    <2>1. UNCHANGED <<walk, pos, nxt, toVisit, order>>
      BY <1>3 DEF vars, cursors
    <2>2. \A d \in 0 .. Len(order[walk]) : Ahead(d) => Ahead(d)'
      BY <2>1 DEF Ahead
    <2>. QED BY <2>1, <2>2 DEF WalkInv
  <1>4. ASSUME NEW list \in Lists, WalkBegins(list) PROVE WalkInv'
    BY <1>4, WalkBeginsKeeps
  <1>5. CASE WalkBody /\ UNCHANGED cursors
    BY <1>5, WalkBodyKeeps
  <1>6. CASE WalkSteps
    BY <1>6, WalkStepsKeeps
  <1>. QED BY <1>1, <1>2, <1>3, <1>4, <1>5, <1>6 DEF Next

LEMMA ListInvariance ==
    ASSUME MayPushLinked = FALSE PROVE Spec => [](Chained(links, order) /\ WalkInv)
  <1>1. Chained(links, order) /\ WalkInv /\ [Next]_vars
            => (Chained(links, order) /\ WalkInv)'
    BY ChainedStep, WalkInvStep
  <1>. QED BY <1>1, ListInvInit, PTL DEF Spec

-----------------------------------------------------------------------------
\* The invariant that list.h states holds for ever, in any number of lists that
\* share any number of nodes, when no caller inserts a node that is in a list.
THEOREM ListsKeepTheirInvariant ==
    ASSUME MayPushLinked = FALSE PROVE Spec => []ListInvariant
  <1>1. ASSUME Chained(links, order), NEW l \in Lists, NEW i \in 0 .. Len(order[l])
        PROVE  /\ links.prev[links.next[At(l, order[l], i)]] = At(l, order[l], i)
               /\ links.next[links.prev[At(l, order[l], i + 1)]] = At(l, order[l], i + 1)
    BY <1>1 DEF Chained, Ring
  <1>2. ASSUME Chained(links, order) PROVE ListInvariant
    <2>1. ASSUME NEW c \in Cells, c \in Lists \/ IsLinked(c)
          PROVE  links.prev[links.next[c]] = c /\ links.next[links.prev[c]] = c
      <3>1. CASE c \in Lists
        <4>1. /\ At(c, order[c], 0) = c /\ At(c, order[c], Len(order[c]) + 1) = c
              /\ Len(order[c]) \in 0 .. Len(order[c]) /\ 0 \in 0 .. Len(order[c])
          BY <1>2, <3>1, CellsOfRing
        <4>. QED BY <1>1, <1>2, <3>1, <4>1
      <3>2. CASE c \in Nodes
        <4>1. IsLinked(c)
          BY <2>1, <3>2
        <4>2. Listed(order, c)
          BY <1>2, <3>2, <4>1, WhereListed
        <4>3. PICK l \in Lists : \E i \in 1 .. Len(order[l]) : order[l][i] = c
          BY <4>2 DEF Listed
        <4>4. PICK i \in 1 .. Len(order[l]) : order[l][i] = c
          BY <4>3
        <4>5. At(l, order[l], i) = c /\ Len(order[l]) \in Nat
          BY <1>2, <4>4, CellsOfRing
        <4>6. i \in 0 .. Len(order[l]) /\ i - 1 \in 0 .. Len(order[l]) /\ (i - 1) + 1 = i
          BY <4>5
        <4>7. links.prev[links.next[At(l, order[l], i)]] = At(l, order[l], i)
          BY <1>1, <1>2, <4>6
        <4>8. links.next[links.prev[At(l, order[l], (i - 1) + 1)]] = At(l, order[l], (i - 1) + 1)
          BY <1>1, <1>2, <4>6
        <4>. QED BY <4>5, <4>6, <4>7, <4>8
      <3>. QED BY <3>1, <3>2 DEF Cells
    <2>. QED BY <2>1 DEF ListInvariant
  <1>. QED BY <1>2, ListInvariance, PTL

\* Following the pointers of a ring passes its cells in order.
LEMMA RingsAreTraversals == Chained(links, order) => TraversalsAgree
  <1> SUFFICES ASSUME Chained(links, order) PROVE TraversalsAgree
    OBVIOUS
  <1>1. ASSUME NEW l \in Lists
        PROVE  LET cycle == <<l>> \o order[l] \o <<l>>
               IN  \A i \in 1 .. Len(cycle) - 1 : /\ links.next[cycle[i]] = cycle[i + 1]
                                                  /\ links.prev[cycle[i + 1]] = cycle[i]
    <2> DEFINE s == order[l]
               half == <<l>> \o s
               cycle == half \o <<l>>
    <2>1. /\ s \in Seq(Nodes) /\ Len(s) \in Nat /\ At(l, s, 0) = l
          /\ At(l, s, Len(s) + 1) = l
          /\ \A i \in 1 .. Len(s) : At(l, s, i) = s[i] /\ s[i] \in Nodes
          /\ \A i \in 0 .. Len(s) : /\ links.next[At(l, s, i)] = At(l, s, i + 1)
                                    /\ links.prev[At(l, s, i + 1)] = At(l, s, i)
      BY CellsOfRing DEF Chained, Ring
    <2> HIDE DEF s
    <2>2. <<l>> \in Seq(Cells) /\ Len(<<l>>) = 1 /\ <<l>>[1] = l /\ s \in Seq(Cells)
      BY <2>1 DEF Cells
    <2>3. /\ half \in Seq(Cells) /\ Len(half) = Len(s) + 1
          /\ \A i \in 1 .. Len(s) + 1 : half[i] = At(l, s, i - 1)
      <3>1. /\ half \in Seq(Cells) /\ Len(half) = 1 + Len(s)
            /\ \A i \in 1 .. 1 + Len(s) : half[i] = IF i <= 1 THEN <<l>>[i] ELSE s[i - 1]
        BY <2>2, ConcatProperties
      <3> HIDE DEF half
      <3>2. ASSUME NEW i \in 1 .. Len(s) + 1 PROVE half[i] = At(l, s, i - 1)
        <4>1. CASE i = 1
          BY <2>1, <2>2, <3>1, <4>1
        <4>2. CASE i # 1
          <5>1. i - 1 \in 1 .. Len(s) /\ ~(i <= 1) /\ i \in 1 .. 1 + Len(s)
            BY <2>1, <4>2
          <5>. QED BY <2>1, <3>1, <5>1
        <4>. QED BY <4>1, <4>2
      <3>. QED BY <2>1, <3>1, <3>2
    <2> HIDE DEF half
    <2>4. /\ Len(cycle) = Len(s) + 2
          /\ \A i \in 1 .. Len(s) + 2 : cycle[i] = At(l, s, i - 1)
      <3>1. /\ Len(cycle) = Len(half) + 1
            /\ \A i \in 1 .. Len(half) + 1 :
                  cycle[i] = IF i <= Len(half) THEN half[i] ELSE <<l>>[i - Len(half)]
        BY <2>2, <2>3, ConcatProperties
      <3> HIDE DEF cycle
      <3>2. ASSUME NEW i \in 1 .. Len(s) + 2 PROVE cycle[i] = At(l, s, i - 1)
        <4>1. CASE i <= Len(s) + 1
          <5>1. i \in 1 .. Len(s) + 1 /\ i \in 1 .. Len(half) + 1 /\ i <= Len(half)
            BY <2>1, <2>3, <4>1
          <5>. QED BY <2>3, <3>1, <5>1
        <4>2. CASE ~(i <= Len(s) + 1)
          <5>1. /\ i \in 1 .. Len(half) + 1 /\ ~(i <= Len(half)) /\ i - Len(half) = 1
                /\ i - 1 = Len(s) + 1
            BY <2>1, <2>3, <4>2
          <5>. QED BY <2>1, <2>2, <3>1, <5>1
        <4>. QED BY <4>1, <4>2
      <3>. QED BY <2>1, <2>3, <3>1, <3>2
    <2> HIDE DEF cycle
    <2>5. ASSUME NEW i \in 1 .. Len(cycle) - 1
          PROVE  links.next[cycle[i]] = cycle[i + 1] /\ links.prev[cycle[i + 1]] = cycle[i]
      <3>1. /\ i \in 1 .. Len(s) + 2 /\ i + 1 \in 1 .. Len(s) + 2 /\ i - 1 \in 0 .. Len(s)
            /\ (i + 1) - 1 = (i - 1) + 1
        BY <2>1, <2>4
      <3>. QED BY <2>1, <2>4, <3>1
    <2>. QED BY <2>5 DEF cycle, half, s
  <1>2. ASSUME NEW l \in Lists, order[l] # <<>>
        PROVE  FrontNode(l) = Head(order[l]) /\ BackNode(l) = Last(order[l])
    <2> DEFINE s == order[l]
    <2>1. /\ s \in Seq(Nodes) /\ Len(s) \in Nat /\ At(l, s, 0) = l
          /\ At(l, s, Len(s) + 1) = l
          /\ \A i \in 1 .. Len(s) : At(l, s, i) = s[i] /\ s[i] \in Nodes
          /\ \A i \in 0 .. Len(s) : /\ links.next[At(l, s, i)] = At(l, s, i + 1)
                                    /\ links.prev[At(l, s, i + 1)] = At(l, s, i)
      BY CellsOfRing DEF Chained, Ring
    <2>2. s # <<>>
      BY <1>2
    <2> HIDE DEF s
    <2>3. Len(s) # 0 /\ Head(s) = s[1] /\ Last(s) = s[Len(s)]
      BY <2>1, <2>2, EmptySeq, HeadTailProperties DEF Last
    <2>4. /\ 1 \in 1 .. Len(s) /\ Len(s) \in 1 .. Len(s) /\ Len(s) \in 0 .. Len(s)
          /\ 0 \in 0 .. Len(s) /\ 0 + 1 = 1
      BY <2>1, <2>3
    <2>5. links.next[l] = s[1] /\ links.prev[l] = s[Len(s)]
      BY <2>1, <2>4
    <2>6. ~IsEmpty(l)
      BY <2>1, <2>4, <2>5 DEF IsEmpty
    <2>. QED BY <2>3, <2>5, <2>6 DEF FrontNode, BackNode, s
  <1>3. ASSUME NEW n \in Nodes
        PROVE  IsLinked(n) <=> Cardinality({l \in Lists : Contains(order[l], n)}) = 1
    <2> DEFINE holders == {l \in Lists : Contains(order[l], n)}
    <2>1. IsLinked(n) <=> Listed(order, n)
      BY WhereListed
    <2>2. CASE Listed(order, n)
      <3>1. PICK l \in Lists : Contains(order[l], n)
        BY <2>2 DEF Listed, Contains
      <3>2. \A m \in Lists : Contains(order[m], n) => m = Holder(n)
        BY WhereListed
      <3>3. holders = {l}
        BY <3>1, <3>2
      <3>. QED BY <2>1, <2>2, <3>3, FS_Singleton
    <2>3. CASE ~Listed(order, n)
      <3>1. holders = {}
        BY <2>3 DEF Listed, Contains
      <3>. QED BY <2>1, <2>3, <3>1, FS_EmptySet
    <2>. QED BY <2>2, <2>3
  <1>. QED BY <1>1, <1>2, <1>3 DEF TraversalsAgree

\* Whatever is pushed, inserted, moved, removed and dequeued, from any number of
\* lists that share their nodes, following the pointers passes what the callers
\* put there, in their order, in both directions; and a node has pointers exactly
\* while it is in one list.
THEOREM TraversalsAlwaysAgree ==
    ASSUME MayPushLinked = FALSE PROVE Spec => []TraversalsAgree
  <1>. QED BY ListInvariance, RingsAreTraversals, PTL

\* An iteration stands where the nodes still to be visited begin.
LEMMA AheadIsVisited == Chained(links, order) /\ WalkInv => WalkVisitsAll
  <1> SUFFICES ASSUME Chained(links, order) /\ WalkInv PROVE WalkVisitsAll
    OBVIOUS
  <1> SUFFICES ASSUME walk # NULL
               PROVE  pos = IF toVisit = <<>> THEN walk ELSE Head(toVisit)
    BY DEF WalkVisitsAll
  <1>1. CASE pos = walk /\ toVisit = <<>>
    BY <1>1
  <1>2. ASSUME NEW d \in 0 .. Len(order[walk]), Ahead(d)
        PROVE  pos = IF toVisit = <<>> THEN walk ELSE Head(toVisit)
    <2>1. walk \in Lists /\ toVisit \in Seq(Nodes)
      BY DEF WalkInv
    <2>2. Len(order[walk]) \in Nat
      BY <2>1, CellsOfRing
    <2>3. Len(toVisit) = Len(order[walk]) - d + 1 /\ pos = toVisit[1]
      BY <1>2 DEF Ahead
    <2>4. Len(toVisit) # 0
      BY <2>2, <2>3
    <2>5. toVisit # <<>>
      BY <2>1, <2>4, EmptySeq
    <2>. QED BY <2>1, <2>3, <2>5, HeadTailProperties
  <1>. QED BY <1>1, <1>2 DEF WalkInv

\* A safe iteration stands on what was in the list when it began, in order and
\* without leaving a node out, and then on the head, though its body takes the
\* nodes it stands on out of the list and puts them into another.
THEOREM WalksVisitAll ==
    ASSUME MayPushLinked = FALSE PROVE Spec => []WalkVisitsAll
  <1>. QED BY ListInvariance, AheadIsVisited, PTL
==============================================================================

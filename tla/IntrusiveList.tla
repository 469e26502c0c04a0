---------------------------- MODULE IntrusiveList ----------------------------
(***************************************************************************)
(* The circular, doubly linked intrusive lists of ds/list/list.h and the   *)
(* queue of ds/queue/queue.h over them, pointer by pointer.  rt_tasks and  *)
(* rt_zombies share the runtime nodes of the tasks; a queue is one list.   *)
(* Runtime has sequences in their place; order keeps, beside the pointers, *)
(* the sequences that the callers believe in.                              *)
(***************************************************************************)
EXTENDS SequencesExt

CONSTANTS
    Lists,          \* each stands for its sentinel head too
    Nodes,
    NULL,
    MayPushLinked   \* whether a caller may push a node that is in a list

ASSUME CellsDiffer == Lists \cap Nodes = {} /\ NULL \notin Lists \cup Nodes
ASSUME PushFlag == MayPushLinked \in BOOLEAN

VARIABLES
    links,  \* the next and prev pointers of heads and nodes
    order,  \* the nodes of each list, front first
    walk,   \* the list GT_LIST_FOR_EACH_SAFE iterates over, NULL when none
    pos, nxt, \* its cursors
    toVisit \* the nodes that its body has still to see, from the current one on

cursors == <<walk, pos, nxt, toVisit>>
vars == <<links, order, cursors>>

Cells == Lists \cup Nodes

\* gt_list_init makes a head point to itself, gt_list_node_init a node to none.
Init ==
    /\ links = LET alone == [c \in Cells |-> IF c \in Lists THEN c ELSE NULL]
               IN  [next |-> alone, prev |-> alone]
    /\ order = [l \in Lists |-> <<>>]
    /\ walk = NULL /\ pos = NULL /\ nxt = NULL /\ toVisit = <<>>

\* Faulty: the neighbour in front is not told.
LinkedOneWay(k, node, prev, next) ==
    [next |-> [k.next EXCEPT ![node] = next],
     prev |-> [k.prev EXCEPT ![next] = node, ![node] = prev]]

\* __gt_list_link and __gt_list_unlink on the pointers k.
Linked(k, node, prev, next) ==
    [next |-> [k.next EXCEPT ![node] = next, ![prev] = node],
     prev |-> [k.prev EXCEPT ![next] = node, ![node] = prev]]

\* Faulty: the node keeps its own pointers.
UnlinkedStillPointing(k, node) ==
    [next |-> [k.next EXCEPT ![k.prev[node]] = k.next[node]],
     prev |-> [k.prev EXCEPT ![k.next[node]] = k.prev[node]]]

Unlinked(k, node) ==
    [next |-> [k.next EXCEPT ![k.prev[node]] = k.next[node], ![node] = NULL],
     prev |-> [k.prev EXCEPT ![k.next[node]] = k.prev[node], ![node] = NULL]]

InsertedBefore(k, at, node) == Linked(k, node, k.prev[at], at)
InsertedAfter(k, at, node) == Linked(k, node, at, k.next[at])

IsEmpty(list) == links.prev[list] = list /\ links.next[list] = list
IsLinked(node) == links.prev[node] # NULL /\ links.next[node] # NULL
FrontNode(list) == IF IsEmpty(list) THEN NULL ELSE links.next[list]
BackNode(list) == IF IsEmpty(list) THEN NULL ELSE links.prev[list]

\* What a caller knows of order: where a node is, and the order without it.
Holder(node) == CHOOSE l \in Lists : Contains(order[l], node)
Place(node) == CHOOSE i \in DOMAIN order[Holder(node)] : order[Holder(node)][i] = node
Without(node) == [order EXCEPT ![Holder(node)] = RemoveAt(@, Place(node))]

\* The preconditions of list.h: a node that is inserted is in no list, one that
\* is removed or moved is in one.
MayInsert(node) == MayPushLinked \/ ~IsLinked(node)

-----------------------------------------------------------------------------
PushBack(list, node) ==
    /\ MayInsert(node)
    /\ links' = InsertedBefore(links, list, node)
    /\ order' = [order EXCEPT ![list] = Append(@, node)]

PushFront(list, node) ==
    /\ MayInsert(node)
    /\ links' = InsertedAfter(links, list, node)
    /\ order' = [order EXCEPT ![list] = <<node>> \o @]

InsertBefore(at, node) ==
    /\ ~IsLinked(node) /\ IsLinked(at)
    /\ links' = InsertedBefore(links, at, node)
    /\ order' = [order EXCEPT ![Holder(at)] = InsertAt(@, Place(at), node)]

InsertAfter(at, node) ==
    /\ ~IsLinked(node) /\ IsLinked(at)
    /\ links' = InsertedAfter(links, at, node)
    /\ order' = [order EXCEPT ![Holder(at)] = InsertAt(@, Place(at) + 1, node)]

RemoveNode(node) ==
    /\ IsLinked(node)
    /\ links' = Unlinked(links, node)
    /\ order' = Without(node)

MoveFront(list, node) ==
    /\ IsLinked(node)
    /\ links' = InsertedAfter(Unlinked(links, node), list, node)
    /\ order' = [Without(node) EXCEPT ![list] = <<node>> \o @]

MoveBack(list, node) ==
    /\ IsLinked(node)
    /\ links' = InsertedBefore(Unlinked(links, node), list, node)
    /\ order' = [Without(node) EXCEPT ![list] = Append(@, node)]

\* gt_queue_dequeue; on an empty queue it changes nothing.
Dequeue(list) ==
    /\ FrontNode(list) # NULL
    /\ links' = Unlinked(links, FrontNode(list))
    /\ order' = [order EXCEPT ![list] = Tail(@)]

-----------------------------------------------------------------------------
(* GT_LIST_FOR_EACH_SAFE: between two steps the body may take the current   *)
(* node out of the list, and put it into another one.                      *)

WalkBegins(list) ==
    /\ walk = NULL
    /\ walk' = list /\ pos' = links.next[list] /\ nxt' = links.next[pos']
    /\ toVisit' = order[list]
    /\ UNCHANGED <<links, order>>

\* Faulty: the next node is looked up in the current one, as GT_LIST_FOR_EACH does.
WalkStepsUncached ==
    /\ walk # NULL /\ pos # walk
    /\ pos' = links.next[pos]
    /\ nxt' = IF pos' = NULL THEN NULL ELSE links.next[pos']
    /\ toVisit' = Tail(toVisit)
    /\ UNCHANGED <<links, order, walk>>

WalkSteps ==
    /\ walk # NULL /\ pos # walk
    /\ pos' = nxt /\ nxt' = links.next[nxt]
    /\ toVisit' = Tail(toVisit)
    /\ UNCHANGED <<links, order, walk>>

WalkEnds ==
    /\ walk # NULL /\ pos = walk
    /\ walk' = NULL /\ pos' = NULL /\ nxt' = NULL
    /\ UNCHANGED <<links, order, toVisit>>

WalkBody ==
    \E node \in Nodes :
        /\ walk # NULL /\ pos = node /\ Contains(order[walk], node)
        /\ \/ RemoveNode(node)
           \/ \E list \in Lists \ {walk} : MoveFront(list, node) \/ MoveBack(list, node)

-----------------------------------------------------------------------------
Operation ==
    \/ \E list \in Lists, node \in Nodes :
          \/ PushBack(list, node) \/ PushFront(list, node)
          \/ MoveFront(list, node) \/ MoveBack(list, node)
    \/ \E at, node \in Nodes : InsertBefore(at, node) \/ InsertAfter(at, node)
    \/ \E node \in Nodes : RemoveNode(node)
    \/ \E list \in Lists : Dequeue(list)

Next ==
    \/ walk = NULL /\ Operation /\ UNCHANGED cursors
    \/ \E list \in Lists : WalkBegins(list)
    \/ WalkBody /\ UNCHANGED cursors
    \/ WalkSteps \/ WalkEnds

Spec == Init /\ [][Next]_vars

-----------------------------------------------------------------------------
\* The invariant that list.h states: for every linked node and every head,
\* node->next->prev == node and node->prev->next == node.
ListInvariant ==
    \A c \in Cells :
        c \in Lists \/ IsLinked(c) =>
            /\ links.prev[links.next[c]] = c
            /\ links.next[links.prev[c]] = c

\* Following next from the head of a list, or prev, passes exactly the nodes
\* that its callers put there, in their order, and back to the head; the ends
\* are found; a node in no list has no links, so gt_list_node_is_linked tells
\* the truth.
TraversalsAgree ==
    /\ \A l \in Lists :
          LET cycle == <<l>> \o order[l] \o <<l>>
          IN  \A i \in 1 .. Len(cycle) - 1 : /\ links.next[cycle[i]] = cycle[i + 1]
                                             /\ links.prev[cycle[i + 1]] = cycle[i]
    /\ \A l \in Lists :
          order[l] # <<>> => /\ FrontNode(l) = Head(order[l])
                             /\ BackNode(l) = Last(order[l])
    /\ \A n \in Nodes :
          IsLinked(n) <=> Cardinality({l \in Lists : Contains(order[l], n)}) = 1

\* A safe iteration sees every node that was in the list when it began, once and
\* in order, and then the head, though the body takes out nodes it stands on
\* ("provide safe iteration during node removal", docs/ds/list/contract.md).
WalkVisitsAll ==
    walk # NULL => pos = IF toVisit = <<>> THEN walk ELSE Head(toVisit)
=============================================================================

----------------------------- MODULE LinkedList -----------------------------
(***************************************************************************)
(* JetHead::list (src/include/jh_list.h): a doubly linked list between two *)
(* sentinel nodes, changed at its ends and through iterators.  The links   *)
(* are modelled as they are; the list's value is what a walk along them    *)
(* finds.  A ghost sequence records what the list should contain.          *)
(***************************************************************************)
EXTENDS Integers, Sequences, FiniteSets, SequencesExt, ListErase

CONSTANT Cell       \* addresses of nodes

Head_ == "mHead"
Tail_ == "mTail"
NULL == "NULL"
Place == Cell \cup {Head_, Tail_}

ASSUME ListAssumption == IsFiniteSet(Cell) /\ {Head_, Tail_, NULL} \cap Cell = {}

VARIABLES
    links,      \* [next, prev]: the nodes' pointers
    live,       \* nodes allocated and not deleted
    items,      \* what the list should contain (ghost)
    broken      \* a pointer of a deleted node or of NULL was followed

listVars == <<links, live, items, broken>>

\* The constructor.
NewLinks ==
    [next |-> [p \in Place |-> IF p = Head_ THEN Tail_ ELSE NULL],
     prev |-> [p \in Place |-> IF p = Tail_ THEN Head_ ELSE NULL]]

ListInit == links = NewLinks /\ live = {} /\ items = <<>> /\ broken = FALSE
-----------------------------------------------------------------------------
\* The pointer operations.

\* Mutant of InsertAfter: the back pointer of the following node is not set.
InsertAfterOneWay(l, at, c) ==
    [next |-> [l.next EXCEPT ![c] = l.next[at], ![at] = c],
     prev |-> [l.prev EXCEPT ![c] = at]]

\* iterator::insertAfter, also push_front (at mHead).
InsertAfter(l, at, c) ==
    [next |-> [l.next EXCEPT ![c] = l.next[at], ![at] = c],
     prev |-> [l.prev EXCEPT ![c] = at, ![l.next[at]] = c]]

\* iterator::insertBefore: insertAfter on the node before.
InsertBefore(l, at, c) == InsertAfter(l, l.prev[at], c)

\* push_back links the node in front of mTail.
PushBackLinks(l, c) ==
    [next |-> [l.next EXCEPT ![c] = Tail_, ![l.prev[Tail_]] = c],
     prev |-> [l.prev EXCEPT ![c] = l.prev[Tail_], ![Tail_] = c]]

\* iterator::erase; the sentinels have a NULL pointer and stay.
EraseLinks(l, c) ==
    IF l.next[c] = NULL \/ l.prev[c] = NULL THEN l
    ELSE [next |-> [l.next EXCEPT ![l.prev[c]] = l.next[c]],
          prev |-> [l.prev EXCEPT ![l.next[c]] = l.prev[c]]]

\* pop_front and pop_back: a sentinel's pointer skips the node, then the
\* neighbour's points back to the sentinel.
PopFrontLinks(l) ==
    LET second == l.next[l.next[Head_]]
    IN  [next |-> [l.next EXCEPT ![Head_] = second], prev |-> [l.prev EXCEPT ![second] = Head_]]

PopBackLinks(l) ==
    LET second == l.prev[l.prev[Tail_]]
    IN  [next |-> [l.next EXCEPT ![second] = Tail_], prev |-> [l.prev EXCEPT ![Tail_] = second]]

\* Where k steps of an iterator lead (++ on NULL stays there); begin() is one
\* step from mHead, rend() one step back from mTail.
Steps(ptr, from) ==
    LET at[k \in 0..Cardinality(Place)] ==
          IF k = 0 THEN from ELSE IF at[k - 1] = NULL THEN NULL ELSE ptr[at[k - 1]]
    IN  at

\* The nodes between the sentinels in the order of a walk; size() counts them.
WalkFrom(ptr, from, to) ==
    LET at == Steps(ptr, from)
        ends == {k \in DOMAIN at : at[k] = to}
    IN  IF ends = {} THEN <<NULL>>
        ELSE [k \in 1..(CHOOSE k \in ends : \A j \in ends : k <= j) - 1 |-> at[k]]
-----------------------------------------------------------------------------
\* The operations.

Fresh(c) == c \in Cell \ live /\ live' = live \cup {c} /\ UNCHANGED broken
DeleteCells(C) == live' = live \ C /\ UNCHANGED broken

PushFront(c) == Fresh(c) /\ links' = InsertAfter(links, Head_, c) /\ items' = <<c>> \o items

PushBack(c) == Fresh(c) /\ links' = PushBackLinks(links, c) /\ items' = Append(items, c)

\* Nothing happens on the empty list.
PopFront ==
    /\ links.next[Head_] # Tail_
    /\ links' = PopFrontLinks(links)
    /\ DeleteCells({links.next[Head_]})
    /\ items' = Tail(items)

PopBack ==
    /\ links.prev[Tail_] # Head_
    /\ links' = PopBackLinks(links)
    /\ DeleteCells({links.prev[Tail_]})
    /\ items' = Front(items)

\* An insertion through an iterator at the i-th node, or at end() before it.
IteratorInserts(i, c) ==
    LET at == Steps(links.next, Head_)[i]
    IN  /\ at \in Place
        /\ Fresh(c)
        /\ \/ at # Tail_ /\ links' = InsertAfter(links, at, c) /\ items' = InsertAt(items, i + 1, c)
           \/ at # Head_ /\ links' = InsertBefore(links, at, c) /\ items' = InsertAt(items, i, c)

IteratorErases(i) ==
    LET at == Steps(links.next, Head_)[i]
    IN  /\ i > 0 /\ at \in Place
        /\ links' = EraseLinks(links, at)
        /\ DeleteCells({at})
        /\ items' = IF at = Tail_ THEN items ELSE RemoveAt(items, i)

\* clear(): begin().erase() until the list is empty.
Clear ==
    /\ items # <<>>
    /\ links' = [next |-> [links.next EXCEPT ![Head_] = Tail_],
                 prev |-> [links.prev EXCEPT ![Tail_] = Head_]]
    /\ DeleteCells(live)
    /\ items' = <<>>

\* A loop of the form  while ( i != end ) if ( match ) i = i.erase() else ++i,
\* as the queues, timers and listener lists use it, over the nodes in M: one
\* round, and the rounds for every node.
EraseRound(w, M) ==
    IF w.at \in {Tail_, NULL} THEN w
    ELSE [l |-> IF w.at \in M THEN EraseLinks(w.l, w.at) ELSE w.l, at |-> w.l.next[w.at]]

EraseRounds(l, n, M) ==
    LET w[k \in 0..n] == IF k = 0 THEN [l |-> l, at |-> l.next[Head_]] ELSE EraseRound(w[k - 1], M)
    IN  w[n]

EraseWhere(M) ==
    LET after == EraseRounds(links, Cardinality(live), M)
    IN  /\ M # {} /\ M \subseteq live
        /\ links' = after.l
        /\ broken' = (broken \/ after.at # Tail_)
        /\ live' = live \ M
        /\ items' = Erase(items, M)

ListNext ==
    \/ \E c \in Cell : PushFront(c) \/ PushBack(c)
    \/ PopFront \/ PopBack \/ Clear
    \/ \E i \in 0..Cardinality(Place) : IteratorErases(i) \/ \E c \in Cell : IteratorInserts(i, c)
    \/ \E M \in SUBSET live : EraseWhere(M)

ListSpec == ListInit /\ [][ListNext]_listVars
-----------------------------------------------------------------------------
\* Properties.

\* The two chains of pointers agree with each other and with the sequence of
\* calls: a walk forward finds the contents, a walk backward finds them
\* reversed, both end at the sentinels, and exactly those nodes are allocated.
ChainsAgree ==
    /\ WalkFrom(links.next, Head_, Tail_) = items
    /\ WalkFrom(links.prev, Tail_, Head_) = Reverse(items)
    /\ ToSet(items) = live
    /\ ~ broken
=============================================================================

---------------------------- MODULE LibraryProofs ---------------------------
(***************************************************************************)
(* Proofs about the selector and about the library's containers, which it  *)
(* and every other class keep their state in:                              *)
(*   Selector     for any threads, descriptors and listeners: the walk of  *)
(*                callListeners comes to stand on a deleted node only when *)
(*                a listener removes the node behind its own, and a thread *)
(*                about to block in poll polls what is registered;         *)
(*   Allocator    for any memory, requests and block sizes: the blocks     *)
(*                tile the memory;                                         *)
(*   Vector       for any values and capacities: the slots hold the        *)
(*                elements and nothing else is constructed;                *)
(*   LinkedList   for any cells: the two chains of pointers agree;         *)
(*   GCHeap       for any threads, blocks and sizes: the leak report of    *)
(*                the debug heap is what was not deleted.                  *)
(***************************************************************************)
EXTENDS Selector, Allocator, Containers, GCHeap, ListFacts, TLAPS

-----------------------------------------------------------------------------
(* The selector's loop *)

\* The program uses fewer descriptors than poll's array has places, one of which
\* is the pipe's.
RoomForAll == IsFiniteSet(Fd) /\ Cardinality(Fd) < kMaxPollFds

ListenerNode == [id : Nat, fd : Fd, events : SUBSET {"in", "out"}]
Queue == Seq({"update", "event", "shutdown"})
Pc == {"fill", "poll", "array", "walk", "callback", "events", "broadcast", "exited",
       "idle", "updating", "waiting", "woken", "joining"}

SelectorTypes ==
    /\ mList \in Seq(ListenerNode)
    /\ mQueue \in Queue
    /\ pipe \in Nat
    /\ pc \in [Client \cup {Sel} -> Pc]
    /\ ops \in Nat
    /\ gotEvent \in BOOLEAN /\ mUpdateFds \in BOOLEAN /\ mRunning \in BOOLEAN

-----------------------------------------------------------------------------
\* Lists.

LEMMA SetOfAppend ==
    ASSUME NEW S, NEW q \in Seq(S), NEW x \in S
    PROVE  /\ Append(q, x) \in Seq(S)
           /\ ToSet(Append(q, x)) = ToSet(q) \cup {x}
           /\ Len(Append(q, x)) = Len(q) + 1
           /\ \A i \in 1..Len(q) : Append(q, x)[i] = q[i]
           /\ Append(q, x)[Len(q) + 1] = x
           /\ Len(q) \in Nat
<1> DEFINE r == Append(q, x)
<1>1. /\ r \in Seq(S) /\ Len(r) = Len(q) + 1 /\ Len(q) \in Nat
      /\ \A i \in 1..Len(q) : r[i] = q[i]
      /\ r[Len(q) + 1] = x
  BY AppendProperties, LenProperties
<1>2. DOMAIN r = 1..(Len(q) + 1) /\ DOMAIN q = 1..Len(q)
  BY <1>1, LenProperties
<1> HIDE DEF r
<1>3. ToSet(r) = ToSet(q) \cup {x}
  <2>1. ASSUME NEW y \in ToSet(r) PROVE y \in ToSet(q) \cup {x}
    <3>1. PICK i \in 1..(Len(q) + 1) : y = r[i]
      BY <1>2 DEF ToSet
    <3>2. i = Len(q) + 1 \/ i \in 1..Len(q)
      BY <1>1
    <3> QED  BY <1>1, <1>2, <3>1, <3>2 DEF ToSet
  <2>2. ASSUME NEW y \in ToSet(q) PROVE y \in ToSet(r)
    <3>1. PICK i \in 1..Len(q) : y = q[i]
      BY <1>2 DEF ToSet
    <3>2. i \in DOMAIN r /\ r[i] = y
      BY <1>1, <1>2, <3>1
    <3> QED  BY <3>2 DEF ToSet
  <2>3. x \in ToSet(r)
    <3>1. Len(q) + 1 \in DOMAIN r
      BY <1>1, <1>2
    <3> QED  BY <1>1, <3>1 DEF ToSet
  <2> QED  BY <2>1, <2>2, <2>3
<1> QED
  BY <1>1, <1>3 DEF r

LEMMA SetOfErase ==
    ASSUME NEW S, NEW q \in Seq(S), NEW D
    PROVE  Erase(q, D) \in Seq(S) /\ ToSet(Erase(q, D)) = ToSet(q) \ D
<1> DEFINE r == Erase(q, D)
<1>1. r \in Seq(S)
  BY EraseOrder
<1>2. \A k \in 1..Len(r) : \E i \in 1..Len(q) : r[k] = q[i] /\ q[i] \notin D
  BY EraseOrder
<1>3. \A i \in 1..Len(q) : q[i] \notin D => \E k \in 1..Len(r) : r[k] = q[i]
  BY EraseOrder
<1> HIDE DEF r
<1>4. DOMAIN r = 1..Len(r) /\ DOMAIN q = 1..Len(q)
  BY <1>1, LenProperties
<1>5. ToSet(r) = ToSet(q) \ D
  BY <1>2, <1>3, <1>4 DEF ToSet
<1> QED
  BY <1>1, <1>5 DEF r

LEMMA SetOfList ==
    ASSUME NEW S, NEW q \in Seq(S)
    PROVE  /\ \A n : n \in ToSet(q) <=> \E i \in 1..Len(q) : n = q[i]
           /\ \A n \in ToSet(q) : n \in S
           /\ Len(q) \in Nat
<1>1. DOMAIN q = 1..Len(q) /\ Len(q) \in Nat
  BY LenProperties
<1> QED
  BY <1>1, ElementOfSeq DEF ToSet

-----------------------------------------------------------------------------
\* The walk over the listeners.

\* Nodes are in the order they were made in.
OldestFirst(q) == \A i, j \in 1..Len(q) : i < j => q[i].id < q[j].id

\* mLock is held through a walk and by a client up to its Wait.
LockIsHeld ==
    /\ pc[Sel] \in {"walk", "callback"} => mLock = Sel
    /\ \A c \in Client : pc[c] = "updating" => mLock = c

\* A listener that is called has been left behind by the iterator.
WalkIsAhead == pc[Sel] = "callback" /\ walk # None => walk # interface

WalkInv ==
    /\ SelectorTypes
    /\ LockIsHeld
    /\ OldestFirst(mList) /\ \A n \in ToSet(mList) : n.id <= ops
    /\ WalkIsAhead

\* The iterator's ++ comes to another node.
LEMMA AfterNode ==
    ASSUME NEW q \in Seq(ListenerNode), OldestFirst(q), NEW n \in ToSet(q)
    PROVE  \/ After(q, n.id) = None
           \/ \E m \in ToSet(q) : m.id = After(q, n.id) /\ m # n /\ m.id # n.id
<1> DEFINE at == {k \in 1..Len(q) - 1 : q[k].id = n.id}
           k == CHOOSE k \in at : TRUE
<1>0. Len(q) \in Nat /\ \A i \in 1..Len(q) : q[i] \in ListenerNode /\ q[i].id \in Nat
  <2>1. \A x \in ListenerNode : x.id \in Nat
    BY DEF ListenerNode
  <2>2. Len(q) \in Nat /\ \A i \in 1..Len(q) : q[i] \in ListenerNode
    BY SetOfList
  <2> QED  BY <2>1, <2>2
<1>1. CASE at = {}
  BY <1>1 DEF After
<1>2. CASE at # {}
  <2>1. k \in at
    BY <1>2
  <2>2. After(q, n.id) = q[k + 1].id
    BY <1>2 DEF After
  <2> HIDE DEF k
  <2>3. k \in 1..Len(q) /\ k + 1 \in 1..Len(q) /\ k < k + 1 /\ q[k].id = n.id
    BY <1>0, <2>1
  <2>4. q[k + 1].id # n.id
    BY <1>0, <2>3 DEF OldestFirst
  <2>5. q[k + 1] \in ToSet(q) /\ q[k + 1] # n
    BY <2>3, <2>4, SetOfList
  <2> QED  BY <2>2, <2>4, <2>5
<1> QED
  BY <1>1, <1>2

\* A new node.
LEMMA AddedNode ==
    ASSUME WalkInv, NEW r \in Reg, ops' = ops + 1,
           mList' = Append(mList, [id |-> ops + 1, fd |-> r.fd, events |-> r.events])
    PROVE  /\ mList' \in Seq(ListenerNode) /\ ops' \in Nat
           /\ OldestFirst(mList') /\ (\A n \in ToSet(mList') : n.id <= ops')
           /\ ToSet(mList) \subseteq ToSet(mList')
<1>0. PICK x : x = [id |-> ops + 1, fd |-> r.fd, events |-> r.events]
  OBVIOUS
<1>1. mList \in Seq(ListenerNode) /\ ops \in Nat /\ ops' = ops + 1
  BY DEF WalkInv, SelectorTypes
<1>2. x \in ListenerNode /\ x.id = ops + 1 /\ x.fd = r.fd
  BY <1>0, <1>1, SelectorAssumption DEF ListenerNode
<1>3. /\ mList' \in Seq(ListenerNode) /\ ToSet(mList') = ToSet(mList) \cup {x}
      /\ Len(mList') = Len(mList) + 1 /\ Len(mList) \in Nat
      /\ \A i \in 1..Len(mList) : mList'[i] = mList[i]
      /\ mList'[Len(mList) + 1] = x
  <2>1. mList' = Append(mList, x)
    BY <1>0
  <2> QED  BY <1>1, <1>2, <2>1, SetOfAppend
<1>4. \A n \in ToSet(mList) : n.id <= ops /\ n.id \in Nat
  <2>1. \A n \in ListenerNode : n.id \in Nat
    BY DEF ListenerNode
  <2>2. \A n \in ToSet(mList) : n \in ListenerNode
    BY <1>1, SetOfList
  <2> QED  BY <2>1, <2>2 DEF WalkInv
<1>5. \A i \in 1..Len(mList) : mList[i] \in ToSet(mList)
  BY <1>1, SetOfList
<1>6. \A n \in ToSet(mList') : n.id <= ops'
  BY <1>1, <1>2, <1>3, <1>4
<1>7. \A i \in 1..Len(mList') : i \in 1..Len(mList) \/ i = Len(mList) + 1
  BY <1>3
<1>8. OldestFirst(mList')
  <2> SUFFICES ASSUME NEW i \in 1..Len(mList'), NEW j \in 1..Len(mList'), i < j
               PROVE  mList'[i].id < mList'[j].id
    BY DEF OldestFirst
  <2>1. i \in 1..Len(mList)
    BY <1>3
  <2>2. CASE j \in 1..Len(mList)
    BY <1>3, <2>1, <2>2 DEF WalkInv, OldestFirst
  <2>3. CASE j = Len(mList) + 1
    <3>1. mList[i].id <= ops /\ mList[i].id \in Nat
      BY <1>4, <1>5, <2>1
    <3> QED  BY <1>1, <1>2, <1>3, <2>1, <2>3, <3>1
  <2> QED  BY <1>7, <2>2, <2>3
<1> QED
  BY <1>1, <1>3, <1>6, <1>8

\* Deleting nodes.
LEMMA RemovedNodes ==
    ASSUME WalkInv, NEW D, mList' = Erase(mList, D)
    PROVE  /\ mList' \in Seq(ListenerNode)
           /\ OldestFirst(mList')
           /\ ToSet(mList') = ToSet(mList) \ D
<1>1. mList \in Seq(ListenerNode) /\ OldestFirst(mList)
  BY DEF WalkInv, SelectorTypes
<1>2. Erase(mList, D) \in Seq(ListenerNode) /\ ToSet(Erase(mList, D)) = ToSet(mList) \ D
  BY <1>1, SetOfErase
<1>3. OldestFirst(Erase(mList, D))
  <2> SUFFICES ASSUME NEW k \in 1..Len(Erase(mList, D)), NEW m \in 1..Len(Erase(mList, D)), k < m
               PROVE  Erase(mList, D)[k].id < Erase(mList, D)[m].id
    BY DEF OldestFirst
  <2>1. \E i, j \in 1..Len(mList) : i < j /\ Erase(mList, D)[k] = mList[i] /\ Erase(mList, D)[m] = mList[j]
    BY <1>1, EraseKeepsOrder
  <2> QED  BY <1>1, <2>1 DEF OldestFirst
<1> QED
  BY <1>2, <1>3

-----------------------------------------------------------------------------
\* Who runs a step; the selector's thread is no client.
LEMMA SelIsNoClient == Sel \notin Client /\ Sel # None /\ \A c \in Client : c # Sel /\ c # None
  BY SelectorAssumption DEF Sel

\* SendEvent on the queue.
LEMMA SentEvent ==
    ASSUME mQueue \in Queue, pipe \in Nat, NEW ev \in {"update", "event", "shutdown"}, Send(ev)
    PROVE  /\ mQueue' \in Queue /\ pipe' \in Nat /\ pipe' = pipe + 1
           /\ Len(mQueue') = Len(mQueue) + 1 /\ Len(mQueue) \in Nat
           /\ ToSet(mQueue') = ToSet(mQueue) \cup {ev}
<1> DEFINE E == {"update", "event", "shutdown"}
<1>0. mQueue \in Seq(E) /\ Len(mQueue) \in Nat
  BY LenProperties DEF Queue
<1>1. pipe' = pipe + 1 /\ pipe' \in Nat
  BY DEF Send
<1>2. CASE ev # "shutdown"
  <2>1. mQueue' = Append(mQueue, ev)
    BY <1>2 DEF Send
  <2> HIDE DEF E
  <2>2. ev \in E
    BY DEF E
  <2>3. Append(mQueue, ev) \in Seq(E) /\ ToSet(Append(mQueue, ev)) = ToSet(mQueue) \cup {ev}
        /\ Len(Append(mQueue, ev)) = Len(mQueue) + 1
    BY <1>0, <2>2, SetOfAppend
  <2> QED  BY <1>0, <1>1, <2>1, <2>3 DEF Queue, E
<1>3. CASE ev = "shutdown"
  <2> DEFINE q == <<ev>> \o mQueue
  <2>1. mQueue' = q
    BY <1>3 DEF Send
  <2>2. <<ev>> \in Seq(E) /\ Len(<<ev>>) = 1 /\ <<ev>>[1] = ev
    OBVIOUS
  <2>3. /\ q \in Seq(E) /\ Len(q) = 1 + Len(mQueue)
        /\ \A i \in 1..(1 + Len(mQueue)) : q[i] = IF i <= 1 THEN <<ev>>[i] ELSE mQueue[i - 1]
    <3> HIDE DEF E
    <3> QED  BY <1>0, <2>2, ConcatProperties
  <2> HIDE DEF q, E
  <2>4. ToSet(q) = ToSet(mQueue) \cup {ev}
    <3>0. /\ \A n : n \in ToSet(q) <=> \E i \in 1..Len(q) : n = q[i]
          /\ \A n : n \in ToSet(mQueue) <=> \E i \in 1..Len(mQueue) : n = mQueue[i]
      BY <1>0, <2>3, SetOfList
    <3>1. ASSUME NEW n \in ToSet(q) PROVE n \in ToSet(mQueue) \cup {ev}
      <4>1. PICK i \in 1..(1 + Len(mQueue)) : n = q[i]
        BY <2>3, <3>0
      <4>2. CASE i = 1
        BY <1>0, <2>2, <2>3, <4>1, <4>2
      <4>3. CASE i # 1
        <5>1. i - 1 \in 1..Len(mQueue) /\ n = mQueue[i - 1]
          BY <1>0, <2>3, <4>1, <4>3
        <5> QED  BY <3>0, <5>1
      <4> QED  BY <4>2, <4>3
    <3>2. ASSUME NEW n \in ToSet(mQueue) PROVE n \in ToSet(q)
      <4>1. PICK i \in 1..Len(mQueue) : n = mQueue[i]
        BY <3>0
      <4>2. i + 1 \in 1..Len(q) /\ q[i + 1] = mQueue[i]
        BY <1>0, <2>3
      <4> QED  BY <3>0, <4>1, <4>2
    <3>3. ev \in ToSet(q)
      <4>1. 1 \in 1..Len(q) /\ q[1] = ev
        BY <1>0, <2>2, <2>3
      <4> QED  BY <3>0, <4>1
    <3> QED  BY <3>1, <3>2, <3>3
  <2> QED  BY <1>0, <1>1, <2>1, <2>3, <2>4 DEF Queue, E
<1> QED
  BY <1>2, <1>3

\* The event that HandleEvent takes: the queue loses it, or all with a shutdown.
LEMMA TakenEvent ==
    ASSUME mQueue \in Queue, mQueue # <<>>
    PROVE  /\ Head(mQueue) \in {"update", "event", "shutdown"} /\ Head(mQueue) # None
           /\ Tail(mQueue) \in Queue /\ Len(Tail(mQueue)) = Len(mQueue) - 1 /\ Len(mQueue) \in Nat \ {0}
           /\ ToSet(mQueue) = ToSet(Tail(mQueue)) \cup {Head(mQueue)}
<1> DEFINE E == {"update", "event", "shutdown"}
<1>0. mQueue \in Seq(E)
  BY DEF Queue
<1>1. Head(mQueue) \in E /\ Head(mQueue) # None
  <2>1. Head(mQueue) \in E
    BY <1>0, EmptySeq, HeadTailProperties
  <2> QED  BY <2>1, SelectorAssumption
<1> HIDE DEF E
<1>2. /\ Tail(mQueue) \in Seq(E) /\ Len(Tail(mQueue)) = Len(mQueue) - 1
      /\ \A i \in 1..Len(Tail(mQueue)) : Tail(mQueue)[i] = mQueue[i + 1]
      /\ Len(mQueue) \in Nat \ {0}
  BY <1>0, EmptySeq, HeadTailProperties, LenProperties
<1>3. Head(mQueue) = mQueue[1]
  BY <1>0
<1>4. /\ \A n : n \in ToSet(mQueue) <=> \E i \in 1..Len(mQueue) : n = mQueue[i]
      /\ \A n : n \in ToSet(Tail(mQueue)) <=> \E i \in 1..Len(Tail(mQueue)) : n = Tail(mQueue)[i]
  BY <1>0, <1>2, SetOfList, ZenonT(60)
<1>5. ASSUME NEW n \in ToSet(mQueue) PROVE n \in ToSet(Tail(mQueue)) \cup {Head(mQueue)}
  <2>1. PICK i \in 1..Len(mQueue) : n = mQueue[i]
    BY <1>4
  <2>2. CASE i = 1
    BY <1>3, <2>1, <2>2
  <2>3. CASE i # 1
    <3>1. i - 1 \in 1..Len(Tail(mQueue)) /\ i - 1 + 1 = i
      BY <1>2, <2>3
    <3> QED  BY <1>2, <1>4, <2>1, <3>1
  <2> QED  BY <2>2, <2>3
<1>6. ASSUME NEW n \in ToSet(Tail(mQueue)) PROVE n \in ToSet(mQueue)
  <2>1. PICK i \in 1..Len(Tail(mQueue)) : n = Tail(mQueue)[i]
    BY <1>4
  <2>2. i + 1 \in 1..Len(mQueue) /\ n = mQueue[i + 1]
    BY <1>2, <2>1
  <2> QED  BY <1>4, <2>2
<1>7. Head(mQueue) \in ToSet(mQueue)
  <2>1. 1 \in 1..Len(mQueue)
    BY <1>2
  <2> QED  BY <1>3, <1>4, <2>1
<1> QED
  BY <1>1, <1>2, <1>5, <1>6, <1>7 DEF E, Queue

-----------------------------------------------------------------------------
\* A byte is written for every event that is sent.
Wakes ==
    \/ Len(mQueue') = Len(mQueue) /\ pipe' = pipe
    \/ Len(mQueue') = Len(mQueue) + 1 /\ pipe' = pipe + 1

\* A caller of updateListeners has sent its update and has the lock, or the
\* selector's thread has left its loop.
LEMMA UpdateSent ==
    ASSUME SelectorTypes, NEW c \in Client, UpdateListeners(c), mLock = None
    PROVE  /\ mQueue' \in Queue /\ pipe' \in Nat /\ pc' \in [Client \cup {Sel} -> Pc]
           /\ pc'[Sel] = pc[Sel]
           /\ ToSet(mQueue) \subseteq ToSet(mQueue')
           /\ mRunning => "update" \in ToSet(mQueue')
           /\ Wakes
           /\ \A o \in Client : pc'[o] = "updating" => pc[o] = "updating" \/ mLock' = o
           /\ mLock' # mLock => mLock' = c
<1>0. mQueue \in Queue /\ pipe \in Nat /\ pc \in [Client \cup {Sel} -> Pc] /\ mRunning \in BOOLEAN
  BY DEF SelectorTypes
<1>1. CASE mRunning
  <2>1. Send("update") /\ mLock' = c /\ pc' = [pc EXCEPT ![c] = "updating"]
    BY <1>1 DEF UpdateListeners
  <2>2. /\ mQueue' \in Queue /\ pipe' \in Nat /\ pipe' = pipe + 1
        /\ Len(mQueue') = Len(mQueue) + 1 /\ Len(mQueue) \in Nat
        /\ ToSet(mQueue') = ToSet(mQueue) \cup {"update"}
    BY <1>0, <2>1, SentEvent
  <2>3. pc' \in [Client \cup {Sel} -> Pc] /\ pc'[Sel] = pc[Sel]
    BY <1>0, <2>1, SelIsNoClient DEF Pc
  <2>4. \A o \in Client : pc'[o] = "updating" => pc[o] = "updating" \/ mLock' = o
    BY <1>0, <2>1
  <2> QED  BY <1>0, <2>1, <2>2, <2>3, <2>4 DEF Wakes
<1>2. CASE ~ mRunning
  <2>1. UNCHANGED <<mQueue, pipe, mLock, pc>>
    BY <1>2 DEF UpdateListeners
  <2> QED  BY <1>0, <1>2, <2>1 DEF Wakes
<1> QED
  BY <1>1, <1>2

\* The list after any step.
LEMMA ListTypes ==
    ASSUME SelectorTypes, [Next]_vars
    PROVE  mList' \in Seq(ListenerNode) /\ ops' \in Nat
<1>0. mList \in Seq(ListenerNode) /\ ops \in Nat
  BY DEF SelectorTypes
<1>1. ASSUME NEW r \in Reg, mList' = Append(mList, [id |-> ops + 1, fd |-> r.fd, events |-> r.events])
      PROVE  mList' \in Seq(ListenerNode)
  <2>1. PICK x : x = [id |-> ops + 1, fd |-> r.fd, events |-> r.events]
    OBVIOUS
  <2>2. x \in ListenerNode
    BY <1>0, <2>1, SelectorAssumption DEF ListenerNode
  <2> QED  BY <1>0, <1>1, <2>1, <2>2, SetOfAppend
<1>2. ASSUME NEW D, mList' = Erase(mList, D) PROVE mList' \in Seq(ListenerNode)
  BY <1>0, <1>2, SetOfErase
<1>3. CASE UNCHANGED <<mList, ops>>
  BY <1>0, <1>3
<1>4. ASSUME NEW c \in Client, NEW r \in Reg, AddListener(c, r) PROVE mList' \in Seq(ListenerNode) /\ ops' \in Nat
  BY <1>0, <1>1, <1>4 DEF AddListener
<1>5. ASSUME NEW c \in Client, NEW fd \in Fd, RemoveListener(c, fd) PROVE mList' \in Seq(ListenerNode) /\ ops' \in Nat
  BY <1>0, <1>2, <1>5 DEF RemoveListener, Without
<1>6. ASSUME NEW r \in Reg, CallbackAdds(r) PROVE mList' \in Seq(ListenerNode) /\ ops' \in Nat
  BY <1>0, <1>1, <1>6 DEF CallbackAdds
<1>7. ASSUME NEW fd \in Fd, CallbackRemoves(fd) PROVE mList' \in Seq(ListenerNode) /\ ops' \in Nat
  BY <1>0, <1>2, <1>7 DEF CallbackRemoves, Without
<1>8. ASSUME NEW n \in Node(walk), CallListener(n) PROVE mList' \in Seq(ListenerNode) /\ ops' \in Nat
  BY <1>0, <1>2, <1>8 DEF CallListener
<1>9. ASSUME NEW c \in Client, ClientStep(c) \/ SendEvent(c) \/ Shutdown(c) PROVE mList' = mList /\ ops' \in Nat
  BY <1>0, <1>9 DEF ClientStep, Wait, Return, Join, SendEvent, Shutdown
<1>10. ASSUME Fill \/ Poll \/ PollFails \/ EnterCallListeners \/ EndArray \/ LeaveCallListeners \/ CallbackReturns
                   \/ HandleEvent \/ Broadcast
       PROVE  UNCHANGED <<mList, ops>>
  BY <1>10 DEF Fill, Poll, PollFails, EnterCallListeners, EndArray, LeaveCallListeners, CallbackReturns,
               HandleEvent, Broadcast
<1>11. ASSUME NEW n \in Node(walk), SkipNode(n) PROVE UNCHANGED <<mList, ops>>
  BY <1>11 DEF SkipNode
<1>12. CASE UNCHANGED vars
  BY <1>3, <1>12 DEF vars
<1> QED
  BY <1>0, <1>3, <1>4, <1>5, <1>6, <1>7, <1>8, <1>9, <1>10, <1>11, <1>12 DEF Next, SelectorStep

\* What the selector's own steps do to the pc.
LEMMA WentTo ==
    ASSUME SelectorTypes, NEW p \in Pc, Goto(p)
    PROVE  /\ pc' \in [Client \cup {Sel} -> Pc] /\ pc'[Sel] = p
           /\ \A c \in Client : pc'[c] = pc[c]
  BY SelIsNoClient DEF SelectorTypes, Goto

\* The rest of the types.
LEMMA TypesStep ==
    ASSUME SelectorTypes, [Next]_vars
    PROVE  SelectorTypes'
<1>0. /\ mQueue \in Queue /\ pipe \in Nat /\ pc \in [Client \cup {Sel} -> Pc]
      /\ gotEvent \in BOOLEAN /\ mUpdateFds \in BOOLEAN /\ mRunning \in BOOLEAN
  BY DEF SelectorTypes
<1> DEFINE T == /\ mQueue' \in Queue /\ pipe' \in Nat /\ pc' \in [Client \cup {Sel} -> Pc]
                /\ gotEvent' \in BOOLEAN /\ mUpdateFds' \in BOOLEAN /\ mRunning' \in BOOLEAN
<1> SUFFICES T
  BY ListTypes DEF SelectorTypes
<1>1. CASE UNCHANGED vars
  BY <1>0, <1>1 DEF vars
<1>2. ASSUME NEW c \in Client, NEW r \in Reg, AddListener(c, r) PROVE T
  <2>1. UpdateListeners(c) /\ mLock = None /\ UNCHANGED <<gotEvent, mUpdateFds, mRunning>>
    BY <1>2 DEF AddListener
  <2> QED  BY <1>0, <2>1, UpdateSent
<1>3. ASSUME NEW c \in Client, NEW fd \in Fd, RemoveListener(c, fd) PROVE T
  <2>1. /\ mLock = None /\ UNCHANGED <<gotEvent, mUpdateFds, mRunning>>
        /\ UpdateListeners(c) \/ UNCHANGED <<mQueue, pipe, mLock, pc>>
    BY <1>3 DEF RemoveListener
  <2> QED  BY <1>0, <2>1, UpdateSent
<1>4. ASSUME NEW c \in Client, ClientStep(c) PROVE T
  BY <1>0, <1>4 DEF ClientStep, Wait, Return, Join, Pc
<1>5. ASSUME NEW c \in Client, SendEvent(c) PROVE T
  <2>1. Send("event") /\ UNCHANGED <<gotEvent, mUpdateFds, mRunning, pc>>
    BY <1>5 DEF SendEvent
  <2> QED  BY <1>0, <2>1, SentEvent
<1>6. ASSUME NEW c \in Client, Shutdown(c) PROVE T
  <2>1. Send("shutdown") /\ UNCHANGED <<gotEvent, mUpdateFds, mRunning>> /\ pc' = [pc EXCEPT ![c] = "joining"]
    BY <1>6 DEF Shutdown
  <2>2. pc' \in [Client \cup {Sel} -> Pc]
    BY <1>0, <2>1 DEF Pc
  <2> QED  BY <1>0, <2>1, <2>2, SentEvent
<1>7. CASE Fill
  BY <1>0, <1>7, WentTo DEF Fill, Pc
<1>8. CASE Poll
  BY <1>0, <1>8, WentTo DEF Poll, Pc
<1>9. CASE PollFails \/ EnterCallListeners \/ EndArray \/ LeaveCallListeners \/ CallbackReturns
  BY <1>0, <1>9, WentTo DEF PollFails, EnterCallListeners, EndArray, LeaveCallListeners, CallbackReturns, Pc
<1>10. ASSUME NEW n \in Node(walk), CallListener(n) \/ SkipNode(n) PROVE T
  BY <1>0, <1>10, WentTo DEF CallListener, SkipNode, Pc
<1>11. ASSUME NEW r \in Reg, CallbackAdds(r) PROVE T
  BY <1>0, <1>11 DEF CallbackAdds
<1>12. ASSUME NEW fd \in Fd, CallbackRemoves(fd) PROVE T
  BY <1>0, <1>12 DEF CallbackRemoves
<1>13. CASE HandleEvent
  <2>1. mQueue' \in Queue
    <3>1. CASE gotEvent /\ mQueue # <<>>
      <4>1. <<>> \in Queue /\ Tail(mQueue) \in Queue /\ Head(mQueue) # None
        BY <1>0, <3>1, TakenEvent DEF Queue
      <4> QED  BY <1>13, <3>1, <4>1 DEF HandleEvent
    <3>2. CASE ~(gotEvent /\ mQueue # <<>>)
      <4>1. mQueue' = mQueue
        BY <1>13, <3>2 DEF HandleEvent
      <4> QED  BY <1>0, <4>1
    <3> QED  BY <3>1, <3>2
  <2>2. gotEvent' \in BOOLEAN /\ mUpdateFds' \in BOOLEAN /\ mRunning' \in BOOLEAN /\ pipe' = pipe
    BY <1>0, <1>13 DEF HandleEvent
  <2>3. pc' \in [Client \cup {Sel} -> Pc]
    <3>1. Goto("fill") \/ Goto("broadcast")
      BY <1>13, <2>2 DEF HandleEvent
    <3> QED  BY <3>1, WentTo DEF Pc
  <2> QED  BY <1>0, <2>1, <2>2, <2>3
<1>14. CASE Broadcast
  <2>1. pc' \in [Client \cup {Sel} -> Pc]
    BY <1>0, <1>14 DEF Broadcast, Pc
  <2> QED  BY <1>0, <1>14, <2>1 DEF Broadcast
<1> QED
  BY <1>1, <1>2, <1>3, <1>4, <1>5, <1>6, <1>7, <1>8, <1>9, <1>10, <1>11, <1>12, <1>13, <1>14
     DEF Next, SelectorStep

-----------------------------------------------------------------------------
\* The nodes keep numbers of calls that were made.
LEMMA OlderNodes ==
    ASSUME WalkInv, ToSet(mList') \subseteq ToSet(mList), ops' = ops \/ ops' = ops + 1
    PROVE  \A n \in ToSet(mList') : n.id <= ops'
<1>1. mList \in Seq(ListenerNode) /\ ops \in Nat
  BY DEF WalkInv, SelectorTypes
<1>2. \A n \in ToSet(mList) : n.id <= ops /\ n.id \in Nat
  <2>1. \A n \in ListenerNode : n.id \in Nat
    BY DEF ListenerNode
  <2>2. \A n \in ToSet(mList) : n \in ListenerNode
    BY <1>1, SetOfList
  <2> QED  BY <2>1, <2>2 DEF WalkInv
<1> QED
  BY <1>1, <1>2

\* Steps after which no listener is being called.
LEMMA OutsideWalk ==
    ASSUME WalkInv, [Next]_vars, UNCHANGED <<mList, ops>>, pc'[Sel] # "callback", LockIsHeld'
    PROVE  WalkInv'
<1>1. SelectorTypes'
  BY TypesStep DEF WalkInv
<1> QED
  BY <1>1 DEF WalkInv, OldestFirst, WalkIsAhead

\* Steps of a client that leave the list alone.
LEMMA BesideWalk ==
    ASSUME WalkInv, [Next]_vars, UNCHANGED <<mList, walk, interface, mLock>>, pc'[Sel] = pc[Sel],
           ops' = ops \/ ops' = ops + 1,
           \A c \in Client : pc'[c] = "updating" => pc[c] = "updating"
    PROVE  WalkInv'
<1>1. SelectorTypes' /\ SelectorTypes
  BY TypesStep DEF WalkInv
<1>2. LockIsHeld'
  BY DEF LockIsHeld, WalkInv
<1>3. WalkIsAhead'
  BY DEF WalkInv, WalkIsAhead
<1>4. OldestFirst(mList')
  BY DEF WalkInv
<1>5. \A n \in ToSet(mList') : n.id <= ops'
  BY <1>1, OlderNodes
<1> QED
  BY <1>1, <1>2, <1>3, <1>4, <1>5 DEF WalkInv

\* addListener and removeListener by a client, which has the lock.
LEMMA ClientChanges ==
    ASSUME WalkInv, NEW c \in Client,
           [Next]_vars,
           \/ \E r \in Reg : AddListener(c, r)
           \/ \E fd \in Fd : RemoveListener(c, fd)
    PROVE  WalkInv'
<1>0. /\ SelectorTypes /\ SelectorTypes' /\ mLock = None
      /\ UpdateListeners(c) \/ UNCHANGED <<mQueue, pipe, mLock, pc>>
  BY TypesStep DEF WalkInv, AddListener, RemoveListener
<1>1. pc[Sel] \notin {"walk", "callback"} /\ \A o \in Client : pc[o] # "updating"
  BY <1>0, SelIsNoClient DEF WalkInv, LockIsHeld
<1>2. pc'[Sel] = pc[Sel] /\ \A o \in Client : pc'[o] = "updating" => mLock' = o
  BY <1>0, <1>1, UpdateSent
<1>3. LockIsHeld'
  BY <1>1, <1>2 DEF LockIsHeld
<1>4. OldestFirst(mList') /\ (\A n \in ToSet(mList') : n.id <= ops')
  <2>1. CASE \E r \in Reg : AddListener(c, r)
    <3>1. PICK r \in Reg : AddListener(c, r)
      BY <2>1
    <3> QED  BY <3>1, AddedNode DEF AddListener
  <2>2. CASE \E fd \in Fd : RemoveListener(c, fd)
    <3>1. PICK fd \in Fd : RemoveListener(c, fd)
      BY <2>2
    <3>2. mList' = Erase(mList, {n \in ToSet(mList) : n.fd = fd}) /\ ops' = ops + 1
      BY <3>1 DEF RemoveListener, Without
    <3>3. OldestFirst(mList') /\ ToSet(mList') \subseteq ToSet(mList)
      BY <3>2, RemovedNodes
    <3> QED  BY <3>2, <3>3, OlderNodes
  <2> QED  BY <2>1, <2>2
<1> QED
  BY <1>0, <1>1, <1>2, <1>3, <1>4 DEF WalkInv, WalkIsAhead

\* A call of a listener deletes its node at most.
LEMMA CalledNode ==
    ASSUME WalkInv, NEW n \in Node(walk), CallListener(n)
    PROVE  /\ OldestFirst(mList') /\ ToSet(mList') \subseteq ToSet(mList)
           /\ \A m \in ToSet(mList) : m # n => m \in ToSet(mList')
<1>1. CASE mList' = mList
  BY <1>1 DEF WalkInv
<1>2. CASE mList' = Erase(mList, {n})
  <2>1. PICK D : D = {n}
    OBVIOUS
  <2>2. mList' = Erase(mList, D)
    BY <1>2, <2>1
  <2>3. OldestFirst(mList') /\ ToSet(mList') = ToSet(mList) \ D
    BY <2>2, RemovedNodes
  <2> QED  BY <2>1, <2>3
<1> QED
  BY <1>1, <1>2 DEF CallListener

\* Where the iterator is after it left a node.
LEMMA NextNode ==
    ASSUME WalkInv, NEW n \in Node(walk), walk' = After(mList, n.id)
    PROVE  /\ n \in ToSet(mList)
           /\ walk' = None \/ \E m \in ToSet(mList) : m.id = walk' /\ m # n /\ walk' # n.id
<1>1. n \in ToSet(mList)
  BY DEF Node
<1>2. mList \in Seq(ListenerNode) /\ OldestFirst(mList)
  BY DEF WalkInv, SelectorTypes
<1>3. \/ After(mList, n.id) = None
      \/ \E m \in ToSet(mList) : m.id = After(mList, n.id) /\ m # n /\ m.id # n.id
  BY <1>1, <1>2, AfterNode
<1> QED
  BY <1>1, <1>3

\* callListeners and the listeners it calls.
LEMMA InsideWalk ==
    ASSUME WalkInv, [Next]_vars, pc[Sel] \in {"walk", "callback"},
           \/ \E n \in Node(walk) : CallListener(n) \/ SkipNode(n)
           \/ CallbackReturns
           \/ \E r \in Reg : CallbackAdds(r)
           \/ \E fd \in Fd : CallbackRemoves(fd)
    PROVE  WalkInv'
<1>0. SelectorTypes /\ SelectorTypes' /\ mLock = Sel /\ ops \in Nat
  BY TypesStep DEF WalkInv, LockIsHeld, SelectorTypes
<1>1. LockIsHeld'
  <2>1. mLock' = mLock
    BY DEF CallListener, SkipNode, CallbackReturns, CallbackAdds, CallbackRemoves
  <2>2. \A c \in Client : pc'[c] = pc[c]
    BY <1>0, WentTo DEF CallListener, SkipNode, CallbackReturns, CallbackAdds, CallbackRemoves, Pc
  <2> QED  BY <1>0, <2>1, <2>2 DEF WalkInv, LockIsHeld
<1>2. ASSUME NEW n \in Node(walk), CallListener(n) PROVE WalkInv'
  <2>1. walk' = After(mList, n.id) /\ interface' = n.id /\ ops' = ops
    BY <1>2 DEF CallListener
  <2>2. OldestFirst(mList') /\ ToSet(mList') \subseteq ToSet(mList)
    BY <1>2, CalledNode
  <2>3. \A m \in ToSet(mList') : m.id <= ops'
    BY <2>1, <2>2, OlderNodes
  <2>4. WalkIsAhead'
    <3>1. n \in ToSet(mList)
          /\ (walk' = None \/ \E m \in ToSet(mList) : m.id = walk' /\ m # n /\ walk' # n.id)
      BY <2>1, NextNode
    <3> QED  BY <2>1, <3>1 DEF WalkIsAhead
  <2> QED  BY <1>0, <1>1, <2>2, <2>3, <2>4 DEF WalkInv
<1>3. ASSUME NEW n \in Node(walk), SkipNode(n) PROVE WalkInv'
  <2>1. UNCHANGED <<mList, pc, ops>> /\ pc[Sel] = "walk"
    BY <1>3 DEF SkipNode
  <2> QED  BY <1>1, <2>1, OutsideWalk
<1>4. CASE CallbackReturns
  <2>1. UNCHANGED <<mList, ops>>
    BY <1>4 DEF CallbackReturns
  <2>2. pc'[Sel] = "walk"
    BY <1>0, <1>4, WentTo DEF CallbackReturns, Pc
  <2> QED  BY <1>1, <2>1, <2>2, OutsideWalk
<1>5. ASSUME NEW r \in Reg, CallbackAdds(r) PROVE WalkInv'
  <2>1. OldestFirst(mList') /\ (\A n \in ToSet(mList') : n.id <= ops')
    BY <1>5, AddedNode DEF CallbackAdds
  <2>2. WalkIsAhead'
    BY <1>5 DEF CallbackAdds, WalkInv, WalkIsAhead
  <2> QED  BY <1>0, <1>1, <2>1, <2>2 DEF WalkInv
<1>6. ASSUME NEW fd \in Fd, CallbackRemoves(fd) PROVE WalkInv'
  <2>1. /\ UNCHANGED <<pc, walk, interface>> /\ ops' = ops + 1
        /\ mList' = Erase(mList, {n \in ToSet(mList) : n.fd = fd})
    BY <1>6 DEF CallbackRemoves, Without
  <2>2. OldestFirst(mList') /\ ToSet(mList') \subseteq ToSet(mList)
    BY <2>1, RemovedNodes
  <2>3. \A n \in ToSet(mList') : n.id <= ops'
    BY <2>1, <2>2, OlderNodes
  <2>4. WalkIsAhead'
    BY <2>1 DEF WalkInv, WalkIsAhead
  <2> QED  BY <1>0, <1>1, <2>2, <2>3, <2>4 DEF WalkInv
<1> QED
  BY <1>2, <1>3, <1>4, <1>5, <1>6

LEMMA WalkStep ==
    ASSUME WalkInv, [Next]_vars
    PROVE  WalkInv'
<1>0. SelectorTypes /\ LockIsHeld /\ mList \in Seq(ListenerNode)
  BY DEF WalkInv, SelectorTypes
<1>1. CASE UNCHANGED vars
  BY <1>1, BesideWalk DEF vars
<1>2. ASSUME NEW c \in Client, Wait(c) PROVE WalkInv'
  <2>1. pc[c] = "updating" /\ pc' = [pc EXCEPT ![c] = "waiting"] /\ UNCHANGED <<mList, ops>>
    BY <1>2 DEF Wait
  <2>2. mLock = c /\ pc[Sel] \notin {"walk", "callback"}
    BY <1>0, <2>1, SelIsNoClient DEF LockIsHeld
  <2>3. pc'[Sel] = pc[Sel] /\ \A o \in Client : pc'[o] = "updating" => pc[o] = "updating" /\ o # c
    BY <1>0, <2>1, SelIsNoClient DEF SelectorTypes
  <2>4. LockIsHeld'
    BY <1>0, <2>2, <2>3 DEF LockIsHeld
  <2> QED  BY <2>1, <2>2, <2>3, <2>4, OutsideWalk
<1>3. ASSUME NEW c \in Client, Return(c) \/ Join(c) \/ SendEvent(c) \/ Shutdown(c) PROVE WalkInv'
  <2>1. /\ UNCHANGED <<mList, walk, interface, mLock>> /\ pc'[Sel] = pc[Sel]
        /\ \A o \in Client : pc'[o] = "updating" => pc[o] = "updating"
    BY <1>0, <1>3, SelIsNoClient DEF Return, Join, SendEvent, Shutdown, SelectorTypes
  <2>2. ops' = ops \/ ops' = ops + 1
    BY <1>3 DEF Return, Join, SendEvent, Shutdown
  <2> QED  BY <2>1, <2>2, BesideWalk
<1>4. ASSUME NEW c \in Client, (\E r \in Reg : AddListener(c, r)) \/ (\E fd \in Fd : RemoveListener(c, fd))
      PROVE  WalkInv'
  BY <1>4, ClientChanges
<1>5. CASE Fill \/ Poll \/ PollFails \/ EndArray \/ HandleEvent
  <2>1. UNCHANGED <<mList, ops, mLock>>
    BY <1>5 DEF Fill, Poll, PollFails, EndArray, HandleEvent
  <2>2. PICK p \in {"poll", "array", "fill", "broadcast", "events"} : Goto(p)
    BY <1>5 DEF Fill, Poll, PollFails, EndArray, HandleEvent
  <2>3. pc'[Sel] = p /\ \A c \in Client : pc'[c] = pc[c]
    BY <1>0, <2>2, WentTo DEF Pc
  <2>4. LockIsHeld'
    BY <1>0, <2>1, <2>3 DEF LockIsHeld
  <2> QED  BY <2>1, <2>3, <2>4, OutsideWalk
<1>6. CASE Broadcast
  <2>1. UNCHANGED <<mList, ops, mLock>>
    BY <1>6 DEF Broadcast
  <2>2. pc'[Sel] \in {"poll", "exited"} /\ \A c \in Client : pc'[c] = "updating" => pc[c] = "updating"
    BY <1>0, <1>6, SelIsNoClient DEF Broadcast, SelectorTypes
  <2>3. LockIsHeld'
    BY <1>0, <2>1, <2>2 DEF LockIsHeld
  <2> QED  BY <2>1, <2>2, <2>3, OutsideWalk
<1>7. CASE LeaveCallListeners
  <2>1. pc[Sel] = "walk" /\ UNCHANGED <<mList, ops>> /\ Goto("array")
    BY <1>7 DEF LeaveCallListeners
  <2>2. pc'[Sel] = "array" /\ \A c \in Client : pc'[c] = pc[c]
    BY <1>0, <2>1, WentTo DEF Pc
  <2>3. \A c \in Client : pc[c] # "updating"
    BY <1>0, <2>1, SelIsNoClient DEF LockIsHeld
  <2>4. LockIsHeld'
    BY <2>2, <2>3 DEF LockIsHeld
  <2> QED  BY <2>1, <2>2, <2>4, OutsideWalk
<1>8. CASE EnterCallListeners
  <2>1. mLock = None /\ mLock' = Sel /\ Goto("walk") /\ UNCHANGED <<mList, ops>>
    BY <1>8 DEF EnterCallListeners
  <2>2. pc'[Sel] = "walk" /\ \A c \in Client : pc'[c] = pc[c]
    BY <1>0, <2>1, WentTo DEF Pc
  <2>3. \A c \in Client : pc[c] # "updating"
    BY <1>0, <2>1, SelIsNoClient DEF LockIsHeld
  <2>4. LockIsHeld'
    BY <2>1, <2>2, <2>3 DEF LockIsHeld
  <2> QED  BY <2>1, <2>2, <2>4, OutsideWalk
<1>9. ASSUME \/ \E n \in Node(walk) : CallListener(n) \/ SkipNode(n)
             \/ CallbackReturns
             \/ \E r \in Reg : CallbackAdds(r)
             \/ \E fd \in Fd : CallbackRemoves(fd)
      PROVE  WalkInv'
  <2>1. pc[Sel] \in {"walk", "callback"}
    BY <1>9 DEF CallListener, SkipNode, CallbackReturns, CallbackAdds, CallbackRemoves
  <2> QED  BY <1>9, <2>1, InsideWalk
<1> QED
  BY <1>1, <1>2, <1>3, <1>4, <1>5, <1>6, <1>7, <1>8, <1>9 DEF Next, SelectorStep, ClientStep

\* A listener removes the node behind its own.
RemovesNext ==
    \E fd \in Fd : CallbackRemoves(fd) /\ \E n \in Node(walk) : n.fd = fd /\ n.id # interface

LEMMA DanglingStep ==
    ASSUME WalkInv, [Next]_vars, Dangling', ~ Dangling
    PROVE  RemovesNext
<1>0. SelectorTypes /\ LockIsHeld /\ mList \in Seq(ListenerNode)
  BY DEF WalkInv, SelectorTypes
<1>1. pc'[Sel] \in {"walk", "callback"} /\ walk' # None /\ \A n \in ToSet(mList') : n.id # walk'
  BY DEF Dangling, Node
<1>2. pc[Sel] \in {"walk", "callback"} /\ walk # None => \E n \in ToSet(mList) : n.id = walk
  BY DEF Dangling, Node
<1>3. ASSUME UNCHANGED <<mList, walk>>, pc[Sel] \in {"walk", "callback"} PROVE FALSE
  BY <1>1, <1>2, <1>3
<1>4. ASSUME pc'[Sel] = pc[Sel], mLock = None \/ mLock \in Client PROVE FALSE
  BY <1>0, <1>1, <1>4, SelIsNoClient DEF LockIsHeld
<1>5. CASE UNCHANGED vars
  BY <1>1, <1>3, <1>5 DEF vars
<1>6. ASSUME NEW c \in Client, ClientStep(c) \/ SendEvent(c) \/ Shutdown(c) PROVE FALSE
  <2>1. UNCHANGED <<mList, walk>>
    BY <1>6 DEF ClientStep, Wait, Return, Join, SendEvent, Shutdown
  <2>2. pc'[Sel] = pc[Sel]
    BY <1>0, <1>6, SelIsNoClient DEF ClientStep, Wait, Return, Join, SendEvent, Shutdown, SelectorTypes
  <2> QED  BY <1>1, <1>3, <2>1, <2>2
<1>7. ASSUME NEW c \in Client, (\E r \in Reg : AddListener(c, r)) \/ (\E fd \in Fd : RemoveListener(c, fd))
      PROVE  FALSE
  <2>1. mLock = None /\ (UpdateListeners(c) \/ UNCHANGED <<mQueue, pipe, mLock, pc>>)
    BY <1>7 DEF AddListener, RemoveListener
  <2>2. pc'[Sel] = pc[Sel]
    BY <1>0, <2>1, UpdateSent
  <2> QED  BY <1>4, <2>1, <2>2
<1>8. CASE Fill \/ Poll \/ PollFails \/ EndArray \/ HandleEvent \/ LeaveCallListeners
  <2>1. PICK p \in {"poll", "array", "fill", "broadcast", "events"} : Goto(p)
    BY <1>8 DEF Fill, Poll, PollFails, EndArray, HandleEvent, LeaveCallListeners
  <2>2. pc'[Sel] = p
    BY <1>0, <2>1, WentTo DEF Pc
  <2> QED  BY <1>1, <2>2
<1>9. CASE Broadcast
  <2>1. pc'[Sel] \in {"poll", "exited"}
    BY <1>0, <1>9, SelIsNoClient DEF Broadcast, SelectorTypes
  <2> QED  BY <1>1, <2>1
<1>10. CASE EnterCallListeners
  <2>1. walk' = First(mList) /\ mList' = mList
    BY <1>10 DEF EnterCallListeners
  <2>2. walk' = None \/ \E n \in ToSet(mList') : n.id = walk'
    <3>1. CASE mList = <<>>
      BY <2>1, <3>1 DEF First
    <3>2. CASE mList # <<>>
      <4>1. 1 \in 1..Len(mList)
        BY <1>0, <3>2, EmptySeq, LenProperties
      <4>2. mList[1] \in ToSet(mList)
        BY <1>0, <4>1, SetOfList
      <4> QED  BY <2>1, <3>2, <4>2 DEF First
    <3> QED  BY <3>1, <3>2
  <2> QED  BY <1>1, <2>2
<1>11. ASSUME NEW n \in Node(walk), CallListener(n) PROVE FALSE
  <2>1. walk' = None \/ \E m \in ToSet(mList) : m.id = walk' /\ m # n /\ walk' # n.id
    BY <1>11, NextNode DEF CallListener
  <2>2. \A m \in ToSet(mList) : m # n => m \in ToSet(mList')
    BY <1>11, CalledNode
  <2> QED  BY <1>1, <2>1, <2>2
<1>12. ASSUME NEW n \in Node(walk), SkipNode(n) PROVE FALSE
  <2>1. walk' = None \/ \E m \in ToSet(mList) : m.id = walk' /\ m # n /\ walk' # n.id
    BY <1>12, NextNode DEF SkipNode
  <2>2. mList' = mList
    BY <1>12 DEF SkipNode
  <2> QED  BY <1>1, <2>1, <2>2
<1>13. CASE CallbackReturns
  BY <1>3, <1>13 DEF CallbackReturns
<1>14. ASSUME NEW r \in Reg, CallbackAdds(r) PROVE FALSE
  <2>1. walk' = walk /\ pc[Sel] = "callback"
    BY <1>14 DEF CallbackAdds
  <2>2. ToSet(mList) \subseteq ToSet(mList')
    BY <1>14, AddedNode DEF CallbackAdds
  <2> QED  BY <1>1, <1>2, <2>1, <2>2
<1>15. ASSUME NEW fd \in Fd, CallbackRemoves(fd) PROVE RemovesNext
  <2>1. /\ walk' = walk /\ pc[Sel] = "callback"
        /\ mList' = Erase(mList, {n \in ToSet(mList) : n.fd = fd})
    BY <1>15 DEF CallbackRemoves, Without
  <2>2. ToSet(mList') = ToSet(mList) \ {n \in ToSet(mList) : n.fd = fd}
    BY <2>1, RemovedNodes
  <2>3. PICK n \in ToSet(mList) : n.id = walk
    BY <1>1, <1>2, <2>1
  <2>4. n.fd = fd
    BY <1>1, <2>1, <2>2, <2>3
  <2>5. n \in Node(walk)
    BY <2>3 DEF Node
  <2>6. n.id # interface
    BY <1>1, <2>1, <2>3 DEF WalkInv, WalkIsAhead
  <2> QED  BY <1>15, <2>4, <2>5, <2>6 DEF RemovesNext
<1> QED
  BY <1>5, <1>6, <1>7, <1>8, <1>9, <1>10, <1>11, <1>12, <1>13, <1>14, <1>15 DEF Next, SelectorStep

LEMMA SelectorStarts ==
    ASSUME Init
    PROVE  SelectorTypes /\ pc[Sel] = "fill" /\ \A c \in Client : pc[c] = "idle"
<1>1. mList = <<>> /\ mQueue = <<>> /\ pipe = 0 /\ ops = 0
      /\ gotEvent = FALSE /\ mUpdateFds = FALSE /\ mRunning = TRUE
      /\ pc = [t \in Client \cup {Sel} |-> IF t = Sel THEN "fill" ELSE "idle"]
  BY DEF Init
<1>2. pc \in [Client \cup {Sel} -> Pc] /\ pc[Sel] = "fill" /\ \A c \in Client : pc[c] = "idle"
  BY <1>1, SelIsNoClient DEF Pc
<1>3. mList \in Seq(ListenerNode) /\ mQueue \in Queue
  BY <1>1 DEF Queue
<1> QED
  BY <1>1, <1>2, <1>3 DEF SelectorTypes

\* The iterator of callListeners comes to dangle only when the listener that is
\* called removes the node behind its own, for any threads, descriptors and
\* listeners, and whatever those remove, register or have hung up.
THEOREM WalkIsAlwaysSafe == Spec => WalkIsSafe
<1>1. Init => WalkInv
  <2> SUFFICES ASSUME Init PROVE WalkInv
    OBVIOUS
  <2>1. mList = <<>> /\ SelectorTypes /\ pc[Sel] = "fill" /\ \A c \in Client : pc[c] = "idle"
    BY SelectorStarts DEF Init
  <2>2. ToSet(mList) = {} /\ OldestFirst(mList)
    BY <2>1 DEF ToSet, OldestFirst
  <2> QED  BY <2>1, <2>2 DEF WalkInv, LockIsHeld, WalkIsAhead
<1>2. WalkInv /\ [Next]_vars => WalkInv'
  BY WalkStep
<1>3. WalkInv /\ [Next]_vars =>
        [ Dangling' /\ ~ Dangling =>
            \E fd \in Fd : /\ CallbackRemoves(fd)
                           /\ \E n \in Node(walk) : n.fd = fd /\ n.id # interface ]_vars
  BY DanglingStep DEF RemovesNext
<1> QED
  BY <1>1, <1>2, <1>3, PTL DEF Spec, WalkIsSafe

-----------------------------------------------------------------------------
\* The array after n listeners: f is fillPollFds's loop over the list.
IsFill(list, f, n) ==
    f = [i \in 0..n |-> IF i = 0 THEN <<>> ELSE AddPollFd(f[i - 1], list[i])]

LEMMA FillExists ==
    ASSUME NEW list, NEW n \in Nat
    PROVE  \E f : IsFill(list, f, n)
<1> DEFINE bad == {k \in Nat : ~\E f : IsFill(list, f, k)}
<1> SUFFICES ASSUME bad # {} PROVE FALSE
  OBVIOUS
<1>1. PICK x \in bad : \A y \in bad : x <= y
  <2>1. bad \in SUBSET Nat
    OBVIOUS
  <2> HIDE DEF bad
  <2> QED  BY <2>1, LeastNumber
<1>2. x \in Nat /\ ~\E f : IsFill(list, f, x)
  OBVIOUS
<1>3. CASE x = 0
  <2> DEFINE f == [i \in 0..0 |-> <<>>]
  <2>1. f = [i \in 0..0 |-> IF i = 0 THEN <<>> ELSE AddPollFd(f[i - 1], list[i])]
    OBVIOUS
  <2> HIDE DEF f
  <2>2. IsFill(list, f, 0)
    BY <2>1 DEF IsFill
  <2> QED  BY <1>2, <1>3, <2>2
<1>4. CASE x # 0
  <2>1. x - 1 \in Nat /\ ~(x <= x - 1)
    BY <1>2, <1>4
  <2>2. x - 1 \notin bad
    BY <1>1, <2>1
  <2>3. PICK f : IsFill(list, f, x - 1)
    BY <2>1, <2>2
  <2> DEFINE h == [i \in 0..x |-> IF i = x THEN AddPollFd(f[x - 1], list[x]) ELSE f[i]]
             e == [i \in 0..x |-> IF i = 0 THEN <<>> ELSE AddPollFd(h[i - 1], list[i])]
  <2>4. ASSUME NEW i \in 0..x PROVE h[i] = IF i = 0 THEN <<>> ELSE AddPollFd(h[i - 1], list[i])
    <3>1. CASE i = x
      <4>1. i - 1 \in 0..x /\ i - 1 # x /\ i # 0
        BY <1>2, <1>4, <3>1
      <4>2. h[i - 1] = f[x - 1]
        BY <3>1, <4>1
      <4>3. h[i] = AddPollFd(f[x - 1], list[x])
        BY <3>1
      <4> QED  BY <3>1, <4>1, <4>2, <4>3
    <3>2. CASE i # x
      <4>1. i \in 0..(x - 1)
        BY <1>2, <3>2
      <4>2. h[i] = f[i] /\ f[i] = IF i = 0 THEN <<>> ELSE AddPollFd(f[i - 1], list[i])
        BY <2>3, <3>2, <4>1 DEF IsFill
      <4>3. i # 0 => h[i - 1] = f[i - 1]
        BY <1>2, <3>2
      <4> QED  BY <4>2, <4>3
    <3> QED  BY <3>1, <3>2
  <2>5. h = e
    BY <2>4
  <2> HIDE DEF h
  <2>6. IsFill(list, h, x)
    BY <2>5 DEF IsFill
  <2> QED  BY <1>2, <2>6
<1> QED
  BY <1>3, <1>4

LEMMA FillIs ==
    ASSUME NEW list, Len(list) \in Nat
    PROVE  \E f : IsFill(list, f, Len(list)) /\ FillPollFds(list) = f[Len(list)]
<1> DEFINE R(f) == f = [i \in 0..Len(list) |-> IF i = 0 THEN <<>> ELSE AddPollFd(f[i - 1], list[i])]
           c == CHOOSE f : R(f)
<1>1. FillPollFds(list) = c[Len(list)]
  BY DEF FillPollFds
<1>2. \A f : R(f) <=> IsFill(list, f, Len(list))
  BY DEF IsFill
<1>3. PICK f : IsFill(list, f, Len(list))
  BY FillExists
<1>4. IsFill(list, c, Len(list))
  <2> HIDE DEF R
  <2> QED  BY <1>2, <1>3, Zenon
<1> QED
  BY <1>1, <1>4

PollFd == [fd : Fd, events : SUBSET {"in", "out"}]
Fds(q) == {q[i].fd : i \in 1..Len(q)}
Distinct(q) == \A i, j \in 1..Len(q) : q[i].fd = q[j].fd => i = j

\* One listener: its descriptor is in the array afterwards.
LEMMA AddedPollFd ==
    ASSUME RoomForAll, NEW q \in Seq(PollFd), Distinct(q), NEW n \in ListenerNode
    PROVE  /\ AddPollFd(q, n) \in Seq(PollFd) /\ Distinct(AddPollFd(q, n))
           /\ Fds(AddPollFd(q, n)) = Fds(q) \cup {n.fd}
<1> DEFINE r == AddPollFd(q, n)
<1>0. /\ Len(q) \in Nat /\ n.fd \in Fd /\ n.events \in SUBSET {"in", "out"}
      /\ \A i \in 1..Len(q) : q[i] \in PollFd /\ q[i].fd \in Fd /\ q[i].events \in SUBSET {"in", "out"}
  <2>1. \A x \in PollFd : x.fd \in Fd /\ x.events \in SUBSET {"in", "out"}
    BY DEF PollFd
  <2>2. Len(q) \in Nat /\ \A i \in 1..Len(q) : q[i] \in PollFd
    BY SetOfList
  <2>3. n.fd \in Fd /\ n.events \in SUBSET {"in", "out"}
    BY DEF ListenerNode
  <2> QED  BY <2>1, <2>2, <2>3
<1>1. CASE n.fd \in Fds(q)
  <2>1. PICK k \in 1..Len(q) : q[k].fd = n.fd
    BY <1>1 DEF Fds
  <2> DEFINE e(i) == IF q[i].fd = n.fd THEN [q[i] EXCEPT !.events = @ \cap n.events] ELSE q[i]
             s == [i \in 1..Len(q) |-> e(i)]
  <2>2. r = q \/ r = s
    BY <2>1 DEF AddPollFd
  <2>3. \A i \in 1..Len(q) : e(i) \in PollFd /\ e(i).fd = q[i].fd
    BY <1>0 DEF PollFd
  <2> HIDE DEF e
  <2>4. s \in Seq(PollFd) /\ Len(s) = Len(q) /\ \A i \in 1..Len(q) : s[i].fd = q[i].fd
    BY <1>0, <2>3
  <2> HIDE DEF s, r
  <2>5. /\ r \in Seq(PollFd) /\ Len(r) = Len(q) /\ \A i \in 1..Len(q) : r[i].fd = q[i].fd
    BY <2>2, <2>4
  <2>6. Distinct(r) /\ Fds(r) = Fds(q)
    BY <2>5 DEF Distinct, Fds
  <2> QED  BY <1>1, <2>5, <2>6 DEF r
<1>2. CASE n.fd \notin Fds(q)
  <2>1. \A i \in 1..Len(q) : q[i].fd # n.fd
    BY <1>2 DEF Fds
  <2>2. Len(q) + 1 # kMaxPollFds
    <3> DEFINE T == Fd \ {n.fd}
               f == [i \in 1..Len(q) |-> q[i].fd]
    <3>1. IsFiniteSet(T) /\ Cardinality(T) = Cardinality(Fd) - 1 /\ Cardinality(Fd) \in Nat
      BY <1>0, FS_RemoveElement, FS_CardinalityType DEF RoomForAll
    <3>2. f \in [1..Len(q) -> T] /\ \A i, j \in 1..Len(q) : f[i] = f[j] => i = j
      BY <1>0, <2>1 DEF Distinct
    <3>3. IsFiniteSet(1..Len(q)) /\ Cardinality(1..Len(q)) = Len(q)
      BY <1>0, IntervalSize
    <3>4. Cardinality(1..Len(q)) <= Cardinality(T)
      <4>1. f \in Injection(1..Len(q), T)
        BY <3>2 DEF Injection, IsInjective
      <4> HIDE DEF f, T
      <4> QED  BY <3>1, <4>1, FS_Injection
    <3> QED  BY <1>0, <3>1, <3>3, <3>4, SelectorAssumption DEF RoomForAll
  <2>3. PICK x : x = [fd |-> n.fd, events |-> n.events]
    OBVIOUS
  <2>4. x \in PollFd /\ x.fd = n.fd
    BY <1>0, <2>3 DEF PollFd
  <2>5. r = Append(q, x)
    BY <2>1, <2>2, <2>3 DEF AddPollFd
  <2>6. /\ r \in Seq(PollFd) /\ Len(r) = Len(q) + 1
        /\ \A i \in 1..Len(q) : r[i] = q[i]
        /\ r[Len(q) + 1] = x
    BY <2>4, <2>5, SetOfAppend
  <2> HIDE DEF r
  <2>7. \A i \in 1..Len(r) : i \in 1..Len(q) \/ i = Len(q) + 1
    BY <1>0, <2>6
  <2>8. Distinct(r)
    BY <2>1, <2>4, <2>6, <2>7 DEF Distinct
  <2>9. Fds(r) = Fds(q) \cup {n.fd}
    <3>1. ASSUME NEW y \in Fds(r) PROVE y \in Fds(q) \cup {n.fd}
      BY <2>4, <2>6, <2>7 DEF Fds
    <3>2. ASSUME NEW y \in Fds(q) PROVE y \in Fds(r)
      <4>1. PICK i \in 1..Len(q) : y = q[i].fd
        BY DEF Fds
      <4>2. i \in 1..Len(r) /\ y = r[i].fd
        BY <1>0, <2>6, <4>1
      <4> QED  BY <4>2 DEF Fds
    <3>3. n.fd \in Fds(r)
      <4>1. Len(q) + 1 \in 1..Len(r) /\ r[Len(q) + 1].fd = n.fd
        BY <1>0, <2>4, <2>6
      <4> QED  BY <4>1 DEF Fds
    <3> QED  BY <3>1, <3>2, <3>3
  <2> QED  BY <2>6, <2>8, <2>9 DEF r
<1> QED
  BY <1>1, <1>2

\* fillPollFds puts every registered descriptor into the array, and no other.
LEMMA FilledArray ==
    ASSUME RoomForAll, NEW list \in Seq(ListenerNode)
    PROVE  Fds(FillPollFds(list)) = Fds(list)
<1>0. Len(list) \in Nat /\ \A i \in 1..Len(list) : list[i] \in ListenerNode
  BY SetOfList
<1>1. PICK f : IsFill(list, f, Len(list)) /\ FillPollFds(list) = f[Len(list)]
  BY <1>0, FillIs
<1>2. f[0] = <<>> /\ \A i \in 1..Len(list) : f[i] = AddPollFd(f[i - 1], list[i])
  <2>1. f = [i \in 0..Len(list) |-> IF i = 0 THEN <<>> ELSE AddPollFd(f[i - 1], list[i])]
    BY <1>1 DEF IsFill
  <2>2. 0 \in 0..Len(list) /\ \A i \in 1..Len(list) : i \in 0..Len(list) /\ i # 0
    BY <1>0
  <2> QED  BY <2>1, <2>2
<1> DEFINE Good(i) == f[i] \in Seq(PollFd) /\ Distinct(f[i]) /\ Fds(f[i]) = {list[j].fd : j \in 1..i}
           bad == {i \in 0..Len(list) : ~ Good(i)}
<1>3. Good(0)
  <2>1. f[0] \in Seq(PollFd) /\ Distinct(f[0]) /\ Fds(f[0]) = {}
    BY <1>2 DEF Distinct, Fds
  <2> QED  BY <2>1
<1>4. ASSUME NEW i \in 1..Len(list), Good(i - 1) PROVE Good(i)
  <2>1. f[i - 1] \in Seq(PollFd) /\ Distinct(f[i - 1]) /\ Fds(f[i - 1]) = {list[j].fd : j \in 1..(i - 1)}
    BY <1>4
  <2>2. PICK q : q = f[i - 1]
    OBVIOUS
  <2>3. f[i] = AddPollFd(q, list[i]) /\ list[i] \in ListenerNode
    BY <1>0, <1>2, <2>2
  <2>4. /\ AddPollFd(q, list[i]) \in Seq(PollFd) /\ Distinct(AddPollFd(q, list[i]))
        /\ Fds(AddPollFd(q, list[i])) = Fds(q) \cup {list[i].fd}
    BY <2>1, <2>2, <2>3, AddedPollFd
  <2>5. {list[j].fd : j \in 1..i} = {list[j].fd : j \in 1..(i - 1)} \cup {list[i].fd}
    <3>1. \A j : j \in 1..i <=> j \in 1..(i - 1) \/ j = i
      BY <1>0
    <3> QED  BY <3>1
  <2> QED  BY <2>1, <2>2, <2>3, <2>4, <2>5
<1>5. bad = {}
  <2> SUFFICES ASSUME bad # {} PROVE FALSE
    OBVIOUS
  <2>1. PICK x \in bad : \A y \in bad : x <= y
    <3>1. bad \in SUBSET Nat
      BY <1>0
    <3> HIDE DEF bad
    <3> QED  BY <3>1, LeastNumber
  <2>2. x \in 0..Len(list) /\ ~ Good(x)
    OBVIOUS
  <2> HIDE DEF Good
  <2>3. x \in 1..Len(list) /\ x - 1 \in 0..Len(list) /\ ~(x <= x - 1)
    BY <1>0, <1>3, <2>2
  <2>4. x - 1 \notin bad
    BY <2>1, <2>3
  <2>5. Good(x - 1)
    BY <2>3, <2>4
  <2> QED  BY <1>4, <2>2, <2>3, <2>5
<1>6. Good(Len(list))
  <2> HIDE DEF Good
  <2>1. Len(list) \in 0..Len(list)
    BY <1>0
  <2> QED  BY <1>5, <2>1
<1> QED
  BY <1>1, <1>6 DEF Fds

-----------------------------------------------------------------------------
\* The array is what is registered.
Current == Fds(fds) = Fds(mList)

\* The bytes in the pipe and the one just read count the queue; a change of the
\* list that the array does not show is announced by mUpdateFds or by an
\* update in the queue.
IdleInv ==
    /\ SelectorTypes
    /\ mRunning /\ gotEvent => Len(mQueue) = pipe + 1
    /\ mRunning /\ ~ gotEvent => Len(mQueue) = pipe
    /\ pc[Sel] \in {"fill", "poll", "broadcast"} => ~ gotEvent
    /\ pc[Sel] \in {"poll", "broadcast"} => ~ mUpdateFds
    /\ ~ mRunning => pc[Sel] \in {"broadcast", "exited"} \/ (pc[Sel] = "fill" /\ mUpdateFds)
    /\ mRunning /\ pc[Sel] # "fill" => Current \/ mUpdateFds \/ "update" \in ToSet(mQueue)

\* Steps of clients.
LEMMA ClientIdle ==
    ASSUME IdleInv, [Next]_vars, UNCHANGED <<fds, gotEvent, mUpdateFds, mRunning>>, pc'[Sel] = pc[Sel],
           Wakes, ToSet(mQueue) \subseteq ToSet(mQueue'),
           mList' = mList \/ (mRunning => "update" \in ToSet(mQueue'))
    PROVE  IdleInv'
<1>1. SelectorTypes /\ SelectorTypes'
  BY TypesStep DEF IdleInv
<1>2. Len(mQueue) \in Nat /\ Len(mQueue') \in Nat /\ pipe \in Nat /\ pipe' \in Nat
  BY <1>1, LenProperties DEF SelectorTypes, Queue
<1>3. /\ Len(mQueue) = pipe + 1 => Len(mQueue') = pipe' + 1
      /\ Len(mQueue) = pipe => Len(mQueue') = pipe'
  BY <1>2 DEF Wakes
<1>4. mRunning /\ pc[Sel] # "fill" => Current' \/ mUpdateFds \/ "update" \in ToSet(mQueue')
  <2>1. CASE mList' = mList
    <3>1. Current' <=> Current
      BY <2>1 DEF Current
    <3> QED  BY <3>1 DEF IdleInv
  <2>2. CASE mList' # mList
    BY <2>2
  <2> QED  BY <2>1, <2>2
<1> QED
  BY <1>1, <1>3, <1>4 DEF IdleInv

\* Steps of the selector's thread between poll and the event.
LEMMA ArrayIdle ==
    ASSUME IdleInv, [Next]_vars, UNCHANGED <<fds, mQueue, pipe, gotEvent, mRunning>>,
           pc[Sel] \in {"array", "walk", "callback"}, pc'[Sel] \in {"array", "walk", "callback", "events"},
           mUpdateFds => mUpdateFds', mList' = mList \/ mUpdateFds'
    PROVE  IdleInv'
<1>1. SelectorTypes'
  BY TypesStep DEF IdleInv
<1>2. mRunning /\ (Current' \/ mUpdateFds' \/ "update" \in ToSet(mQueue'))
  <2>1. mRunning /\ (Current \/ mUpdateFds \/ "update" \in ToSet(mQueue))
    BY DEF IdleInv
  <2>2. mList' = mList => (Current' <=> Current)
    BY DEF Current
  <2> QED  BY <2>1, <2>2
<1> QED
  BY <1>1, <1>2 DEF IdleInv

LEMMA FillIdle ==
    ASSUME RoomForAll, IdleInv, [Next]_vars, Fill
    PROVE  IdleInv'
<1>1. SelectorTypes /\ SelectorTypes' /\ mList \in Seq(ListenerNode)
  BY TypesStep DEF IdleInv, SelectorTypes
<1>2. /\ pc[Sel] = "fill" /\ fds' = FillPollFds(mList) /\ mUpdateFds' = FALSE
      /\ Goto(IF mUpdateFds THEN "broadcast" ELSE "poll")
      /\ UNCHANGED <<mList, mQueue, pipe, gotEvent, mRunning>>
  BY DEF Fill
<1>3. pc'[Sel] = IF mUpdateFds THEN "broadcast" ELSE "poll"
  BY <1>1, <1>2, WentTo DEF Pc
<1>4. Fds(FillPollFds(mList)) = Fds(mList)
  BY <1>1, FilledArray
<1>5. Current'
  BY <1>2, <1>4, ZenonT(60) DEF Current, Fds
<1> QED
  BY <1>1, <1>2, <1>3, <1>5 DEF IdleInv

LEMMA PollIdle ==
    ASSUME IdleInv, [Next]_vars, Poll \/ PollFails
    PROVE  IdleInv'
<1>1. SelectorTypes /\ SelectorTypes' /\ pipe \in Nat /\ gotEvent \in BOOLEAN
  BY TypesStep DEF IdleInv, SelectorTypes
<1>2. pc[Sel] = "poll" /\ Goto("array") /\ UNCHANGED <<mList, mQueue, fds, mUpdateFds, mRunning>>
  BY DEF Poll, PollFails
<1>3. pc'[Sel] = "array"
  BY <1>1, <1>2, WentTo DEF Pc
<1>4. mRunning /\ ~ gotEvent /\ Len(mQueue) = pipe /\ (Current \/ mUpdateFds \/ "update" \in ToSet(mQueue))
  BY <1>1, <1>2 DEF IdleInv
<1>5. /\ gotEvent' => Len(mQueue) = pipe' + 1
      /\ ~ gotEvent' => Len(mQueue) = pipe'
  <2>1. CASE Poll
    <3>1. gotEvent' = (pipe > 0) /\ pipe' = IF pipe > 0 THEN pipe - 1 ELSE 0
      BY <2>1 DEF Poll
    <3>2. CASE pipe > 0
      <4>1. gotEvent' /\ pipe' = pipe - 1
        BY <3>1, <3>2
      <4>2. Len(mQueue) = pipe' + 1
        BY <1>1, <1>4, <4>1
      <4> QED  BY <4>1, <4>2
    <3>3. CASE ~ (pipe > 0)
      <4>1. ~ gotEvent' /\ pipe' = 0
        BY <3>1, <3>3
      <4>2. Len(mQueue) = pipe'
        BY <1>1, <1>4, <3>3, <4>1
      <4> QED  BY <4>1, <4>2
    <3> QED  BY <3>2, <3>3
  <2>2. CASE PollFails
    <3>1. UNCHANGED <<gotEvent, pipe>>
      BY <2>2 DEF PollFails
    <3> QED  BY <1>1, <1>4, <3>1
  <2> QED  BY <2>1, <2>2
<1>6. Current' <=> Current
  BY <1>2 DEF Current
<1> QED
  BY <1>1, <1>2, <1>3, <1>4, <1>5, <1>6 DEF IdleInv

LEMMA EventIdle ==
    ASSUME IdleInv, [Next]_vars, HandleEvent
    PROVE  IdleInv'
<1>1. /\ SelectorTypes /\ SelectorTypes' /\ pipe \in Nat /\ mQueue \in Queue
      /\ gotEvent \in BOOLEAN /\ mUpdateFds \in BOOLEAN /\ mRunning \in BOOLEAN
  BY TypesStep DEF IdleInv, SelectorTypes
<1>2. PICK ev : ev = IF gotEvent /\ mQueue # <<>> THEN Head(mQueue) ELSE None
  OBVIOUS
<1>3. /\ pc[Sel] = "events" /\ gotEvent' = FALSE
      /\ mQueue' = IF ev = None THEN mQueue ELSE IF ev = "shutdown" THEN <<>> ELSE Tail(mQueue)
      /\ mUpdateFds' = (mUpdateFds \/ ev = "update")
      /\ mRunning' = (mRunning /\ ev # "shutdown")
      /\ Goto(IF mUpdateFds' THEN "fill" ELSE "broadcast")
      /\ UNCHANGED <<mList, pipe, fds>>
  BY <1>2 DEF HandleEvent
<1>4. pc'[Sel] = IF mUpdateFds' THEN "fill" ELSE "broadcast"
  BY <1>1, <1>3, WentTo DEF Pc
<1>5. /\ mRunning
      /\ gotEvent => Len(mQueue) = pipe + 1
      /\ ~ gotEvent => Len(mQueue) = pipe
      /\ (Current \/ mUpdateFds \/ "update" \in ToSet(mQueue))
  BY <1>1, <1>3 DEF IdleInv
<1>6. Current' <=> Current
  BY <1>3 DEF Current
<1>7. CASE gotEvent
  <2>1. mQueue # <<>>
    <3>1. Len(mQueue) # 0
      BY <1>1, <1>5, <1>7
    <3> QED  BY <3>1
  <2>2. ev = Head(mQueue)
    BY <1>2, <1>7, <2>1
  <2>3. /\ ev # None
        /\ Len(Tail(mQueue)) = Len(mQueue) - 1 /\ Len(mQueue) \in Nat
        /\ ToSet(mQueue) = ToSet(Tail(mQueue)) \cup {ev}
    BY <1>1, <2>1, <2>2, TakenEvent
  <2>4. CASE ev = "shutdown"
    <3>1. mRunning' = FALSE
      BY <1>3, <2>4
    <3> QED  BY <1>1, <1>3, <1>4, <3>1 DEF IdleInv
  <2>5. CASE ev # "shutdown"
    <3>1. mQueue' = Tail(mQueue)
      BY <1>3, <2>3, <2>5
    <3>2. Len(mQueue') = pipe'
      BY <1>1, <1>3, <1>5, <1>7, <2>3, <3>1
    <3>3. Current' \/ mUpdateFds' \/ "update" \in ToSet(mQueue')
      BY <1>3, <1>5, <1>6, <2>3, <3>1
    <3>4. mRunning'
      BY <1>3, <1>5, <2>5
    <3> QED  BY <1>1, <1>3, <1>4, <3>2, <3>3, <3>4 DEF IdleInv
  <2> QED  BY <2>4, <2>5
<1>8. CASE ~ gotEvent
  <2>1. ev = None /\ None # "shutdown"
    BY <1>2, <1>8, SelectorAssumption
  <2>2. mQueue' = mQueue /\ pipe' = pipe
    BY <1>3, <2>1
  <2>3. mRunning'
    BY <1>3, <1>5, <2>1
  <2>4. Len(mQueue') = pipe'
    BY <1>5, <1>8, <2>2
  <2>5. Current' \/ mUpdateFds' \/ "update" \in ToSet(mQueue')
    BY <1>3, <1>5, <1>6, <2>2
  <2> QED  BY <1>1, <1>3, <1>4, <2>2, <2>3, <2>4, <2>5 DEF IdleInv
<1> QED
  BY <1>1, <1>7, <1>8

LEMMA BroadcastIdle ==
    ASSUME IdleInv, [Next]_vars, Broadcast
    PROVE  IdleInv'
<1>1. SelectorTypes /\ SelectorTypes'
  BY TypesStep DEF IdleInv
<1>2. pc[Sel] = "broadcast" /\ UNCHANGED <<mList, mQueue, pipe, fds, gotEvent, mUpdateFds, mRunning>>
  BY DEF Broadcast
<1>3. pc'[Sel] = IF mRunning THEN "poll" ELSE "exited"
  BY <1>1 DEF Broadcast, SelectorTypes
<1>4. Current' <=> Current
  BY <1>2 DEF Current
<1> QED
  BY <1>1, <1>2, <1>3, <1>4 DEF IdleInv

LEMMA IdleStep ==
    ASSUME RoomForAll, IdleInv, [Next]_vars
    PROVE  IdleInv'
<1>0. SelectorTypes /\ mQueue \in Queue /\ pipe \in Nat /\ Len(mQueue) \in Nat
      /\ pc \in [Client \cup {Sel} -> Pc]
  BY LenProperties DEF IdleInv, SelectorTypes, Queue
<1>1. CASE UNCHANGED vars
  <2>1. UNCHANGED <<fds, gotEvent, mUpdateFds, mRunning, mQueue, pipe, mList, pc>>
    BY <1>1 DEF vars
  <2> QED  BY <1>0, <2>1, ClientIdle DEF Wakes
<1>2. ASSUME NEW c \in Client, ClientStep(c) PROVE IdleInv'
  <2>1. UNCHANGED <<fds, gotEvent, mUpdateFds, mRunning, mQueue, pipe, mList>> /\ pc'[Sel] = pc[Sel]
    BY <1>0, <1>2, SelIsNoClient DEF ClientStep, Wait, Return, Join
  <2> QED  BY <1>0, <2>1, ClientIdle DEF Wakes
<1>3. ASSUME NEW c \in Client, SendEvent(c) \/ Shutdown(c) PROVE IdleInv'
  <2>1. UNCHANGED <<fds, gotEvent, mUpdateFds, mRunning, mList>> /\ pc'[Sel] = pc[Sel]
    BY <1>0, <1>3, SelIsNoClient DEF SendEvent, Shutdown
  <2>2. PICK ev \in {"update", "event", "shutdown"} : Send(ev)
    BY <1>3 DEF SendEvent, Shutdown
  <2>3. pipe' = pipe + 1 /\ Len(mQueue') = Len(mQueue) + 1 /\ ToSet(mQueue) \subseteq ToSet(mQueue')
    BY <1>0, <2>2, SentEvent
  <2> QED  BY <1>0, <2>1, <2>3, ClientIdle DEF Wakes
<1>4. ASSUME NEW c \in Client, NEW r \in Reg, AddListener(c, r) PROVE IdleInv'
  <2>1. UNCHANGED <<fds, gotEvent, mUpdateFds, mRunning>> /\ mLock = None /\ UpdateListeners(c)
    BY <1>4 DEF AddListener
  <2> QED  BY <1>0, <2>1, UpdateSent, ClientIdle
<1>5. ASSUME NEW c \in Client, NEW fd \in Fd, RemoveListener(c, fd) PROVE IdleInv'
  <2>1. UNCHANGED <<fds, gotEvent, mUpdateFds, mRunning>> /\ mLock = None
    BY <1>5 DEF RemoveListener
  <2>2. CASE mList' # mList
    <3>1. UpdateListeners(c)
      BY <1>5, <2>2 DEF RemoveListener
    <3> QED  BY <1>0, <2>1, <3>1, UpdateSent, ClientIdle
  <2>3. CASE mList' = mList
    <3>1. UNCHANGED <<mQueue, pipe, pc>>
      BY <1>5, <2>3 DEF RemoveListener
    <3> QED  BY <1>0, <2>1, <2>3, <3>1, ClientIdle DEF Wakes
  <2> QED  BY <2>2, <2>3
<1>6. CASE EnterCallListeners \/ EndArray \/ LeaveCallListeners \/ CallbackReturns
  <2>1. /\ UNCHANGED <<fds, mQueue, pipe, gotEvent, mRunning, mList, mUpdateFds>>
        /\ pc[Sel] \in {"array", "walk", "callback"}
    BY <1>6 DEF EnterCallListeners, EndArray, LeaveCallListeners, CallbackReturns
  <2>2. PICK p \in {"array", "walk", "callback", "events"} : Goto(p)
    BY <1>6 DEF EnterCallListeners, EndArray, LeaveCallListeners, CallbackReturns
  <2>3. pc'[Sel] = p
    BY <1>0, <2>2, WentTo DEF Pc
  <2> QED  BY <2>1, <2>2, <2>3, ArrayIdle
<1>7. ASSUME NEW n \in Node(walk), CallListener(n) PROVE IdleInv'
  <2>1. /\ UNCHANGED <<fds, mQueue, pipe, gotEvent, mRunning>> /\ pc[Sel] = "walk" /\ Goto("callback")
        /\ UNCHANGED <<mList, mUpdateFds>> \/ mUpdateFds' = TRUE
    BY <1>7 DEF CallListener
  <2>2. pc'[Sel] = "callback"
    BY <1>0, <2>1, WentTo DEF Pc
  <2> QED  BY <2>1, <2>2, ArrayIdle
<1>8. ASSUME NEW n \in Node(walk), SkipNode(n) PROVE IdleInv'
  BY <1>8, ArrayIdle DEF SkipNode
<1>9. ASSUME NEW r \in Reg, CallbackAdds(r) PROVE IdleInv'
  BY <1>9, ArrayIdle DEF CallbackAdds
<1>10. ASSUME NEW fd \in Fd, CallbackRemoves(fd) PROVE IdleInv'
  BY <1>10, ArrayIdle DEF CallbackRemoves
<1> QED
  BY <1>1, <1>2, <1>3, <1>4, <1>5, <1>6, <1>7, <1>8, <1>9, <1>10, FillIdle, PollIdle, EventIdle, BroadcastIdle
     DEF Next, SelectorStep

\* When the selector's thread is about to block in poll, its array is what is
\* registered, for any number of threads and listeners: no update, no change
\* by a listener and no hangup is lost.
THEOREM IdleIsAlwaysCurrent == ASSUME RoomForAll PROVE Spec => []IdleIsCurrent
<1>1. Init => IdleInv
  <2> SUFFICES ASSUME Init PROVE IdleInv
    OBVIOUS
  <2>1. mQueue = <<>> /\ pipe = 0 /\ gotEvent = FALSE /\ mUpdateFds = FALSE /\ mRunning = TRUE
    BY DEF Init
  <2>2. SelectorTypes /\ pc[Sel] = "fill"
    BY SelectorStarts
  <2> QED  BY <2>1, <2>2 DEF IdleInv
<1>2. IdleInv /\ [Next]_vars => IdleInv'
  BY IdleStep
<1>3. IdleInv => IdleIsCurrent
  <2> SUFFICES ASSUME IdleInv, pc[Sel] = "poll", pipe = 0
               PROVE  {fds[i].fd : i \in 1..Len(fds)} = {n.fd : n \in ToSet(mList)}
    BY DEF IdleIsCurrent
  <2>1. SelectorTypes /\ mList \in Seq(ListenerNode) /\ mQueue \in Queue /\ gotEvent \in BOOLEAN
    BY DEF IdleInv, SelectorTypes
  <2>2. Len(mQueue) = 0 /\ ~ mUpdateFds /\ mRunning
    BY <2>1 DEF IdleInv
  <2>3. \A x : x \notin ToSet(mQueue)
    <3>1. \A x : x \in ToSet(mQueue) <=> \E i \in 1..Len(mQueue) : x = mQueue[i]
      BY <2>1, SetOfList DEF Queue
    <3> QED  BY <2>2, <3>1
  <2>4. Current
    BY <2>2, <2>3 DEF IdleInv
  <2>5. \A x : x \in ToSet(mList) <=> \E i \in 1..Len(mList) : x = mList[i]
    BY <2>1, SetOfList
  <2>6. Fds(mList) = {n.fd : n \in ToSet(mList)}
    BY <2>5 DEF Fds
  <2> QED  BY <2>4, <2>6 DEF Current, Fds
<1> QED
  BY <1>1, <1>2, <1>3, PTL DEF Spec

-----------------------------------------------------------------------------
(* The allocator *)

FreeBlock == [at : Nat, size : Nat]
BlockEnd(b) == b.at + b.size
InBlock(b, x) == b.at <= x /\ x < b.at + b.size

\* The places of a list are in order and have room for their node.
ListFits(q) ==
    /\ q \in Seq(FreeBlock)
    /\ \A i \in 1..Len(q) : q[i].size >= NODE_SIZE
    /\ \A i, j \in 1..Len(q) : i < j => q[i].at + q[i].size <= q[j].at

\* A block of the list has the cell x.
InList(q, x) == \E i \in 1..Len(q) : InBlock(q[i], x)

IsJoining(list, g) == g = [k \in 0..Len(list) |-> IF k = 0 THEN <<>> ELSE JoinNode(g[k - 1], list[k])]

LEMMA JoinChosen ==
    ASSUME NEW list
    PROVE  JoinFreeNodes(list) = (CHOOSE g : IsJoining(list, g))[Len(list)]
  BY Zenon DEF JoinFreeNodes, IsJoining

\* A block of another size in its place.
LEMMA SizeChanged ==
    ASSUME NEW q \in Seq(FreeBlock), NEW i \in 1..Len(q), NEW v \in Nat
    PROVE  LET r == [q EXCEPT ![i].size = v]
           IN  /\ r \in Seq(FreeBlock) /\ Len(r) = Len(q)
               /\ \A j \in 1..Len(q) : j # i => r[j] = q[j]
               /\ r[i].at = q[i].at /\ r[i].size = v
<1>0. Len(q) \in Nat /\ \A j \in 1..Len(q) : q[j] \in FreeBlock
  BY LenProperties, ElementOfSeq
<1>a. PICK b \in FreeBlock : b = q[i]
  BY <1>0
<1>1. PICK c \in FreeBlock : c = [b EXCEPT !.size = v]
  BY DEF FreeBlock
<1>2. c.at = b.at /\ c.size = v
  BY <1>1 DEF FreeBlock
<1>3. [q EXCEPT ![i].size = v] = [q EXCEPT ![i] = c]
  BY <1>a, <1>1
<1>b. PICK r : r = [q EXCEPT ![i] = c]
  OBVIOUS
<1>4. r \in Seq(FreeBlock) /\ Len(r) = Len(q) /\ r[i] = c /\ \A j \in 1..Len(q) : j # i => r[j] = q[j]
  BY <1>0, <1>b, ExceptSeq
<1> QED
  BY <1>a, <1>2, <1>3, <1>4, <1>b

\* What joining has made of the first k blocks of the list.
PrefixJoined(list, k, acc) ==
    /\ ListFits(acc)
    /\ k = 0 => acc = <<>>
    /\ k > 0 => Len(acc) > 0 /\ BlockEnd(acc[Len(acc)]) = BlockEnd(list[k])
    /\ \A x \in Nat : InList(acc, x) <=> \E i \in 1..k : InBlock(list[i], x)

LEMMA FreeBlockParts ==
    ASSUME NEW q \in Seq(FreeBlock)
    PROVE  Len(q) \in Nat /\ \A i \in 1..Len(q) : q[i] \in FreeBlock /\ q[i].at \in Nat /\ q[i].size \in Nat
<1>1. Len(q) \in Nat /\ \A j \in 1..Len(q) : q[j] \in FreeBlock
  BY LenProperties, ElementOfSeq
<1> QED
  BY <1>1 DEF FreeBlock

LEMMA JoinNodeKeeps ==
    ASSUME NEW list, ListFits(list), NEW k \in 1..Len(list), NEW acc, PrefixJoined(list, k - 1, acc)
    PROVE  PrefixJoined(list, k, JoinNode(acc, list[k]))
<1>0. /\ Len(list) \in Nat /\ list[k] \in FreeBlock /\ list \in Seq(FreeBlock) /\ acc \in Seq(FreeBlock)
      /\ \A i \in 1..Len(list) : list[i].at \in Nat /\ list[i].size \in Nat
      /\ Len(acc) \in Nat /\ \A i \in 1..Len(acc) : acc[i].at \in Nat /\ acc[i].size \in Nat
  BY FreeBlockParts DEF ListFits, PrefixJoined
<1>1. PICK n \in FreeBlock : n = list[k] /\ n.at \in Nat /\ n.size \in Nat /\ n.size >= NODE_SIZE
  BY <1>0 DEF ListFits
<1>2. /\ \A i \in 1..Len(acc) : acc[i].size >= NODE_SIZE
      /\ \A i, j \in 1..Len(acc) : i < j => acc[i].at + acc[i].size <= acc[j].at
      /\ \A x \in Nat : InList(acc, x) <=> \E i \in 1..(k - 1) : InBlock(list[i], x)
  BY DEF PrefixJoined, ListFits
<1>3. \A i \in 1..Len(acc) : acc[i].at + acc[i].size <= n.at
  <2>1. CASE k = 1
    <3>1. acc = <<>> /\ Len(acc) = 0
      BY <2>1, EmptySeq DEF PrefixJoined
    <3> QED  BY <3>1
  <2>2. CASE k > 1
    <3>1. Len(acc) > 0 /\ BlockEnd(acc[Len(acc)]) = BlockEnd(list[k - 1])
      BY <2>2, <1>0 DEF PrefixJoined
    <3>2. k - 1 \in 1..Len(list) /\ list[k - 1].at + list[k - 1].size <= n.at
      BY <2>2, <1>0, <1>1 DEF ListFits
    <3>3. acc[Len(acc)].at + acc[Len(acc)].size <= n.at
      BY <3>1, <3>2 DEF BlockEnd
    <3>4. ASSUME NEW i \in 1..Len(acc), i # Len(acc) PROVE acc[i].at + acc[i].size <= n.at
      <4>1. Len(acc) \in 1..Len(acc) /\ i < Len(acc)
        BY <3>4, <1>0
      <4>2. acc[i].at + acc[i].size <= acc[Len(acc)].at
        BY <4>1, <1>2
      <4>3. PICK a \in Nat, b \in Nat : a = acc[i].at /\ b = acc[i].size
        BY <1>0
      <4>4. PICK c \in Nat, d \in Nat : c = acc[Len(acc)].at /\ d = acc[Len(acc)].size
        BY <4>1, <1>0
      <4>5. PICK e \in Nat : e = n.at
        BY <1>1
      <4>6. a + b <= c /\ c + d <= e
        BY <4>2, <4>3, <4>4, <4>5, <3>3
      <4>7. a + b <= e
        BY <4>6
      <4> QED  BY <4>3, <4>5, <4>7
    <3> QED  BY <3>3, <3>4
  <2> QED  BY <2>1, <2>2, <1>0
<1>4. ASSUME NEW x \in Nat
      PROVE  (\E i \in 1..k : InBlock(list[i], x)) <=> (InList(acc, x) \/ InBlock(n, x))
  BY <1>0, <1>1, <1>2
<1>5. CASE acc # <<>> /\ Adjacent(Last(acc), n)
  <2>0. Len(acc) > 0 /\ Last(acc) = acc[Len(acc)] /\ acc[Len(acc)].at + acc[Len(acc)].size = n.at
    BY <1>5, <1>0, EmptySeq DEF Last, Adjacent
  <2>1. PICK m \in 1..Len(acc) : m = Len(acc)
    BY <2>0, <1>0
  <2>2. PICK v \in Nat : v = acc[m].size + n.size
    BY <1>0, <1>1
  <2>3. PICK r : r = [acc EXCEPT ![m].size = v]
    OBVIOUS
  <2>4. /\ r \in Seq(FreeBlock) /\ Len(r) = m
        /\ \A j \in 1..m : j # m => r[j] = acc[j]
        /\ r[m].at = acc[m].at /\ r[m].size = v
    BY <2>1, <2>3, <1>0, SizeChanged
  <2>5. JoinNode(acc, list[k]) = r
    BY <1>5, <1>1, <2>1, <2>2, <2>3 DEF JoinNode
  <2>a. /\ \A j \in 1..m : r[j].at = acc[j].at
        /\ \A j \in 1..m : j # m => r[j].size = acc[j].size
        /\ m \in Nat
    BY <2>4, <2>1, <1>0
  <2>b. \A j \in 1..m : r[j].size >= NODE_SIZE
    BY <2>a, <2>1, <2>2, <2>4, <1>0, <1>1, <1>2, AllocatorAssumption
  <2>c. ASSUME NEW i \in 1..m, NEW j \in 1..m, i < j PROVE r[i].at + r[i].size <= r[j].at
    <3>1. i # m /\ acc[i].at + acc[i].size <= acc[j].at
      BY <2>c, <2>1, <1>2
    <3> QED  BY <3>1, <2>a
  <2>6. ListFits(r)
    BY <2>4, <2>b, <2>c DEF ListFits
  <2>7. BlockEnd(r[Len(r)]) = BlockEnd(list[k]) /\ Len(r) > 0
    BY <2>0, <2>1, <2>2, <2>4, <1>0, <1>1 DEF BlockEnd
  <2>8. ASSUME NEW x \in Nat PROVE InList(r, x) <=> (InList(acc, x) \/ InBlock(n, x))
    <3>1. InBlock(r[m], x) <=> (InBlock(acc[m], x) \/ InBlock(n, x))
      <4>1. PICK A \in Nat, B \in Nat, C \in Nat : A = acc[m].at /\ B = acc[m].size /\ C = n.size
        BY <2>1, <1>0, <1>1
      <4>2. r[m].at = A /\ r[m].size = B + C /\ n.at = A + B
        BY <4>1, <2>0, <2>1, <2>2, <2>4
      <4>3. InBlock(r[m], x) <=> (A <= x /\ x < A + (B + C))
        BY <4>2 DEF InBlock
      <4>4. InBlock(acc[m], x) <=> (A <= x /\ x < A + B)
        BY <4>1 DEF InBlock
      <4>5. InBlock(n, x) <=> (A + B <= x /\ x < A + B + C)
        BY <4>1, <4>2 DEF InBlock
      <4> QED  BY <4>3, <4>4, <4>5
    <3> QED  BY <3>1, <2>1, <2>4 DEF InList
  <2> QED  BY <2>5, <2>6, <2>7, <2>8, <1>4, <1>0 DEF PrefixJoined
<1>6. CASE ~(acc # <<>> /\ Adjacent(Last(acc), n))
  <2>1. PICK r : r = Append(acc, n)
    OBVIOUS
  <2>2. /\ r \in Seq(FreeBlock) /\ Len(r) = Len(acc) + 1
        /\ \A i \in 1..Len(acc) : r[i] = acc[i]
        /\ r[Len(acc) + 1] = n
    BY <2>1, <1>0, AppendProperties
  <2>3. JoinNode(acc, list[k]) = r
    BY <1>6, <1>1, <2>1 DEF JoinNode
  <2>a. \A i \in 1..Len(r) : i \in 1..Len(acc) \/ i = Len(acc) + 1
    BY <2>2, <1>0
  <2>b. \A i \in 1..Len(r) : r[i].size >= NODE_SIZE
    BY <2>a, <2>2, <1>1, <1>2
  <2>c. ASSUME NEW i \in 1..Len(r), NEW j \in 1..Len(r), i < j PROVE r[i].at + r[i].size <= r[j].at
    <3>1. i \in 1..Len(acc)
      BY <2>a, <2>c, <2>2, <1>0
    <3>2. CASE j \in 1..Len(acc)
      BY <3>1, <3>2, <2>c, <2>2, <1>2
    <3>3. CASE j = Len(acc) + 1
      BY <3>1, <3>3, <2>2, <1>3
    <3> QED  BY <3>2, <3>3, <2>a
  <2>4. ListFits(r)
    BY <2>2, <2>b, <2>c DEF ListFits
  <2>5. ASSUME NEW x \in Nat PROVE InList(r, x) <=> (InList(acc, x) \/ InBlock(n, x))
    <3>1. InBlock(n, x) => InList(r, x)
      <4>1. Len(acc) + 1 \in 1..Len(r)
        BY <2>2, <1>0
      <4> QED  BY <4>1, <2>2 DEF InList
    <3>2. InList(acc, x) => InList(r, x)
      <4>1. \A i \in 1..Len(acc) : i \in 1..Len(r)
        BY <2>2, <1>0
      <4> QED  BY <4>1, <2>2 DEF InList
    <3>3. InList(r, x) => InList(acc, x) \/ InBlock(n, x)
      BY <2>a, <2>2 DEF InList
    <3> QED  BY <3>1, <3>2, <3>3
  <2> QED  BY <2>2, <2>3, <2>4, <2>5, <1>0, <1>1, <1>4 DEF PrefixJoined
<1> QED
  BY <1>5, <1>6

LEMMA JoinNodeType ==
    ASSUME NEW acc \in Seq(FreeBlock), NEW n \in FreeBlock
    PROVE  JoinNode(acc, n) \in Seq(FreeBlock)
<1>1. CASE acc # <<>> /\ Adjacent(Last(acc), n)
  <2>1. PICK m \in 1..Len(acc) : m = Len(acc)
    BY <1>1, EmptySeq, FreeBlockParts
  <2>2. PICK v \in Nat : v = acc[m].size + n.size
    BY FreeBlockParts DEF FreeBlock
  <2>3. [acc EXCEPT ![m].size = v] \in Seq(FreeBlock)
    BY SizeChanged
  <2> QED  BY <1>1, <2>1, <2>2, <2>3 DEF JoinNode
<1>2. CASE ~(acc # <<>> /\ Adjacent(Last(acc), n))
  BY <1>2, AppendProperties DEF JoinNode
<1> QED
  BY <1>1, <1>2

\* Joining leaves a list of the same cells.
LEMMA JoinKeeps ==
    ASSUME NEW list, ListFits(list)
    PROVE  /\ ListFits(JoinFreeNodes(list))
           /\ \A x \in Nat : InList(JoinFreeNodes(list), x) <=> InList(list, x)
<1> DEFINE n == Len(list)  S == Seq(FreeBlock)
           joins == [p \in S \X (1..n) |-> JoinNode(p[1], list[p[2]])]
<1>0. n \in Nat /\ \A k \in 1..n : list[k] \in FreeBlock
  BY FreeBlockParts DEF ListFits
<1>1. joins \in [S \X (1..n) -> S]
  BY <1>0, JoinNodeType
<1>2. PICK e \in S : e = <<>>
  BY EmptySeq
<1>3. \E f \in [0..n -> S] : f[0] = e /\ \A k \in 1..n : f[k] = joins[<<f[k - 1], k>>]
  <2>1. n \in Nat
    BY <1>0
  <2> HIDE DEF n, S, joins
  <2>2. \E f : IsIteration(f, S, n, e, joins)
    BY <1>1, <2>1, IterationExists
  <2> QED  BY <2>2 DEF IsIteration
<1>4. PICK f \in [0..n -> S] : f[0] = <<>> /\ \A k \in 1..n : f[k] = joins[<<f[k - 1], k>>]
  BY <1>2, <1>3
<1>5. ASSUME NEW k \in 1..n PROVE f[k] = JoinNode(f[k - 1], list[k])
  <2>1. PICK b \in S : b = f[k - 1]
    BY <1>0, <1>4
  <2>2. joins[<<b, k>>] = JoinNode(b, list[k])
    OBVIOUS
  <2> QED  BY <2>1, <2>2, <1>4
<1>6. IsJoining(list, f)
  BY <1>0, <1>4, <1>5 DEF IsJoining
<1>7. PICK g : g = (CHOOSE h : IsJoining(list, h))
  OBVIOUS
<1>8. IsJoining(list, g)
  BY <1>6, <1>7, Zenon
<1>9. g[0] = <<>> /\ \A k \in 1..n : g[k] = JoinNode(g[k - 1], list[k])
  BY <1>0, <1>8 DEF IsJoining
<1> DEFINE T == {k \in 0..n : ~PrefixJoined(list, k, g[k])}
<1>10. T = {}
  <2> SUFFICES ASSUME T # {} PROVE FALSE
    OBVIOUS
  <2>1. T \in SUBSET Nat
    BY <1>0
  <2>2. PICK m \in T : \A y \in T : m <= y
    <3> HIDE DEF T
    <3> QED  BY <2>1, LeastNumber
  <2>3. m \in 0..n /\ ~PrefixJoined(list, m, g[m])
    OBVIOUS
  <2>4. CASE m = 0
    <3>1. Len(<<>>) = 0 /\ <<>> \in Seq(FreeBlock)
      BY EmptySeq
    <3>2. PrefixJoined(list, 0, <<>>)
      BY <3>1 DEF PrefixJoined, ListFits, InList
    <3> QED  BY <3>2, <2>3, <2>4, <1>9
  <2>5. CASE m # 0
    <3>1. m - 1 \in 0..n /\ m \in 1..n /\ m - 1 \notin T
      BY <2>2, <2>3, <2>5, <1>0
    <3>2. PrefixJoined(list, m - 1, g[m - 1])
      BY <3>1
    <3>3. PrefixJoined(list, m, JoinNode(g[m - 1], list[m]))
      BY <3>1, <3>2, JoinNodeKeeps
    <3> QED  BY <3>1, <3>3, <2>3, <1>9
  <2> QED  BY <2>4, <2>5
<1>11. n \in 0..n
  BY <1>0
<1>12. PrefixJoined(list, n, g[n])
  BY <1>10, <1>11
<1>13. JoinFreeNodes(list) = g[n]
  BY <1>7, JoinChosen
<1> QED
  BY <1>12, <1>13 DEF PrefixJoined, InList

\* No block ends where the next one begins.
NoNeighbours(q) == \A i \in 1..Len(q) - 1 : ~Adjacent(q[i], q[i + 1])

\* What the proofs use of a list that fits.
LEMMA FitsParts ==
    ASSUME NEW q, ListFits(q)
    PROVE  /\ q \in Seq(FreeBlock) /\ Len(q) \in Nat
           /\ \A i \in 1..Len(q) : /\ q[i] \in FreeBlock /\ q[i].at \in Nat /\ q[i].size \in Nat
                                   /\ q[i].size >= NODE_SIZE /\ q[i].size >= 1
           /\ \A i, j \in 1..Len(q) : i < j => q[i].at + q[i].size <= q[j].at
           /\ NODE_SIZE \in Nat /\ NODE_SIZE >= 1
<1>1. q \in Seq(FreeBlock) /\ Len(q) \in Nat
  BY FreeBlockParts DEF ListFits
<1>2. NODE_SIZE \in Nat /\ NODE_SIZE >= 1
  BY AllocatorAssumption
<1>3. ASSUME NEW i \in 1..Len(q)
      PROVE  q[i] \in FreeBlock /\ q[i].at \in Nat /\ q[i].size \in Nat /\ q[i].size >= NODE_SIZE
  BY <1>1, FreeBlockParts DEF ListFits
<1>4. ASSUME NEW i \in 1..Len(q) PROVE q[i].size >= 1
  BY <1>2, <1>3
<1>5. \A i, j \in 1..Len(q) : i < j => q[i].at + q[i].size <= q[j].at
  BY DEF ListFits
<1> QED
  BY <1>1, <1>2, <1>3, <1>4, <1>5

\* A cell is in one block of the list only.
LEMMA OneBlock ==
    ASSUME NEW q, ListFits(q), NEW i \in 1..Len(q), NEW j \in 1..Len(q), NEW x \in Nat,
           InBlock(q[i], x), InBlock(q[j], x)
    PROVE  i = j
<1>1. ASSUME NEW k \in 1..Len(q), NEW m \in 1..Len(q), InBlock(q[k], x), InBlock(q[m], x) PROVE ~(k < m)
  <2> SUFFICES ASSUME k < m PROVE FALSE
    OBVIOUS
  <2>1. PICK A \in Nat, B \in Nat, C \in Nat : A = q[k].at /\ B = q[k].size /\ C = q[m].at
    BY FitsParts
  <2>2. A + B <= C
    BY <2>1, FitsParts
  <2>3. x < A + B
    BY <1>1, <2>1 DEF InBlock
  <2>4. C <= x
    BY <1>1, <2>1 DEF InBlock
  <2> QED  BY <2>2, <2>3, <2>4
<1>2. ~(i < j) /\ ~(j < i)
  BY <1>1
<1> QED
  BY <1>2, FitsParts

\* The tail end of a block is cut off.
LEMMA Shrunk ==
    ASSUME NEW q, ListFits(q), NEW i \in 1..Len(q), NEW s \in Nat, s >= 1, q[i].size - s >= NODE_SIZE
    PROVE  LET r == [q EXCEPT ![i].size = q[i].size - s]
               A == q[i].at + q[i].size - s
           IN  /\ ListFits(r) /\ A \in Nat
               /\ \A x \in Nat : InList(r, x) <=> (InList(q, x) /\ ~(A <= x /\ x < A + s))
               /\ \A x \in Nat : A <= x /\ x < A + s => InList(q, x)
               /\ NoNeighbours(q) => NoNeighbours(r)
<1> USE FitsParts
<1>1. PICK a \in Nat, z \in Nat : a = q[i].at /\ z = q[i].size
  OBVIOUS
<1>2. PICK v \in Nat : v = z - s /\ v >= NODE_SIZE
  BY <1>1
<1>3. PICK r : r = [q EXCEPT ![i].size = v]
  OBVIOUS
<1>4. /\ r \in Seq(FreeBlock) /\ Len(r) = Len(q)
      /\ \A j \in 1..Len(q) : j # i => r[j] = q[j]
      /\ r[i].at = a /\ r[i].size = v
  BY <1>1, <1>3, SizeChanged
<1>5. ASSUME NEW j \in 1..Len(q)
      PROVE  r[j].at = q[j].at /\ r[j].size \in Nat /\ r[j].size <= q[j].size /\ r[j].size >= NODE_SIZE
  <2>1. CASE j = i
    BY <1>1, <1>2, <1>4, <2>1
  <2>2. CASE j # i
    BY <1>4, <2>2
  <2> QED  BY <2>1, <2>2
<1>6. ASSUME NEW j \in 1..Len(q), NEW k \in 1..Len(q), j < k PROVE r[j].at + r[j].size <= r[k].at
  <2>1. q[j].at + q[j].size <= q[k].at
    BY <1>6
  <2>2. /\ q[j].at \in Nat /\ q[j].size \in Nat /\ q[k].at \in Nat /\ r[j].size \in Nat
        /\ r[j].at = q[j].at /\ r[k].at = q[k].at /\ r[j].size <= q[j].size
    BY <1>5
  <2> QED  BY <2>1, <2>2
<1>7. ListFits(r)
  BY <1>4, <1>5, <1>6 DEF ListFits
<1>8. PICK A \in Nat : A = a + v /\ A = a + z - s /\ A + s = a + z
  BY <1>2
<1>9. ASSUME NEW x \in Nat
      PROVE  /\ InBlock(q[i], x) <=> (a <= x /\ x < a + z)
             /\ InBlock(r[i], x) <=> (a <= x /\ x < A)
  BY <1>1, <1>4, <1>8 DEF InBlock
<1>10. ASSUME NEW x \in Nat PROVE A <= x /\ x < A + s => InBlock(q[i], x) /\ ~InBlock(r[i], x)
  <2> HIDE FitsParts
  <2>1. a <= A
    BY <1>8
  <2> QED  BY <2>1, <1>8, <1>9
<1>11. ASSUME NEW x \in Nat PROVE InList(r, x) <=> (InList(q, x) /\ ~(A <= x /\ x < A + s))
  <2>1. ASSUME NEW j \in 1..Len(q), InBlock(r[j], x) PROVE InBlock(q[j], x) /\ ~(A <= x /\ x < A + s)
    <3>1. CASE j = i
      BY <2>1, <3>1, <1>8, <1>9
    <3>2. CASE j # i
      BY <2>1, <3>2, <1>4, <1>10, OneBlock
    <3> QED  BY <3>1, <3>2
  <2>2. ASSUME NEW j \in 1..Len(q), InBlock(q[j], x), ~(A <= x /\ x < A + s) PROVE InBlock(r[j], x)
    <3>1. CASE j = i
      BY <2>2, <3>1, <1>8, <1>9
    <3>2. CASE j # i
      BY <2>2, <3>2, <1>4
    <3> QED  BY <3>1, <3>2
  <2> QED  BY <2>1, <2>2, <1>4 DEF InList
<1>12. ASSUME NEW x \in Nat, A <= x /\ x < A + s PROVE InList(q, x)
  BY <1>10, <1>12 DEF InList
<1>13. ASSUME NoNeighbours(q), NEW j \in 1..Len(r) - 1 PROVE ~Adjacent(r[j], r[j + 1])
  <2>1. j \in 1..Len(q) /\ j + 1 \in 1..Len(q) /\ j < j + 1 /\ j \in 1..Len(q) - 1
    BY <1>4
  <2>2. q[j].at + q[j].size # q[j + 1].at /\ q[j].at + q[j].size <= q[j + 1].at
    BY <1>13, <2>1 DEF NoNeighbours, Adjacent
  <2>3. /\ q[j].at \in Nat /\ q[j].size \in Nat /\ q[j + 1].at \in Nat /\ r[j].size \in Nat
        /\ r[j].at = q[j].at /\ r[j + 1].at = q[j + 1].at /\ r[j].size <= q[j].size
    BY <1>5, <2>1
  <2> HIDE FitsParts
  <2>4. PICK b \in Nat, c \in Nat, d \in Nat, e \in Nat :
             b = q[j].at /\ c = q[j].size /\ d = q[j + 1].at /\ e = r[j].size
    BY <2>3
  <2>5. b + c # d /\ b + c <= d /\ e <= c
    BY <2>2, <2>3, <2>4
  <2>6. b + e # d
    BY <2>5
  <2> QED  BY <2>3, <2>4, <2>6 DEF Adjacent
<1>14. NoNeighbours(q) => NoNeighbours(r)
  BY <1>13 DEF NoNeighbours
<1>15. r = [q EXCEPT ![i].size = q[i].size - s] /\ A = q[i].at + q[i].size - s
  BY <1>1, <1>2, <1>3, <1>8
<1> QED
  BY <1>7, <1>11, <1>12, <1>14, <1>15

\* A block is taken out.
LEMMA TakenOut ==
    ASSUME NEW q, ListFits(q), NEW i \in 1..Len(q)
    PROVE  LET r == RemoveAt(q, i)
           IN  /\ ListFits(r)
               /\ \A x \in Nat : InList(r, x) <=> (InList(q, x) /\ ~InBlock(q[i], x))
               /\ NoNeighbours(q) => NoNeighbours(r)
<1>0. /\ q \in Seq(FreeBlock) /\ Len(q) \in Nat
      /\ \A j \in 1..Len(q) : /\ q[j] \in FreeBlock /\ q[j].at \in Nat /\ q[j].size \in Nat
                              /\ q[j].size >= NODE_SIZE /\ q[j].size >= 1
      /\ \A j, k \in 1..Len(q) : j < k => q[j].at + q[j].size <= q[k].at
  BY FitsParts
<1>1. PICK r : r = RemoveAt(q, i)
  OBVIOUS
<1>2. /\ r \in Seq(FreeBlock) /\ Len(r) = Len(q) - 1
      /\ \A k \in 1..(Len(q) - 1) : r[k] = IF k < i THEN q[k] ELSE q[k + 1]
  <2>1. IsRemoved(r, q, i)
    BY <1>1 DEF RemoveAt, IsRemoved
  <2> QED  BY <2>1, <1>0, RemovedList
<1>3. PICK f : f = [k \in 1..Len(r) |-> IF k < i THEN k ELSE k + 1]
  OBVIOUS
<1>4. /\ \A k \in 1..Len(r) : f[k] \in 1..Len(q) /\ f[k] # i /\ r[k] = q[f[k]]
      /\ \A k, m \in 1..Len(r) : k < m => f[k] < f[m]
  BY <1>0, <1>2, <1>3
<1>5. ASSUME NEW j \in 1..Len(q), j # i PROVE \E k \in 1..Len(r) : f[k] = j
  <2>1. CASE j < i
    <3>1. j \in 1..Len(r) /\ f[j] = j
      BY <2>1, <1>0, <1>2, <1>3
    <3> QED  BY <3>1
  <2>2. CASE j > i
    <3>1. j - 1 \in 1..Len(r) /\ f[j - 1] = j
      BY <2>2, <1>0, <1>2, <1>3
    <3> QED  BY <3>1
  <2> QED  BY <2>1, <2>2, <1>5, <1>0
<1>6. ListFits(r)
  <2>1. \A k \in 1..Len(r) : r[k].size >= NODE_SIZE
    BY <1>0, <1>4
  <2>2. \A k, m \in 1..Len(r) : k < m => r[k].at + r[k].size <= r[m].at
    BY <1>0, <1>4
  <2> QED  BY <1>2, <2>1, <2>2 DEF ListFits
<1>7. ASSUME NEW x \in Nat PROVE InList(r, x) <=> (InList(q, x) /\ ~InBlock(q[i], x))
  <2>1. ASSUME NEW k \in 1..Len(r), InBlock(r[k], x) PROVE InList(q, x) /\ ~InBlock(q[i], x)
    BY <2>1, <1>4, OneBlock DEF InList
  <2>2. ASSUME NEW j \in 1..Len(q), InBlock(q[j], x), ~InBlock(q[i], x) PROVE InList(r, x)
    <3>1. PICK k \in 1..Len(r) : f[k] = j
      BY <1>5, <2>2
    <3> QED  BY <3>1, <1>4, <2>2 DEF InList
  <2> QED  BY <2>1, <2>2 DEF InList
<1>8. ASSUME NoNeighbours(q), NEW k \in 1..Len(r) - 1 PROVE ~Adjacent(r[k], r[k + 1])
  <2>1. k \in 1..Len(r) /\ k + 1 \in 1..Len(r)
    BY <1>0, <1>2
  <2>2. CASE f[k + 1] = f[k] + 1
    <3>1. f[k] \in 1..Len(q) /\ f[k] + 1 \in 1..Len(q) /\ r[k] = q[f[k]] /\ r[k + 1] = q[f[k] + 1]
      BY <2>1, <2>2, <1>4
    <3>2. f[k] \in 1..Len(q) - 1
      BY <3>1, <1>0
    <3> QED  BY <3>1, <3>2, <1>8 DEF NoNeighbours
  <2>3. CASE f[k + 1] # f[k] + 1
    <3>1. k = i - 1 /\ f[k] = i - 1 /\ f[k + 1] = i + 1 /\ i - 1 \in 1..Len(q) /\ i + 1 \in 1..Len(q)
      BY <2>1, <2>3, <1>0, <1>2, <1>3
    <3>2. r[k] = q[i - 1] /\ r[k + 1] = q[i + 1]
      BY <2>1, <3>1, <1>4
    <3>3. PICK a \in Nat, z \in Nat, b \in Nat, y \in Nat, c \in Nat :
             a = q[i - 1].at /\ z = q[i - 1].size /\ b = q[i].at /\ y = q[i].size /\ c = q[i + 1].at
      BY <3>1, <1>0
    <3>a. i - 1 < i /\ i < i + 1
      BY <1>0
    <3>b. q[i - 1].at + q[i - 1].size <= q[i].at /\ q[i].at + q[i].size <= q[i + 1].at /\ q[i].size >= 1
      BY <3>1, <3>a, <1>0
    <3>4. a + z <= b /\ b + y <= c /\ y >= 1
      BY <3>3, <3>b
    <3>5. a + z # c
      BY <3>4
    <3> QED  BY <3>2, <3>3, <3>5 DEF Adjacent
  <2> QED  BY <2>2, <2>3
<1>9. NoNeighbours(q) => NoNeighbours(r)
  BY <1>8 DEF NoNeighbours
<1> QED
  BY <1>1, <1>6, <1>7, <1>9

\* No neighbours except perhaps at c and the place after it.
NeighboursOnlyAt(q, c) == \A i \in 1..Len(q) - 1 : i # c => ~Adjacent(q[i], q[i + 1])

\* A block swallows the next one, which it touches.
LEMMA Merged ==
    ASSUME NEW q, ListFits(q), NEW c \in 1..Len(q), c < Len(q), Adjacent(q[c], q[c + 1])
    PROVE  LET r == RemoveAt([q EXCEPT ![c].size = q[c].size + q[c + 1].size], c + 1)
           IN  /\ ListFits(r)
               /\ \A x \in Nat : InList(r, x) <=> InList(q, x)
               /\ NeighboursOnlyAt(q, c) => NoNeighbours(r)
<1>0. /\ q \in Seq(FreeBlock) /\ Len(q) \in Nat /\ NODE_SIZE \in Nat
      /\ \A j \in 1..Len(q) : /\ q[j] \in FreeBlock /\ q[j].at \in Nat /\ q[j].size \in Nat
                              /\ q[j].size >= NODE_SIZE /\ q[j].size >= 1
      /\ \A j, k \in 1..Len(q) : j < k => q[j].at + q[j].size <= q[k].at
  BY FitsParts
<1>1. PICK d \in 1..Len(q) : d = c + 1
  BY <1>0
<1>2. PICK a \in Nat, z \in Nat, y \in Nat : a = q[c].at /\ z = q[c].size /\ y = q[d].size
  BY <1>0
<1>3. q[d].at = a + z /\ z >= NODE_SIZE /\ y >= NODE_SIZE
  BY <1>0, <1>1, <1>2 DEF Adjacent
<1>4. PICK v \in Nat : v = z + y
  OBVIOUS
<1>5. PICK p : p = [q EXCEPT ![c].size = v]
  OBVIOUS
<1>6. /\ p \in Seq(FreeBlock) /\ Len(p) = Len(q)
      /\ \A j \in 1..Len(q) : j # c => p[j] = q[j]
      /\ p[c].at = a /\ p[c].size = v
  BY <1>0, <1>2, <1>5, SizeChanged
<1>7. PICK r : r = RemoveAt(p, d)
  OBVIOUS
<1>8. /\ r \in Seq(FreeBlock) /\ Len(r) = Len(q) - 1
      /\ \A k \in 1..(Len(q) - 1) : r[k] = IF k < d THEN p[k] ELSE p[k + 1]
  <2>0. d \in 1..Len(p)
    BY <1>6
  <2>1. IsRemoved(r, p, d)
    BY <1>7 DEF RemoveAt, IsRemoved
  <2>2. /\ r \in Seq(FreeBlock) /\ Len(r) = Len(p) - 1
        /\ \A k \in 1..(Len(p) - 1) : r[k] = IF k < d THEN p[k] ELSE p[k + 1]
    BY <2>0, <2>1, <1>6, RemovedList
  <2> QED  BY <2>2, <1>6
<1>9. PICK f : f = [k \in 1..Len(r) |-> IF k <= c THEN k ELSE k + 1]
  OBVIOUS
<1>10. /\ \A k \in 1..Len(r) : f[k] \in 1..Len(q) /\ f[k] # d /\ (k = c <=> f[k] = c)
       /\ \A k \in 1..Len(r) : k # c => r[k] = q[f[k]]
       /\ \A k, m \in 1..Len(r) : k < m => f[k] < f[m]
       /\ c \in 1..Len(r) /\ f[c] = c /\ r[c].at = a /\ r[c].size = v
  BY <1>0, <1>1, <1>6, <1>8, <1>9
<1>11. ASSUME NEW j \in 1..Len(q), j # d PROVE \E k \in 1..Len(r) : f[k] = j
  <2>1. CASE j <= c
    <3>1. j \in 1..Len(r) /\ f[j] = j
      BY <2>1, <1>0, <1>1, <1>8, <1>9
    <3> QED  BY <3>1
  <2>2. CASE j > c
    <3>1. j - 1 \in 1..Len(r) /\ f[j - 1] = j
      BY <2>2, <1>11, <1>0, <1>1, <1>8, <1>9
    <3> QED  BY <3>1
  <2>3. j \in Int /\ c \in Int
    BY <1>0, <1>1
  <2>4. j <= c \/ j > c
    BY <2>3
  <2> QED  BY <2>1, <2>2, <2>4
<1>18. r[c].at + r[c].size = q[d].at + q[d].size
  <2>1. r[c].at + r[c].size = a + v
    BY <1>10
  <2>2. q[d].at + q[d].size = (a + z) + y
    BY <1>2, <1>3
  <2> QED  BY <2>1, <2>2, <1>4
<1>12. ListFits(r)
  <2>1. ASSUME NEW k \in 1..Len(r) PROVE r[k].size >= NODE_SIZE
    <3>1. v >= NODE_SIZE
      BY <1>0, <1>3, <1>4
    <3>2. CASE k = c
      BY <3>1, <3>2, <1>10
    <3>3. CASE k # c
      BY <3>3, <1>0, <1>10
    <3> QED  BY <3>2, <3>3
  <2>2. ASSUME NEW k \in 1..Len(r), NEW m \in 1..Len(r), k < m PROVE r[k].at + r[k].size <= r[m].at
    <3>1. f[k] \in 1..Len(q) /\ f[m] \in 1..Len(q) /\ f[k] < f[m]
      BY <2>2, <1>10
    <3>2. r[m].at = q[f[m]].at
      BY <1>2, <1>10
    <3>3. CASE k = c
      <4>1. d < f[m] /\ q[d].at + q[d].size <= q[f[m]].at
        BY <2>2, <3>1, <3>3, <1>0, <1>1, <1>10
      <4> QED  BY <4>1, <3>3, <1>18, <3>2
    <3>4. CASE k # c
      BY <3>1, <3>2, <3>4, <1>0, <1>10
    <3> QED  BY <3>3, <3>4
  <2> QED  BY <1>8, <2>1, <2>2 DEF ListFits
<1>13. ASSUME NEW x \in Nat PROVE InBlock(r[c], x) <=> (InBlock(q[c], x) \/ InBlock(q[d], x))
  <2>1. InBlock(r[c], x) <=> (a <= x /\ x < a + v)
    BY <1>10 DEF InBlock
  <2>2. InBlock(q[c], x) <=> (a <= x /\ x < a + z)
    BY <1>2 DEF InBlock
  <2>3. InBlock(q[d], x) <=> (a + z <= x /\ x < a + z + y)
    BY <1>2, <1>3 DEF InBlock
  <2> QED  BY <2>1, <2>2, <2>3, <1>4
<1>14. ASSUME NEW x \in Nat PROVE InList(r, x) <=> InList(q, x)
  <2>1. ASSUME NEW k \in 1..Len(r), InBlock(r[k], x) PROVE InList(q, x)
    BY <2>1, <1>10, <1>13 DEF InList
  <2>2. ASSUME NEW j \in 1..Len(q), InBlock(q[j], x) PROVE InList(r, x)
    <3>1. CASE j = d \/ j = c
      BY <2>2, <3>1, <1>10, <1>13 DEF InList
    <3>2. CASE j # d /\ j # c
      <4>1. PICK k \in 1..Len(r) : f[k] = j
        BY <1>11, <3>2
      <4> QED  BY <4>1, <3>2, <1>10, <2>2 DEF InList
    <3> QED  BY <3>1, <3>2
  <2> QED  BY <2>1, <2>2 DEF InList
<1>15. ASSUME NeighboursOnlyAt(q, c), NEW k \in 1..Len(r) - 1 PROVE ~Adjacent(r[k], r[k + 1])
  <2>1. k \in 1..Len(r) /\ k + 1 \in 1..Len(r)
    BY <1>0, <1>8
  <2>2. r[k + 1].at = q[f[k + 1]].at
    BY <2>1, <1>2, <1>10
  <2>3. CASE k # c
    <3>1. /\ f[k + 1] = f[k] + 1 /\ f[k] \in 1..Len(q) - 1 /\ f[k] # c
      BY <2>1, <2>3, <1>0, <1>1, <1>8, <1>9
    <3>2. r[k] = q[f[k]] /\ ~Adjacent(q[f[k]], q[f[k] + 1])
      BY <2>1, <2>3, <3>1, <1>10, <1>15 DEF NeighboursOnlyAt
    <3> QED  BY <3>1, <3>2, <2>2 DEF Adjacent
  <2>4. CASE k = c
    <3>1. /\ f[k + 1] = d + 1 /\ d \in 1..Len(q) - 1 /\ d # c
      BY <2>1, <2>4, <1>0, <1>1, <1>8, <1>9
    <3>2. ~Adjacent(q[d], q[d + 1])
      BY <3>1, <1>15 DEF NeighboursOnlyAt
    <3>3. r[k].at + r[k].size = q[d].at + q[d].size
      BY <2>4, <1>18
    <3> QED  BY <3>1, <3>2, <3>3, <2>2 DEF Adjacent
  <2> QED  BY <2>3, <2>4
<1>16. NeighboursOnlyAt(q, c) => NoNeighbours(r)
  BY <1>15 DEF NoNeighbours
<1>17. r = RemoveAt([q EXCEPT ![c].size = q[c].size + q[c + 1].size], c + 1)
  BY <1>1, <1>2, <1>4, <1>5, <1>7
<1> QED
  BY <1>12, <1>14, <1>16, <1>17

\* Where a block that shares no cell with the list belongs.
LEMMA PlaceOf ==
    ASSUME NEW q, ListFits(q), NEW n \in FreeBlock, n.size >= NODE_SIZE,
           \A x \in Nat : InBlock(n, x) => ~InList(q, x),
           NEW put, put = Cardinality({i \in 1..Len(q) : q[i].at < n.at})
    PROVE  /\ put \in 0..Len(q)
           /\ \A i \in 1..Len(q) : i <= put => q[i].at + q[i].size <= n.at
           /\ \A i \in 1..Len(q) : put < i => n.at + n.size <= q[i].at
<1>0. /\ Len(q) \in Nat /\ NODE_SIZE \in Nat /\ NODE_SIZE >= 1
      /\ \A j \in 1..Len(q) : q[j].at \in Nat /\ q[j].size \in Nat /\ q[j].size >= 1
      /\ \A j, k \in 1..Len(q) : j < k => q[j].at + q[j].size <= q[k].at
  BY FitsParts
<1>1. PICK a \in Nat, z \in Nat : a = n.at /\ z = n.size /\ z >= 1
  BY <1>0 DEF FreeBlock
<1> DEFINE A == {i \in 1..Len(q) : q[i].at < n.at}
<1>2. A \in SUBSET (1..Len(q))
  OBVIOUS
<1>3. ASSUME NEW i \in A, NEW j \in 1..Len(q), j < i PROVE j \in A
  <2>1. i \in 1..Len(q) /\ q[i].at < a
    BY <1>1
  <2>2. PICK c \in Nat, d \in Nat, e \in Nat : c = q[j].at /\ d = q[j].size /\ e = q[i].at
    BY <1>0, <2>1
  <2>3. c + d <= e /\ e < a
    BY <1>3, <1>0, <2>1, <2>2
  <2>4. c < a
    BY <2>3
  <2> QED  BY <1>1, <2>2, <2>4
<1>4. put \in 0..Len(q) /\ A = 1..put
  <2> HIDE DEF A
  <2>1. \A i \in A : \A j \in 1..Len(q) : j < i => j \in A
    BY <1>3
  <2>2. put = Cardinality(A)
    BY DEF A
  <2> QED  BY <1>0, <1>2, <2>1, <2>2, FirstNumbers
<1>5. ASSUME NEW i \in 1..Len(q), i <= put PROVE q[i].at + q[i].size <= n.at
  <2>1. i \in A
    BY <1>4, <1>5, <1>0
  <2>2. PICK c \in Nat, d \in Nat : c = q[i].at /\ d = q[i].size
    BY <1>0
  <2>3. c < a
    BY <2>1, <2>2, <1>1
  <2>4. ~(a < c + d)
    <3> SUFFICES ASSUME a < c + d PROVE FALSE
      OBVIOUS
    <3>1. InBlock(q[i], a)
      BY <2>2, <2>3 DEF InBlock
    <3>2. InBlock(n, a)
      BY <1>1 DEF InBlock
    <3> QED  BY <3>1, <3>2 DEF InList
  <2> QED  BY <2>2, <2>4, <1>1
<1>6. ASSUME NEW i \in 1..Len(q), put < i PROVE n.at + n.size <= q[i].at
  <2>1. i \notin A
    <3> HIDE DEF A
    <3>1. A = 1..put /\ put \in Nat /\ i \in Nat /\ ~(i <= put)
      BY <1>4, <1>6, <1>0
    <3> QED  BY <3>1
  <2>2. PICK c \in Nat, d \in Nat : c = q[i].at /\ d = q[i].size /\ d >= 1
    BY <1>0
  <2>3. a <= c
    BY <2>1, <2>2, <1>1
  <2>4. ~(c < a + z)
    <3> SUFFICES ASSUME c < a + z PROVE FALSE
      OBVIOUS
    <3>1. InBlock(q[i], c)
      BY <2>2 DEF InBlock
    <3>2. InBlock(n, c)
      BY <1>1, <2>3 DEF InBlock
    <3> QED  BY <3>1, <3>2 DEF InList
  <2> QED  BY <2>2, <2>4, <1>1
<1> QED
  BY <1>4, <1>5, <1>6

\* A block goes into the list at its place.
LEMMA PutIn ==
    ASSUME NEW q, ListFits(q), NEW n \in FreeBlock, n.size >= NODE_SIZE,
           NEW put \in 0..Len(q),
           \A i \in 1..Len(q) : i <= put => q[i].at + q[i].size <= n.at,
           \A i \in 1..Len(q) : put < i => n.at + n.size <= q[i].at
    PROVE  LET r == InsertAt(q, put + 1, n)
           IN  /\ ListFits(r) /\ Len(r) = Len(q) + 1
               /\ \A x \in Nat : InList(r, x) <=> (InList(q, x) \/ InBlock(n, x))
               /\ NoNeighbours(q) /\ (put = 0 \/ ~Adjacent(q[put], n)) => NeighboursOnlyAt(r, put + 1)
<1>0. /\ q \in Seq(FreeBlock) /\ Len(q) \in Nat
      /\ \A j \in 1..Len(q) : q[j].size >= NODE_SIZE
      /\ \A j, k \in 1..Len(q) : j < k => q[j].at + q[j].size <= q[k].at
  BY FitsParts
<1>1. PICK p \in 1..(Len(q) + 1) : p = put + 1
  BY <1>0
<1>2. PICK r : r = InsertAt(q, p, n)
  OBVIOUS
<1>3. /\ r \in Seq(FreeBlock) /\ Len(r) = Len(q) + 1
      /\ \A i \in 1..(Len(q) + 1) : r[i] = IF i < p THEN q[i] ELSE IF i = p THEN n ELSE q[i - 1]
  <2>1. IsInserted(r, q, p, n)
    BY <1>2 DEF IsInserted, InsertAt
  <2> QED  BY <2>1, <1>0, InsertedAt
<1>4. /\ \A i \in 1..Len(r) : i < p => i \in 1..Len(q) /\ i <= put /\ r[i] = q[i]
      /\ p \in 1..Len(r) /\ r[p] = n
      /\ \A i \in 1..Len(r) : i > p => i - 1 \in 1..Len(q) /\ put < i - 1 /\ r[i] = q[i - 1]
  BY <1>0, <1>1, <1>3
<1>5. ListFits(r)
  <2>1. \A i \in 1..Len(r) : r[i].size >= NODE_SIZE
    BY <1>0, <1>1, <1>4
  <2>2. ASSUME NEW i \in 1..Len(r), NEW j \in 1..Len(r), i < j PROVE r[i].at + r[i].size <= r[j].at
    <3>1. CASE i < p /\ j < p
      BY <2>2, <3>1, <1>0, <1>4
    <3>2. CASE i < p /\ j = p
      BY <3>2, <1>4
    <3>3. CASE i < p /\ j > p
      <4>1. i < j - 1
        BY <3>3, <1>1, <1>3, <1>0
      <4> QED  BY <4>1, <3>3, <1>0, <1>4
    <3>4. CASE i = p
      BY <2>2, <3>4, <1>4
    <3>5. CASE i > p
      <4>1. i - 1 < j - 1 /\ j > p
        BY <2>2, <3>5, <1>1, <1>3, <1>0
      <4> QED  BY <4>1, <3>5, <1>0, <1>4
    <3> QED  BY <3>1, <3>2, <3>3, <3>4, <3>5, <1>1, <1>0, <1>3
  <2> QED  BY <1>3, <2>1, <2>2 DEF ListFits
<1>6. ASSUME NEW x \in Nat PROVE InList(r, x) <=> (InList(q, x) \/ InBlock(n, x))
  <2>1. ASSUME NEW i \in 1..Len(r), InBlock(r[i], x) PROVE InList(q, x) \/ InBlock(n, x)
    <3>1. i < p \/ i = p \/ i > p
      BY <1>1, <1>0, <1>3
    <3> QED  BY <2>1, <3>1, <1>4 DEF InList
  <2>2. ASSUME NEW j \in 1..Len(q), InBlock(q[j], x) PROVE InList(r, x)
    <3>1. CASE j < p
      <4>1. j \in 1..Len(r) /\ r[j] = q[j]
        BY <3>1, <1>0, <1>3, <1>4
      <4> QED  BY <2>2, <4>1 DEF InList
    <3>2. CASE j >= p
      <4>1. j + 1 \in 1..Len(r) /\ j + 1 > p /\ (j + 1) - 1 = j
        BY <3>2, <1>0, <1>1, <1>3
      <4>2. r[j + 1] = q[j]
        BY <4>1, <1>4
      <4> QED  BY <2>2, <4>1, <4>2 DEF InList
    <3> QED  BY <3>1, <3>2, <1>0, <1>1
  <2>3. InBlock(n, x) => InList(r, x)
    BY <1>4 DEF InList
  <2> QED  BY <2>1, <2>2, <2>3 DEF InList
<1>7. ASSUME NoNeighbours(q), put = 0 \/ ~Adjacent(q[put], n), NEW i \in 1..Len(r) - 1, i # p
      PROVE  ~Adjacent(r[i], r[i + 1])
  <2>1. i \in 1..Len(r) /\ i + 1 \in 1..Len(r)
    BY <1>0, <1>3
  <2>2. CASE i + 1 < p
    <3>1. i < p /\ i \in 1..Len(q) - 1
      BY <2>1, <2>2, <1>0, <1>1, <1>3
    <3>2. r[i] = q[i] /\ r[i + 1] = q[i + 1]
      BY <2>1, <2>2, <3>1, <1>4
    <3> QED  BY <3>1, <3>2, <1>7 DEF NoNeighbours
  <2>3. CASE i + 1 = p
    <3>1. i = put /\ i < p /\ put # 0
      BY <2>1, <2>3, <1>0, <1>1
    <3>2. r[i] = q[put] /\ r[i + 1] = n
      BY <2>1, <2>3, <3>1, <1>4
    <3> QED  BY <3>1, <3>2, <1>7
  <2>4. CASE i + 1 > p
    <3>1. i > p /\ i - 1 \in 1..Len(q) - 1 /\ (i - 1) + 1 = i /\ (i + 1) - 1 = i
      BY <2>1, <2>4, <1>7, <1>0, <1>1, <1>3
    <3>2. r[i] = q[i - 1] /\ r[i + 1] = q[(i - 1) + 1]
      BY <2>1, <2>4, <3>1, <1>4
    <3> QED  BY <3>1, <3>2, <1>7 DEF NoNeighbours
  <2> QED  BY <2>1, <2>2, <2>3, <2>4, <1>1, <1>0
<1>8. NoNeighbours(q) /\ (put = 0 \/ ~Adjacent(q[put], n)) => NeighboursOnlyAt(r, p)
  BY <1>7 DEF NeighboursOnlyAt
<1> QED
  BY <1>1, <1>2, <1>3, <1>5, <1>6, <1>8

\* The block before it takes it in.
LEMMA Grown ==
    ASSUME NEW q, ListFits(q), NEW n \in FreeBlock, n.size >= NODE_SIZE,
           NEW put \in 1..Len(q), Adjacent(q[put], n),
           \A i \in 1..Len(q) : put < i => n.at + n.size <= q[i].at
    PROVE  LET r == [q EXCEPT ![put].size = q[put].size + n.size]
           IN  /\ ListFits(r) /\ Len(r) = Len(q)
               /\ \A x \in Nat : InList(r, x) <=> (InList(q, x) \/ InBlock(n, x))
               /\ NoNeighbours(q) => NeighboursOnlyAt(r, put)
<1>0. /\ q \in Seq(FreeBlock) /\ Len(q) \in Nat /\ NODE_SIZE \in Nat
      /\ \A j \in 1..Len(q) : q[j].size >= NODE_SIZE /\ q[j].at \in Nat /\ q[j].size \in Nat
      /\ \A j, k \in 1..Len(q) : j < k => q[j].at + q[j].size <= q[k].at
  BY FitsParts
<1>1. PICK a \in Nat, z \in Nat, y \in Nat : a = q[put].at /\ z = q[put].size /\ y = n.size
  BY <1>0 DEF FreeBlock
<1>2. n.at = a + z
  BY <1>1 DEF Adjacent
<1>3. PICK v \in Nat : v = z + y /\ v >= NODE_SIZE
  BY <1>0, <1>1
<1>4. PICK r : r = [q EXCEPT ![put].size = v]
  OBVIOUS
<1>5. /\ r \in Seq(FreeBlock) /\ Len(r) = Len(q)
      /\ \A j \in 1..Len(q) : j # put => r[j] = q[j]
      /\ r[put].at = a /\ r[put].size = v
  BY <1>0, <1>1, <1>4, SizeChanged
<1>6. r[put].at + r[put].size = n.at + n.size
  <2>1. r[put].at + r[put].size = a + v
    BY <1>5
  <2>2. n.at + n.size = (a + z) + y
    BY <1>1, <1>2
  <2> QED  BY <2>1, <2>2, <1>3
<1>7. \A j \in 1..Len(q) : r[j].at = q[j].at
  BY <1>1, <1>5
<1>8. ListFits(r)
  <2>1. \A i \in 1..Len(r) : r[i].size >= NODE_SIZE
    BY <1>0, <1>3, <1>5
  <2>2. ASSUME NEW i \in 1..Len(r), NEW j \in 1..Len(r), i < j PROVE r[i].at + r[i].size <= r[j].at
    <3>1. r[j].at = q[j].at
      BY <1>5, <1>7
    <3>2. CASE i = put
      BY <2>2, <3>1, <3>2, <1>5, <1>6
    <3>3. CASE i # put
      BY <2>2, <3>1, <3>3, <1>0, <1>5
    <3> QED  BY <3>2, <3>3
  <2> QED  BY <1>5, <2>1, <2>2 DEF ListFits
<1>9. ASSUME NEW x \in Nat PROVE InList(r, x) <=> (InList(q, x) \/ InBlock(n, x))
  <2>1. InBlock(r[put], x) <=> (a <= x /\ x < a + v)
    BY <1>5 DEF InBlock
  <2>2. InBlock(q[put], x) <=> (a <= x /\ x < a + z)
    BY <1>1 DEF InBlock
  <2>3. InBlock(n, x) <=> (a + z <= x /\ x < a + z + y)
    BY <1>1, <1>2 DEF InBlock
  <2>4. InBlock(r[put], x) <=> (InBlock(q[put], x) \/ InBlock(n, x))
    BY <2>1, <2>2, <2>3, <1>3
  <2> QED  BY <2>4, <1>5 DEF InList
<1>10. ASSUME NoNeighbours(q), NEW i \in 1..Len(r) - 1, i # put PROVE ~Adjacent(r[i], r[i + 1])
  <2>1. i \in 1..Len(q) - 1 /\ i \in 1..Len(q) /\ i + 1 \in 1..Len(q)
    BY <1>0, <1>5
  <2>2. r[i] = q[i] /\ r[i + 1].at = q[i + 1].at
    BY <2>1, <1>5, <1>7, <1>10
  <2>3. ~Adjacent(q[i], q[i + 1])
    BY <2>1, <1>10 DEF NoNeighbours
  <2> QED  BY <2>2, <2>3 DEF Adjacent
<1>11. NoNeighbours(q) => NeighboursOnlyAt(r, put)
  BY <1>10 DEF NeighboursOnlyAt
<1>12. r = [q EXCEPT ![put].size = q[put].size + n.size]
  BY <1>1, <1>3, <1>4
<1> QED
  BY <1>5, <1>8, <1>9, <1>11, <1>12

\* The blocks handed out, and the cells they hold.
UsedBlock == [at : Nat, size : Nat, want : Nat]

InSome(u, x) == \E b \in u : InBlock(b, x)

\* The list q and the blocks u that are handed out share the buffer between
\* them: every cell is in one of the two, and in one block only.
Tiled(q, u) ==
    /\ ListFits(q)
    /\ u \in SUBSET UsedBlock
    /\ \A b \in u : b.size >= b.want + NODE_SIZE
    /\ \A x \in Nat : (x < mSize) <=> (InList(q, x) \/ InSome(u, x))
    /\ \A b \in u : \A x \in Nat : InBlock(b, x) => ~InList(q, x)
    /\ \A a, b \in u : \A x \in Nat : InBlock(a, x) /\ InBlock(b, x) => a = b

\* The inductive invariant.
AllocInv ==
    /\ Tiled(mFreeList, used)
    /\ mDoCoalesceOnFree => NoNeighbours(mFreeList)

\* A block handed out leaves the list with its cells.
LEMMA HandedOut ==
    ASSUME NEW q, NEW u, Tiled(q, u), NEW r, ListFits(r),
           NEW b \in UsedBlock, b.size >= b.want + NODE_SIZE,
           \A x \in Nat : InList(r, x) <=> (InList(q, x) /\ ~InBlock(b, x)),
           \A x \in Nat : InBlock(b, x) => InList(q, x)
    PROVE  Tiled(r, u \cup {b})
<1>1. u \cup {b} \in SUBSET UsedBlock /\ \A c \in u \cup {b} : c.size >= c.want + NODE_SIZE
  BY DEF Tiled
<1>2. \A x \in Nat : InSome(u \cup {b}, x) <=> (InSome(u, x) \/ InBlock(b, x))
  BY DEF InSome
<1>3. \A x \in Nat : (x < mSize) <=> (InList(r, x) \/ InSome(u \cup {b}, x))
  BY <1>2 DEF Tiled
<1>4. \A c \in u \cup {b} : \A x \in Nat : InBlock(c, x) => ~InList(r, x)
  BY DEF Tiled
<1>5. \A a, c \in u \cup {b} : \A x \in Nat : InBlock(a, x) /\ InBlock(c, x) => a = c
  BY DEF Tiled
<1> QED
  BY <1>1, <1>3, <1>4, <1>5 DEF Tiled

\* A block given back takes its cells to the list.
LEMMA GivenBack ==
    ASSUME NEW q, NEW u, Tiled(q, u), NEW r, ListFits(r), NEW b \in u,
           \A x \in Nat : InList(r, x) <=> (InList(q, x) \/ InBlock(b, x))
    PROVE  Tiled(r, u \ {b})
<1>1. u \ {b} \in SUBSET UsedBlock /\ \A c \in u \ {b} : c.size >= c.want + NODE_SIZE
  BY DEF Tiled
<1>2. \A x \in Nat : InSome(u, x) <=> (InSome(u \ {b}, x) \/ InBlock(b, x))
  BY DEF InSome
<1>3. \A x \in Nat : (x < mSize) <=> (InList(r, x) \/ InSome(u \ {b}, x))
  BY <1>2 DEF Tiled
<1>4. \A c \in u \ {b} : \A x \in Nat : InBlock(c, x) => ~InList(r, x)
  BY DEF Tiled
<1>5. \A a, c \in u \ {b} : \A x \in Nat : InBlock(a, x) /\ InBlock(c, x) => a = c
  BY DEF Tiled
<1> QED
  BY <1>1, <1>3, <1>4, <1>5 DEF Tiled

\* A list with the same cells serves as well.
LEMMA SameCells ==
    ASSUME NEW q, NEW u, Tiled(q, u), NEW r, ListFits(r),
           \A x \in Nat : InList(r, x) <=> InList(q, x)
    PROVE  Tiled(r, u)
  BY DEF Tiled

\* Alone at the start.
LEMMA AllocStarts ==
    ASSUME AllocInit PROVE AllocInv
<1>1. mSize \in Nat /\ NODE_SIZE \in Nat /\ mSize >= NODE_SIZE
  BY AllocatorAssumption
<1>2. PICK n \in FreeBlock : n = [at |-> 0, size |-> mSize]
  BY <1>1 DEF FreeBlock
<1>8. n.at = 0 /\ n.size = mSize
  BY <1>2
<1>3. /\ mFreeList = <<n>> /\ mFreeList \in Seq(FreeBlock) /\ Len(mFreeList) = 1 /\ mFreeList[1] = n
  BY <1>2 DEF AllocInit
<1>4. ListFits(mFreeList) /\ NoNeighbours(mFreeList)
  BY <1>1, <1>8, <1>3 DEF ListFits, NoNeighbours
<1>5. \A x \in Nat : InList(mFreeList, x) <=> x < mSize
  <2> TAKE x \in Nat
  <2>1. InBlock(n, x) <=> x < mSize
    BY <1>1, <1>8 DEF InBlock
  <2>2. InList(mFreeList, x) <=> InBlock(n, x)
    BY <1>3 DEF InList
  <2> QED  BY <2>1, <2>2
<1>6. used = {}
  BY DEF AllocInit
<1>7. Tiled(mFreeList, used)
  BY <1>4, <1>5, <1>6 DEF Tiled, InSome
<1> QED
  BY <1>4, <1>7 DEF AllocInv

\* What first fit finds.
LEMMA FirstFitFinds ==
    ASSUME NEW q, ListFits(q), NEW size \in Nat, NEW i, i = FirstFit(q, size), i # 0
    PROVE  i \in 1..Len(q) /\ q[i].size >= size
<1> DEFINE fits == {j \in 1..Len(q) : q[j].size >= size}
<1>1. Len(q) \in Nat
  BY FitsParts
<1>2. fits # {} /\ i = Min(fits)
  BY DEF FirstFit
<1>3. Min(fits) \in fits
  <2> HIDE DEF fits
  <2>1. fits \subseteq Nat
    BY <1>1 DEF fits
  <2>2. PICK m \in fits : \A n \in fits : m <= n
    BY <1>2, <2>1, LeastNumber
  <2> QED  BY <2>2, Zenon DEF Min
<1> QED
  BY <1>2, <1>3

\* alloc hands out the end of a block, or all of it.
LEMMA TakeKeeps ==
    ASSUME AllocInv, NEW want \in Nat, NEW size \in Nat, size = want + NODE_SIZE,
           NEW i \in 1..Len(mFreeList), mFreeList[i].size >= size,
           Take(i, size, want), UNCHANGED mDoCoalesceOnFree
    PROVE  AllocInv'
<1>0. /\ Tiled(mFreeList, used) /\ ListFits(mFreeList) /\ NODE_SIZE \in Nat /\ NODE_SIZE >= 1
      /\ SMALLEST_BLOCK \in Nat
  BY AllocatorAssumption DEF AllocInv, Tiled
<1>1. PICK q, u : q = mFreeList /\ u = used
  OBVIOUS
<1>2. PICK a \in Nat, z \in Nat : a = q[i].at /\ z = q[i].size
  BY <1>0, <1>1, FitsParts
<1>3. Tiled(q, u) /\ ListFits(q) /\ i \in 1..Len(q) /\ z >= size /\ size >= 1
  BY <1>0, <1>1, <1>2
<1>a. CASE z - size >= NODE_SIZE + SMALLEST_BLOCK
  <2>1. PICK A \in Nat : A = a + z - size
    BY <1>2, <1>3
  <2>2. PICK b \in UsedBlock : b = [at |-> A, size |-> size, want |-> want]
    BY DEF UsedBlock
  <2>3. b.at = A /\ b.size = size /\ b.want = want
    BY <2>2
  <2>4. PICK r : r = [q EXCEPT ![i].size = q[i].size - size]
    OBVIOUS
  <2>5. mFreeList' = r /\ used' = u \cup {b}
    BY <1>a, <1>1, <1>2, <2>1, <2>2, <2>4 DEF Take
  <2>6. q[i].size - size >= NODE_SIZE
    BY <1>a, <1>2, <1>0
  <2>7. /\ ListFits(r)
        /\ \A x \in Nat : InList(r, x) <=> (InList(q, x) /\ ~(A <= x /\ x < A + size))
        /\ \A x \in Nat : A <= x /\ x < A + size => InList(q, x)
        /\ NoNeighbours(q) => NoNeighbours(r)
    BY <1>2, <1>3, <2>1, <2>4, <2>6, Shrunk
  <2>8. \A x \in Nat : InBlock(b, x) <=> (A <= x /\ x < A + size)
    BY <2>3 DEF InBlock
  <2>9. b.size >= b.want + NODE_SIZE
    BY <2>3, <1>0
  <2>10. Tiled(r, u \cup {b})
    BY <1>3, <2>7, <2>8, <2>9, HandedOut
  <2> QED  BY <2>5, <2>7, <2>10, <1>1 DEF AllocInv
<1>b. CASE ~(z - size >= NODE_SIZE + SMALLEST_BLOCK)
  <2>2. PICK b \in UsedBlock : b = [at |-> a, size |-> z, want |-> want]
    BY DEF UsedBlock
  <2>3. b.at = a /\ b.size = z /\ b.want = want
    BY <2>2
  <2>4. PICK r : r = RemoveAt(q, i)
    OBVIOUS
  <2>5. mFreeList' = r /\ used' = u \cup {b}
    BY <1>b, <1>1, <1>2, <2>2, <2>4 DEF Take
  <2>7. /\ ListFits(r)
        /\ \A x \in Nat : InList(r, x) <=> (InList(q, x) /\ ~InBlock(q[i], x))
        /\ NoNeighbours(q) => NoNeighbours(r)
    BY <1>3, <2>4, TakenOut
  <2>8. \A x \in Nat : InBlock(b, x) <=> InBlock(q[i], x)
    BY <2>3, <1>2 DEF InBlock
  <2>9. b.size >= b.want + NODE_SIZE
    BY <2>3, <1>0, <1>3
  <2>10. \A x \in Nat : InBlock(b, x) => InList(q, x)
    BY <2>8, <1>3 DEF InList
  <2>11. Tiled(r, u \cup {b})
    BY <1>3, <2>7, <2>8, <2>9, <2>10, HandedOut
  <2> QED  BY <2>5, <2>7, <2>11, <1>1 DEF AllocInv
<1> QED
  BY <1>a, <1>b

LEMMA AllocKeeps ==
    ASSUME AllocInv, NEW want \in Request, Alloc(want) PROVE AllocInv'
<1>1. want \in Nat /\ NODE_SIZE \in Nat /\ want + NODE_SIZE < Width /\ want + NODE_SIZE \in Nat
  BY AllocatorAssumption
<1>2. PICK size \in Nat : size = want + NODE_SIZE
  BY <1>1
<1>3. BlockSize(want) = size
  <2>1. Width \in Nat
    BY AllocatorAssumption
  <2> QED  BY <1>1, <1>2, <2>1 DEF BlockSize
<1>4. PICK i : i = FirstFit(mFreeList, size)
  OBVIOUS
<1>5. i # 0 /\ Take(i, size, want) /\ UNCHANGED mDoCoalesceOnFree
  BY <1>3, <1>4 DEF Alloc
<1>6. ListFits(mFreeList)
  BY DEF AllocInv, Tiled
<1>7. i \in 1..Len(mFreeList) /\ mFreeList[i].size >= size
  BY <1>4, <1>5, <1>6, FirstFitFinds
<1> QED
  BY <1>1, <1>2, <1>5, <1>7, TakeKeeps

\* The blocks are joined.
LEMMA JoinedKeeps ==
    ASSUME AllocInv, mFreeList' = mFreeList \/ (~mDoCoalesceOnFree /\ mFreeList' = JoinFreeNodes(mFreeList)),
           UNCHANGED <<mDoCoalesceOnFree, used>>
    PROVE  AllocInv'
<1>1. Tiled(mFreeList, used) /\ ListFits(mFreeList)
  BY DEF AllocInv, Tiled
<1>2. CASE mFreeList' = mFreeList
  BY <1>2 DEF AllocInv
<1>3. CASE ~mDoCoalesceOnFree /\ mFreeList' = JoinFreeNodes(mFreeList)
  <2>1. PICK q, u, r : q = mFreeList /\ u = used /\ r = JoinFreeNodes(q)
    OBVIOUS
  <2>2. ListFits(r) /\ \A x \in Nat : InList(r, x) <=> InList(q, x)
    BY <1>1, <2>1, JoinKeeps
  <2>3. Tiled(r, u)
    BY <1>1, <2>1, <2>2, SameCells
  <2> QED  BY <1>3, <2>1, <2>3 DEF AllocInv
<1> QED
  BY <1>2, <1>3

LEMMA AllocFailsKeeps ==
    ASSUME AllocInv, NEW want \in Request, AllocFails(want) PROVE AllocInv'
  BY JoinedKeeps DEF AllocFails

LEMMA GetFreeSpaceKeeps ==
    ASSUME AllocInv, GetFreeSpace PROVE AllocInv'
  BY JoinedKeeps DEF GetFreeSpace

\* Then the block may swallow the next one: the cells stay, and no free
\* neighbours are left where free() joins.
LEMMA SwallowKeeps ==
    ASSUME NEW q, ListFits(q), NEW c \in 1..Len(q), NEW co, co => NeighboursOnlyAt(q, c), NEW r,
           \/ /\ co /\ c < Len(q) /\ Adjacent(q[c], q[c + 1])
              /\ r = RemoveAt([q EXCEPT ![c].size = q[c].size + q[c + 1].size], c + 1)
           \/ ~(co /\ c < Len(q) /\ Adjacent(q[c], q[c + 1])) /\ r = q
    PROVE  /\ ListFits(r) /\ \A x \in Nat : InList(r, x) <=> InList(q, x)
           /\ co => NoNeighbours(r)
<1> DEFINE into == co /\ c < Len(q) /\ Adjacent(q[c], q[c + 1])
<1>1. CASE into
  <2>1. co /\ c < Len(q) /\ Adjacent(q[c], q[c + 1]) /\ NeighboursOnlyAt(q, c)
    BY <1>1
  <2>2. r = RemoveAt([q EXCEPT ![c].size = q[c].size + q[c + 1].size], c + 1)
    BY <1>1
  <2> QED  BY <2>1, <2>2, Merged
<1>2. CASE ~into
  <2>1. r = q
    BY <1>2
  <2>2. ASSUME co PROVE NoNeighbours(q)
    <3> SUFFICES ASSUME NEW i \in 1..Len(q) - 1 PROVE ~Adjacent(q[i], q[i + 1])
      BY DEF NoNeighbours
    <3>0. Len(q) \in Nat
      BY FitsParts
    <3>1. CASE i = c
      <4>1. c < Len(q)
        BY <3>0, <3>1
      <4> QED  BY <1>2, <2>2, <3>1, <4>1
    <3>2. CASE i # c
      BY <2>2, <3>2 DEF NeighboursOnlyAt
    <3> QED  BY <3>1, <3>2
  <2> QED  BY <2>1, <2>2
<1> QED
  BY <1>1, <1>2

LEMMA FreeKeeps ==
    ASSUME AllocInv, mDoCoalesceOnFree \in BOOLEAN, NEW b \in used, Free(b) PROVE AllocInv'
<1>1. PICK q, u : q = mFreeList /\ u = used
  OBVIOUS
<1>2. /\ Tiled(q, u) /\ ListFits(q) /\ b \in u
      /\ mDoCoalesceOnFree => NoNeighbours(q)
  BY <1>1 DEF AllocInv, Tiled
<1>3. b \in UsedBlock /\ b.size >= b.want + NODE_SIZE /\ b.at \in Nat /\ b.size \in Nat /\ b.want \in Nat
  BY <1>2 DEF Tiled, UsedBlock
<1>4. NODE_SIZE \in Nat /\ Len(q) \in Nat
  BY <1>2, FitsParts
<1>5. PICK n \in FreeBlock : n = [at |-> b.at, size |-> b.size]
  BY <1>3 DEF FreeBlock
<1>6. n.at = b.at /\ n.size = b.size /\ n.size >= NODE_SIZE
  <2>1. n.at = b.at /\ n.size = b.size
    BY <1>5
  <2> QED  BY <2>1, <1>3, <1>4
<1>7. \A x \in Nat : InBlock(n, x) <=> InBlock(b, x)
  BY <1>6 DEF InBlock
<1>8. \A x \in Nat : InBlock(n, x) => ~InList(q, x)
  BY <1>2, <1>7 DEF Tiled
<1>9. PICK put : put = Cardinality({i \in 1..Len(q) : q[i].at < n.at})
  OBVIOUS
<1>10. /\ put \in 0..Len(q)
       /\ \A i \in 1..Len(q) : i <= put => q[i].at + q[i].size <= n.at
       /\ \A i \in 1..Len(q) : put < i => n.at + n.size <= q[i].at
  BY <1>2, <1>6, <1>8, <1>9, PlaceOf
<1> DEFINE intoPrev == mDoCoalesceOnFree /\ put > 0 /\ Adjacent(q[put], n)
<1>12. PICK list, cur : /\ list = IF intoPrev THEN [q EXCEPT ![put].size = q[put].size + n.size]
                                   ELSE InsertAt(q, put + 1, n)
                        /\ cur = IF intoPrev THEN put ELSE put + 1
  OBVIOUS
<1>13. /\ ListFits(list) /\ cur \in 1..Len(list)
       /\ \A x \in Nat : InList(list, x) <=> (InList(q, x) \/ InBlock(n, x))
       /\ mDoCoalesceOnFree => NeighboursOnlyAt(list, cur)
  <2>1. CASE intoPrev
    <3>1. mDoCoalesceOnFree /\ put \in 1..Len(q) /\ Adjacent(q[put], n)
      BY <2>1, <1>10, <1>4
    <3>2. list = [q EXCEPT ![put].size = q[put].size + n.size] /\ cur = put
      BY <2>1, <1>12
    <3>3. /\ ListFits(list) /\ Len(list) = Len(q)
          /\ \A x \in Nat : InList(list, x) <=> (InList(q, x) \/ InBlock(n, x))
          /\ NoNeighbours(q) => NeighboursOnlyAt(list, put)
      BY <1>2, <1>6, <1>10, <3>1, <3>2, Grown
    <3> QED  BY <3>1, <3>2, <3>3, <1>2
  <2>2. CASE ~intoPrev
    <3>1. mDoCoalesceOnFree => (put = 0 \/ ~Adjacent(q[put], n))
      BY <2>2, <1>10, <1>4
    <3>2. list = InsertAt(q, put + 1, n) /\ cur = put + 1
      BY <2>2, <1>12
    <3>3. /\ ListFits(list) /\ Len(list) = Len(q) + 1
          /\ \A x \in Nat : InList(list, x) <=> (InList(q, x) \/ InBlock(n, x))
          /\ NoNeighbours(q) /\ (put = 0 \/ ~Adjacent(q[put], n)) => NeighboursOnlyAt(list, put + 1)
      BY <1>2, <1>6, <1>10, <3>2, PutIn
    <3>4. cur \in 1..Len(list)
      BY <3>2, <3>3, <1>10, <1>4
    <3> QED  BY <3>1, <3>2, <3>3, <3>4, <1>2
  <2> QED  BY <2>1, <2>2
<1> DEFINE intoNext == mDoCoalesceOnFree /\ cur < Len(list) /\ Adjacent(list[cur], list[cur + 1])
<1>14. used' = u \ {b} /\ mDoCoalesceOnFree' = mDoCoalesceOnFree
  BY <1>1 DEF Free
<1>15. mFreeList' = IF intoNext THEN RemoveAt([list EXCEPT ![cur].size = list[cur].size + list[cur + 1].size], cur + 1)
                    ELSE list
  <2> DEFINE P == Cardinality({i \in 1..Len(mFreeList) : mFreeList[i].at < b.at})
             N == [at |-> b.at, size |-> b.size]
             Prev == mDoCoalesceOnFree /\ P > 0 /\ Adjacent(mFreeList[P], N)
             L == IF Prev THEN [mFreeList EXCEPT ![P].size = mFreeList[P].size + N.size]
                  ELSE InsertAt(mFreeList, P + 1, N)
             C == IF Prev THEN P ELSE P + 1
             Nxt == mDoCoalesceOnFree /\ C < Len(L) /\ Adjacent(L[C], L[C + 1])
  <2>1. mFreeList' = IF Nxt THEN RemoveAt([L EXCEPT ![C].size = L[C].size + L[C + 1].size], C + 1) ELSE L
    BY Zenon DEF Free
  <2>2. P = put
    BY <1>1, <1>6, <1>9
  <2>3. N = n
    BY <1>5
  <2> HIDE DEF P, N
  <2>4. L = list /\ C = cur
    BY <2>2, <2>3, <1>1, <1>12, Zenon
  <2> HIDE DEF L, C
  <2> QED  BY <2>1, <2>4, Zenon
<1>16. PICK r : r = mFreeList'
  OBVIOUS
<1>17. /\ ListFits(r) /\ \A x \in Nat : InList(r, x) <=> InList(list, x)
       /\ mDoCoalesceOnFree => NoNeighbours(r)
  <2>1. \/ /\ intoNext
           /\ r = RemoveAt([list EXCEPT ![cur].size = list[cur].size + list[cur + 1].size], cur + 1)
        \/ ~intoNext /\ r = list
    <3> HIDE DEF intoNext
    <3> QED  BY <1>15, <1>16
  <2> QED  BY <1>13, <2>1, SwallowKeeps
<1>18. \A x \in Nat : InList(r, x) <=> (InList(q, x) \/ InBlock(b, x))
  BY <1>7, <1>13, <1>17
<1>19. Tiled(r, u \ {b})
  BY <1>2, <1>17, <1>18, GivenBack
<1> QED
  BY <1>14, <1>16, <1>17, <1>19 DEF AllocInv

\* What the invariant says of the tiling.
LEMMA InvTiles ==
    ASSUME AllocInv PROVE BlocksTile
<1>1. PICK q, u : q = mFreeList /\ u = used
  OBVIOUS
<1>2. Tiled(q, u) /\ ListFits(q)
  BY <1>1 DEF AllocInv, Tiled
<1>3. /\ q \in Seq(FreeBlock) /\ Len(q) \in Nat
      /\ \A i \in 1..Len(q) : q[i].at \in Nat /\ q[i].size \in Nat /\ q[i].size >= NODE_SIZE
      /\ \A i, j \in 1..Len(q) : i < j => q[i].at + q[i].size <= q[j].at
  BY <1>2, FitsParts
<1>4. \A b \in u : b.at \in Nat /\ b.size \in Nat /\ b.size >= b.want + NODE_SIZE
  BY <1>2 DEF Tiled, UsedBlock
<1>5. ASSUME NEW b, b.at \in Nat, b.size \in Nat
      PROVE  \A x : x \in Cells(b) <=> (x \in Nat /\ InBlock(b, x))
  BY <1>5 DEF Cells, InBlock
<1>6. FreeBlocks = {q[i] : i \in 1..Len(q)}
  BY <1>1 DEF FreeBlocks
<1>7. \A x : x \in Nat => (InList(q, x) <=> \E f \in FreeBlocks : InBlock(f, x))
  BY <1>6 DEF InList
<1>8. \A f \in FreeBlocks : f.at \in Nat /\ f.size \in Nat /\ f.size >= NODE_SIZE
  BY <1>3, <1>6
<1>9. \A i \in 1..Len(q) - 1 : q[i].at + q[i].size <= q[i + 1].at
  BY <1>3
<1>10. ASSUME NEW a \in u, NEW b \in u, a # b PROVE Cells(a) \cap Cells(b) = {}
  BY <1>10, <1>2, <1>4, <1>5 DEF Tiled
<1>11. ASSUME NEW a \in u, NEW f \in FreeBlocks PROVE Cells(a) \cap Cells(f) = {}
  <2> SUFFICES ASSUME NEW x, x \in Cells(a), x \in Cells(f) PROVE FALSE
    OBVIOUS
  <2>1. x \in Nat /\ InBlock(a, x)
    BY <1>4, <1>5
  <2>2. InBlock(f, x)
    BY <1>8, <1>5
  <2>3. InList(q, x)
    BY <2>1, <2>2, <1>7
  <2> QED  BY <2>1, <2>3, <1>2 DEF Tiled
<1>12. UNION {Cells(b) : b \in u \cup FreeBlocks} = 0 .. mSize - 1
  <2>1. ASSUME NEW x PROVE (\E b \in u \cup FreeBlocks : x \in Cells(b)) <=> x \in 0 .. mSize - 1
    <3>1. (\E b \in u \cup FreeBlocks : x \in Cells(b)) <=> (x \in Nat /\ \E b \in u \cup FreeBlocks : InBlock(b, x))
      BY <1>4, <1>5, <1>8
    <3>2. x \in Nat => ((\E b \in u \cup FreeBlocks : InBlock(b, x)) <=> (InList(q, x) \/ InSome(u, x)))
      BY <1>7 DEF InSome
    <3>3. x \in Nat => (x < mSize <=> (InList(q, x) \/ InSome(u, x)))
      BY <1>2 DEF Tiled
    <3>4. x \in 0 .. mSize - 1 <=> (x \in Nat /\ x < mSize)
      BY AllocatorAssumption
    <3> QED  BY <3>1, <3>2, <3>3, <3>4
  <2> QED  BY <2>1
<1>13. mDoCoalesceOnFree => \A i \in 1..Len(q) - 1 : ~Adjacent(q[i], q[i + 1])
  BY <1>1 DEF AllocInv, NoNeighbours
<1> QED
  BY <1>1, <1>4, <1>8, <1>9, <1>10, <1>11, <1>12, <1>13 DEF BlocksTile

\* Free blocks and blocks handed out always tile the buffer, for every size of
\* the buffer, of a node and of the requests, and after any sequence of alloc,
\* free and getFreeSpace (Allocator.cpp): sorted, no gap, no overlap, each
\* with room for its node and its request; and when free() joins, no two free
\* neighbours are left.
THEOREM BlocksAlwaysTile == AllocSpec => []BlocksTile
<1> DEFINE Inv == AllocInv /\ mDoCoalesceOnFree \in BOOLEAN
<1>1. AllocInit => Inv
  BY AllocStarts DEF AllocInit
<1>2. Inv /\ [AllocNext]_allocVars => Inv'
  <2> SUFFICES ASSUME AllocInv, mDoCoalesceOnFree \in BOOLEAN, [AllocNext]_allocVars
               PROVE  AllocInv' /\ mDoCoalesceOnFree' \in BOOLEAN
    OBVIOUS
  <2>1. ASSUME NEW want \in Request, Alloc(want) PROVE AllocInv' /\ mDoCoalesceOnFree' = mDoCoalesceOnFree
    BY <2>1, AllocKeeps DEF Alloc
  <2>2. ASSUME NEW want \in Request, AllocFails(want) PROVE AllocInv' /\ mDoCoalesceOnFree' = mDoCoalesceOnFree
    BY <2>2, AllocFailsKeeps DEF AllocFails
  <2>3. ASSUME NEW b \in used, Free(b) PROVE AllocInv' /\ mDoCoalesceOnFree' = mDoCoalesceOnFree
    <3>1. AllocInv'
      BY <2>3, FreeKeeps
    <3> QED  BY <2>3, <3>1 DEF Free
  <2>4. ASSUME GetFreeSpace PROVE AllocInv' /\ mDoCoalesceOnFree' = mDoCoalesceOnFree
    BY <2>4, GetFreeSpaceKeeps DEF GetFreeSpace
  <2>5. CASE UNCHANGED allocVars
    BY <2>5 DEF allocVars, AllocInv
  <2> QED  BY <2>1, <2>2, <2>3, <2>4, <2>5 DEF AllocNext
<1>3. Inv => BlocksTile
  BY InvTiles
<1> QED
  BY <1>1, <1>2, <1>3, PTL DEF AllocSpec

-----------------------------------------------------------------------------
(* jh_vector *)

\* A buffer of n slots that holds the elements of s and raw memory behind them.
SlotsOf(n, s) == [i \in 0..n - 1 |-> IF i < Len(s) THEN s[i + 1] ELSE Raw]
Rec(n, s) == [alloc |-> n, data |-> SlotsOf(n, s), misuse |-> FALSE]

\* The buffer holds what the calls should have produced.
VectorInv ==
    /\ mAllocated \in Nat /\ elems \in Seq(Value) /\ Len(elems) <= mAllocated
    /\ mSizeV = Len(elems)
    /\ mData = SlotsOf(mAllocated, elems) /\ misuse = FALSE

LEMMA ElementsAreNotRaw ==
    ASSUME NEW s \in Seq(Value)
    PROVE  Len(s) \in Nat /\ \A i \in 1..Len(s) : s[i] \in Value /\ s[i] # Raw
<1>1. Len(s) \in Nat /\ \A i \in 1..Len(s) : s[i] \in Value
  BY LenProperties, ElementOfSeq
<1> QED
  BY <1>1, VectorAssumption, Zenon

\* A larger buffer takes the elements over.
LEMMA SizedUp ==
    ASSUME NEW s \in Seq(Value), NEW n \in Nat, Len(s) <= n, NEW size \in Nat,
           NEW to \in Nat, Len(s) <= to,
           to = IF size # 0 THEN size ELSE IF n # 0 THEN n * 2 ELSE DEFAULT_ALLOCATION
    PROVE  SizeUp(Rec(n, s), Len(s), size) = Rec(to, s)
<1>0. Len(s) \in Nat /\ \A i \in 1..Len(s) : s[i] # Raw
  BY ElementsAreNotRaw
<1>1. PICK d : d = SlotsOf(n, s)
  OBVIOUS
<1>2. \A i \in 0..n - 1 : d[i] = IF i < Len(s) THEN s[i + 1] ELSE Raw
  BY <1>1 DEF SlotsOf
<1>3. PICK B : B = Rec(n, s)
  OBVIOUS
<1>4. B.alloc = n /\ B.data = d /\ B.misuse = FALSE
  BY <1>1, <1>3 DEF Rec
<1>5. [i \in 0..to - 1 |-> IF i < Len(s) THEN B.data[i] ELSE Raw] = SlotsOf(to, s)
  BY <1>0, <1>2, <1>4 DEF SlotsOf
<1>6. ~(Len(s) > to) /\ ~\E i \in 0..Len(s) - 1 : B.data[i] = Raw
  BY <1>0, <1>2, <1>4
<1>7. (B.misuse \/ Len(s) > to \/ \E i \in 0..Len(s) - 1 : B.data[i] = Raw) = FALSE
  BY <1>4, <1>6
<1>8. to = IF size # 0 THEN size ELSE IF B.alloc # 0 THEN B.alloc * 2 ELSE DEFAULT_ALLOCATION
  BY <1>4
<1>9. SizeUp(B, Len(s), size) = [alloc |-> to, data |-> SlotsOf(to, s), misuse |-> FALSE]
  BY <1>5, <1>7, <1>8, Zenon DEF SizeUp
<1> QED
  BY <1>3, <1>9 DEF Rec

\* The elements vals are constructed behind those of s.
LEMMA Constructed ==
    ASSUME NEW s \in Seq(Value), NEW vals \in Seq(Value), NEW n \in Nat, Len(s) + Len(vals) <= n
    PROVE  Construct(Rec(n, s), Len(s), vals) = Rec(n, s \o vals)
<1>0. /\ Len(s) \in Nat /\ Len(vals) \in Nat
      /\ \A i \in 1..Len(vals) : vals[i] # Raw
  BY ElementsAreNotRaw
<1>a. /\ Len(s \o vals) = Len(s) + Len(vals)
      /\ \A i \in 1..(Len(s) + Len(vals)) : (s \o vals)[i] = IF i <= Len(s) THEN s[i] ELSE vals[i - Len(s)]
  BY ConcatProperties
<1>b. PICK r : r = s \o vals
  OBVIOUS
<1>1. PICK d : d = SlotsOf(n, s)
  OBVIOUS
<1>2. DOMAIN d = 0..n - 1 /\ \A i \in 0..n - 1 : d[i] = IF i < Len(s) THEN s[i + 1] ELSE Raw
  BY <1>1 DEF SlotsOf
<1>3. PICK B : B = [alloc |-> n, data |-> d, misuse |-> FALSE]
  OBVIOUS
<1>4. B.alloc = n /\ B.data = d /\ B.misuse = FALSE
  BY <1>3
<1>5. [i \in DOMAIN B.data |-> IF i \in Len(s)..Len(s) + Len(vals) - 1 THEN vals[i - Len(s) + 1] ELSE B.data[i]] = SlotsOf(n, r)
  <2>1. ASSUME NEW i \in 0..n - 1
        PROVE  (IF i \in Len(s)..Len(s) + Len(vals) - 1 THEN vals[i - Len(s) + 1] ELSE d[i])
                  = IF i < Len(r) THEN r[i + 1] ELSE Raw
    <3>0. Len(r) = Len(s) + Len(vals) /\ i \in Nat
      BY <1>a, <1>b
    <3>1. CASE i < Len(s)
      BY <3>0, <3>1, <1>0, <1>a, <1>b, <1>2
    <3>2. CASE ~(i < Len(s)) /\ i < Len(s) + Len(vals)
      <4>1. r[i + 1] = vals[i + 1 - Len(s)] /\ i + 1 - Len(s) = i - Len(s) + 1
        BY <3>0, <3>2, <1>0, <1>a, <1>b
      <4> QED  BY <3>0, <3>2, <4>1, <1>0
    <3>3. CASE ~(i < Len(s) + Len(vals))
      BY <3>0, <3>3, <1>0, <1>2
    <3> QED  BY <3>1, <3>2, <3>3
  <2> QED  BY <2>1, <1>2, <1>4 DEF SlotsOf
<1>6. /\ ~(Len(s) + Len(vals) > B.alloc)
      /\ ~\E i \in (Len(s)..Len(s) + Len(vals) - 1) \cap DOMAIN B.data : B.data[i] # Raw
      /\ ~\E i \in 1..Len(vals) : vals[i] = Raw
  BY <1>0, <1>2, <1>4
<1>7. (B.misuse \/ Len(s) + Len(vals) > B.alloc
                \/ (\E i \in (Len(s)..Len(s) + Len(vals) - 1) \cap DOMAIN B.data : B.data[i] # Raw)
                \/ (\E i \in 1..Len(vals) : vals[i] = Raw)) = FALSE
  BY <1>4, <1>6
<1>8. Construct(B, Len(s), vals) = [alloc |-> n, data |-> SlotsOf(n, r), misuse |-> FALSE]
  BY <1>4, <1>5, <1>7, Zenon DEF Construct
<1> QED
  BY <1>b, <1>1, <1>3, <1>8 DEF Rec

\* The elements behind the first k are destructed.
LEMMA Destructed ==
    ASSUME NEW s \in Seq(Value), NEW n \in Nat, Len(s) <= n, NEW k \in 0..Len(s),
           NEW r \in Seq(Value), Len(r) = k, \A i \in 1..k : r[i] = s[i]
    PROVE  Destruct(Rec(n, s), k, Len(s)) = Rec(n, r)
<1>0. /\ Len(s) \in Nat /\ \A i \in 1..Len(s) : s[i] # Raw
  BY ElementsAreNotRaw
<1>1. PICK d : d = SlotsOf(n, s)
  OBVIOUS
<1>2. DOMAIN d = 0..n - 1 /\ \A i \in 0..n - 1 : d[i] = IF i < Len(s) THEN s[i + 1] ELSE Raw
  BY <1>1 DEF SlotsOf
<1>3. PICK B : B = [alloc |-> n, data |-> d, misuse |-> FALSE]
  OBVIOUS
<1>4. B.alloc = n /\ B.data = d /\ B.misuse = FALSE
  BY <1>3
<1>5. [i \in DOMAIN B.data |-> IF i \in k..Len(s) - 1 THEN Raw ELSE B.data[i]] = SlotsOf(n, r)
  <2>1. ASSUME NEW i \in 0..n - 1
        PROVE  (IF i \in k..Len(s) - 1 THEN Raw ELSE d[i]) = IF i < Len(r) THEN r[i + 1] ELSE Raw
    <3>1. CASE i < k
      BY <1>0, <1>2, <3>1
    <3>2. CASE ~(i < k)
      <4>1. ~(i < Len(r))
        BY <3>2
      <4>2. i \notin k..Len(s) - 1 => ~(i < Len(s))
        BY <1>0, <3>2
      <4> QED  BY <1>2, <4>1, <4>2
    <3> QED  BY <3>1, <3>2
  <2> QED  BY <2>1, <1>2, <1>4 DEF SlotsOf
<1>6. ~\E i \in k..Len(s) - 1 : i \notin DOMAIN B.data \/ B.data[i] = Raw
  BY <1>0, <1>2, <1>4
<1>7. (B.misuse \/ \E i \in k..Len(s) - 1 : i \notin DOMAIN B.data \/ B.data[i] = Raw) = FALSE
  BY <1>4, <1>6
<1>8. Destruct(B, k, Len(s)) = [alloc |-> n, data |-> SlotsOf(n, r), misuse |-> FALSE]
  BY <1>4, <1>5, <1>7, Zenon DEF Destruct
<1> QED
  BY <1>1, <1>3, <1>8 DEF Rec

\* A step that ends in such a buffer keeps the invariant.
LEMMA BecomeKeeps ==
    ASSUME NEW n \in Nat, NEW s \in Seq(Value), Len(s) <= n, NEW k, k = Len(s), NEW e, e = s,
           NEW B, B = Rec(n, s), Become(B, k, e)
    PROVE  VectorInv'
<1>1. B.alloc = n /\ B.data = SlotsOf(n, s) /\ B.misuse = FALSE
  BY DEF Rec
<1>2. mAllocated' = n /\ mData' = SlotsOf(n, s) /\ misuse' = FALSE /\ mSizeV' = k /\ elems' = s
  BY <1>1 DEF Become
<1> QED
  BY <1>2 DEF VectorInv

LEMMA BufferHolds ==
    ASSUME VectorInv PROVE Buffer = Rec(mAllocated, elems)
  BY DEF VectorInv, Buffer, Rec

LEMMA VectorStarts ==
    ASSUME VectorInit PROVE VectorInv
<1>1. mAllocated \in Nat
  BY VectorAssumption DEF VectorInit
<1>2. elems = <<>> /\ elems \in Seq(Value) /\ Len(elems) = 0
  BY DEF VectorInit
<1>3. mData = SlotsOf(mAllocated, elems)
  BY <1>1, <1>2 DEF VectorInit, SlotsOf
<1> QED
  BY <1>1, <1>2, <1>3 DEF VectorInit, VectorInv

LEMMA PushBackKeeps ==
    ASSUME VectorInv, NEW v \in Value, VectorPushBack(v) PROVE VectorInv'
<1>1. PICK s, n : s = elems /\ n = mAllocated
  OBVIOUS
<1>2. s \in Seq(Value) /\ n \in Nat /\ Len(s) \in Nat /\ Len(s) <= n /\ mSizeV = Len(s)
  BY <1>1, LenProperties DEF VectorInv
<1>3. Buffer = Rec(n, s)
  BY <1>1, BufferHolds
<1>d. <<v>> \in Seq(Value) /\ Len(<<v>>) = 1
  OBVIOUS
<1>4. PICK w \in Seq(Value) : w = <<v>> /\ Len(w) = 1
  BY <1>d
<1>5. PICK to \in Nat : /\ Len(s) + 1 <= to
                        /\ (IF mSizeV = mAllocated THEN SizeUp(Buffer, mSizeV, 0) ELSE Buffer) = Rec(to, s)
  <2>1. CASE Len(s) = n
    <3>1. PICK to \in Nat : to = IF n # 0 THEN n * 2 ELSE DEFAULT_ALLOCATION
      BY <1>2, VectorAssumption
    <3>2. Len(s) + 1 <= to
      BY <2>1, <3>1, <1>2, VectorAssumption
    <3>3. to = IF 0 # 0 THEN 0 ELSE IF n # 0 THEN n * 2 ELSE DEFAULT_ALLOCATION
      BY <3>1
    <3>4. Len(s) <= to
      BY <1>2, <3>2
    <3>5. SizeUp(Rec(n, s), Len(s), 0) = Rec(to, s)
      BY <1>2, <3>3, <3>4, SizedUp
    <3> QED  BY <2>1, <1>1, <1>2, <1>3, <3>2, <3>5
  <2>2. CASE Len(s) # n
    BY <2>2, <1>1, <1>2, <1>3
  <2> QED  BY <2>1, <2>2
<1>6. Become(Construct(Rec(to, s), Len(s), w), Len(s) + 1, Append(s, v))
  BY <1>1, <1>2, <1>4, <1>5, Zenon DEF VectorPushBack
<1>7. Construct(Rec(to, s), Len(s), w) = Rec(to, s \o w)
  BY <1>2, <1>4, <1>5, Constructed
<1>8. /\ s \o w \in Seq(Value) /\ Len(s \o w) = Len(s) + 1 /\ Append(s, v) = s \o w
  BY <1>2, <1>4
<1> QED
  BY <1>5, <1>6, <1>7, <1>8, BecomeKeeps

LEMMA PushBackOwnKeeps ==
    ASSUME VectorInv, NEW i \in 0..mSizeV - 1, PushBackOwn(i) PROVE VectorInv'
<1>1. PICK s, n : s = elems /\ n = mAllocated
  OBVIOUS
<1>2. s \in Seq(Value) /\ n \in Nat /\ Len(s) \in Nat /\ Len(s) <= n /\ mSizeV = Len(s) /\ mData = SlotsOf(n, s)
  BY <1>1, LenProperties DEF VectorInv
<1>3. Buffer = Rec(n, s)
  BY <1>1, BufferHolds
<1>a. Len(s) + 1 <= n /\ i \in Nat /\ i + 1 \in 1..Len(s)
  BY <1>1, <1>2 DEF PushBackOwn
<1>b. PICK v \in Value : v = s[i + 1]
  BY <1>a, <1>2, ElementsAreNotRaw
<1>c. mData[i] = v
  BY <1>a, <1>b, <1>2 DEF SlotsOf
<1>d. <<v>> \in Seq(Value) /\ Len(<<v>>) = 1
  OBVIOUS
<1>4. PICK w \in Seq(Value) : w = <<v>> /\ Len(w) = 1
  BY <1>d
<1>6. Become(Construct(Rec(n, s), Len(s), w), Len(s) + 1, Append(s, v))
  BY <1>1, <1>2, <1>3, <1>4, <1>b, <1>c, Zenon DEF PushBackOwn
<1>7. Construct(Rec(n, s), Len(s), w) = Rec(n, s \o w)
  BY <1>2, <1>4, <1>a, Constructed
<1>8. /\ s \o w \in Seq(Value) /\ Len(s \o w) = Len(s) + 1 /\ Append(s, v) = s \o w
  BY <1>2, <1>4
<1> QED
  BY <1>2, <1>a, <1>6, <1>7, <1>8, BecomeKeeps

LEMMA EraseKeeps ==
    ASSUME VectorInv, NEW i \in 0..mSizeV - 1, VectorErase(i) PROVE VectorInv'
<1>1. PICK s, n : s = elems /\ n = mAllocated
  OBVIOUS
<1>2. s \in Seq(Value) /\ n \in Nat /\ Len(s) \in Nat /\ Len(s) <= n /\ mSizeV = Len(s) /\ mData = SlotsOf(n, s)
  BY <1>1, LenProperties DEF VectorInv
<1>3. i \in Nat /\ i < Len(s)
  BY <1>2
<1>4. PICK r : r = [k \in 1..Len(s) - 1 |-> IF k <= i THEN s[k] ELSE s[k + 1]]
  OBVIOUS
<1>5. r \in Seq(Value) /\ Len(r) = Len(s) - 1
  <2>1. \A k \in 1..Len(s) - 1 : (IF k <= i THEN s[k] ELSE s[k + 1]) \in Value
    BY <1>2, ElementsAreNotRaw
  <2>2. Len(s) - 1 \in Nat
    BY <1>2, <1>3
  <2> QED  BY <1>4, <2>1, <2>2
<1>6. PICK d : d = mData
  OBVIOUS
<1>7. DOMAIN d = 0..n - 1 /\ \A k \in 0..n - 1 : d[k] = IF k < Len(s) THEN s[k + 1] ELSE Raw
  BY <1>2, <1>6 DEF SlotsOf
<1>8. PICK m : m = [k \in DOMAIN d |-> IF k \in i..Len(s) - 2 THEN d[k + 1] ELSE d[k]]
  OBVIOUS
<1>9. DOMAIN m = 0..n - 1 /\ \A k \in 0..n - 1 : m[k] = IF k \in i..Len(s) - 2 THEN d[k + 1] ELSE d[k]
  BY <1>7, <1>8
<1>10. PICK B : B = [alloc |-> n, data |-> m, misuse |-> FALSE]
  OBVIOUS
<1>11. B.alloc = n /\ B.data = m /\ B.misuse = FALSE
  BY <1>10
<1>12. [Buffer EXCEPT !.data = m] = B
  <2>1. Buffer = [alloc |-> n, data |-> d, misuse |-> FALSE]
    BY <1>1, <1>6 DEF VectorInv, Buffer
  <2>2. PICK f : f = FALSE
    OBVIOUS
  <2>3. [[alloc |-> n, data |-> d, misuse |-> f] EXCEPT !.data = m] = [alloc |-> n, data |-> m, misuse |-> f]
    OBVIOUS
  <2> QED  BY <2>1, <2>2, <2>3, <1>10
<1>13. Become(Destruct(B, Len(s) - 1, Len(s)), Len(s) - 1, r)
  BY <1>1, <1>2, <1>4, <1>6, <1>8, <1>12, Zenon DEF VectorErase
<1>14. [k \in DOMAIN B.data |-> IF k \in Len(s) - 1..Len(s) - 1 THEN Raw ELSE B.data[k]] = SlotsOf(n, r)
  <2>1. ASSUME NEW k \in 0..n - 1
        PROVE  (IF k \in Len(s) - 1..Len(s) - 1 THEN Raw ELSE m[k]) = IF k < Len(r) THEN r[k + 1] ELSE Raw
    <3>1. CASE k < i
      <4>1. m[k] = s[k + 1] /\ r[k + 1] = s[k + 1]
        BY <3>1, <1>2, <1>3, <1>4, <1>7, <1>9
      <4> QED  BY <3>1, <4>1, <1>2, <1>3, <1>5
    <3>2. CASE ~(k < i) /\ k < Len(s) - 1
      <4>0. k + 1 \in 0..n - 1 /\ k \in i..Len(s) - 2
        BY <3>2, <1>2, <1>3
      <4>1. m[k] = d[k + 1]
        BY <4>0, <1>9
      <4>2. d[k + 1] = s[k + 1 + 1]
        BY <4>0, <3>2, <1>7, <1>2
      <4>3. r[k + 1] = s[k + 1 + 1]
        BY <3>2, <1>2, <1>3, <1>4
      <4> QED  BY <3>2, <4>1, <4>2, <4>3, <1>2, <1>5
    <3>3. CASE k = Len(s) - 1
      BY <3>3, <1>2, <1>5
    <3>4. CASE k >= Len(s)
      BY <3>4, <1>2, <1>3, <1>5, <1>7, <1>9
    <3> QED  BY <3>1, <3>2, <3>3, <3>4, <1>2, <1>3
  <2> QED  BY <2>1, <1>9, <1>11 DEF SlotsOf
<1>15. ~\E k \in Len(s) - 1..Len(s) - 1 : k \notin DOMAIN B.data \/ B.data[k] = Raw
  <2> SUFFICES ASSUME NEW k, k = Len(s) - 1 PROVE k \in DOMAIN m /\ m[k] # Raw
    BY <1>2, <1>11
  <2>1. k \in 0..n - 1 /\ ~(k \in i..Len(s) - 2) /\ k + 1 \in 1..Len(s)
    BY <1>2, <1>3
  <2>2. m[k] = s[k + 1]
    BY <2>1, <1>7, <1>9, <1>2
  <2> QED  BY <2>1, <2>2, <1>2, <1>9, ElementsAreNotRaw
<1>16. (B.misuse \/ \E k \in Len(s) - 1..Len(s) - 1 : k \notin DOMAIN B.data \/ B.data[k] = Raw) = FALSE
  BY <1>11, <1>15
<1>17. Destruct(B, Len(s) - 1, Len(s)) = [alloc |-> n, data |-> SlotsOf(n, r), misuse |-> FALSE]
  BY <1>11, <1>14, <1>16, Zenon DEF Destruct
<1>18. Destruct(B, Len(s) - 1, Len(s)) = Rec(n, r)
  BY <1>17 DEF Rec
<1>19. Len(r) <= n
  BY <1>2, <1>5
<1> QED
  BY <1>2, <1>5, <1>13, <1>18, <1>19, BecomeKeeps

LEMMA ReserveKeeps ==
    ASSUME VectorInv, NEW n \in 0..MaxLen, Reserve(n) PROVE VectorInv'
<1>1. PICK s, a : s = elems /\ a = mAllocated
  OBVIOUS
<1>2. s \in Seq(Value) /\ a \in Nat /\ Len(s) \in Nat /\ Len(s) <= a /\ mSizeV = Len(s)
  BY <1>1, LenProperties DEF VectorInv
<1>3. Buffer = Rec(a, s)
  BY <1>1, BufferHolds
<1>4. n \in Nat /\ n # 0 /\ Len(s) <= n
  BY <1>1, <1>2, VectorAssumption DEF Reserve
<1>5. SizeUp(Rec(a, s), Len(s), n) = Rec(n, s)
  BY <1>2, <1>4, SizedUp
<1>6. Become(Rec(n, s), Len(s), s)
  BY <1>1, <1>2, <1>3, <1>5, Zenon DEF Reserve
<1> QED
  BY <1>2, <1>4, <1>6, BecomeKeeps

LEMMA ClearKeeps ==
    ASSUME VectorInv, VectorClear PROVE VectorInv'
<1>1. PICK s, n : s = elems /\ n = mAllocated
  OBVIOUS
<1>2. s \in Seq(Value) /\ n \in Nat /\ Len(s) \in Nat /\ Len(s) <= n /\ mSizeV = Len(s)
  BY <1>1, LenProperties DEF VectorInv
<1>3. Buffer = Rec(n, s)
  BY <1>1, BufferHolds
<1>4. PICK r \in Seq(Value) : r = <<>>
  BY EmptySeq
<1>5. Len(r) = 0 /\ Len(r) <= n
  BY <1>4, <1>2
<1>6. Destruct(Rec(n, s), 0, Len(s)) = Rec(n, r)
  <2>0. PICK k \in 0..Len(s) : k = 0
    BY <1>2
  <2>1. Len(r) = k /\ \A i \in 1..k : r[i] = s[i]
    BY <2>0, <1>5
  <2>2. Destruct(Rec(n, s), k, Len(s)) = Rec(n, r)
    BY <1>2, <2>1, Destructed
  <2> QED  BY <2>0, <2>2
<1>7. Become(Rec(n, r), 0, r)
  BY <1>1, <1>2, <1>3, <1>4, <1>6, Zenon DEF VectorClear
<1> QED
  BY <1>2, <1>4, <1>5, <1>7, BecomeKeeps

LEMMA AssignKeeps ==
    ASSUME VectorInv, NEW k \in 0..MaxLen, NEW rhs \in [1..k -> Value], Assign(rhs) PROVE VectorInv'
<1>1. PICK s, n : s = elems /\ n = mAllocated
  OBVIOUS
<1>2. s \in Seq(Value) /\ n \in Nat /\ Len(s) \in Nat /\ Len(s) <= n /\ mSizeV = Len(s)
  BY <1>1, LenProperties DEF VectorInv
<1>3. Buffer = Rec(n, s)
  BY <1>1, BufferHolds
<1>4. PICK e \in Seq(Value) : e = <<>>
  BY EmptySeq
<1>5. Len(e) = 0 /\ Len(e) <= n
  BY <1>4, <1>2
<1>6. Destruct(Rec(n, s), 0, Len(s)) = Rec(n, e)
  <2>0. PICK z \in 0..Len(s) : z = 0
    BY <1>2
  <2>1. Len(e) = z /\ \A i \in 1..z : e[i] = s[i]
    BY <2>0, <1>5
  <2>2. Destruct(Rec(n, s), z, Len(s)) = Rec(n, e)
    BY <1>2, <2>1, Destructed
  <2> QED  BY <2>0, <2>2
<1>7. rhs \in Seq(Value) /\ Len(rhs) = k /\ k \in Nat
  BY VectorAssumption
<1>8. PICK to \in Nat : /\ k <= to
                        /\ (IF n < Len(rhs) THEN SizeUp(Rec(n, e), 0, Len(rhs)) ELSE Rec(n, e)) = Rec(to, e)
  <2>1. CASE n < k
    <3>1. SizeUp(Rec(n, e), Len(e), k) = Rec(k, e)
      <4>1. k # 0 /\ Len(e) <= k /\ k = IF k # 0 THEN k ELSE IF n # 0 THEN n * 2 ELSE DEFAULT_ALLOCATION
        BY <2>1, <1>2, <1>5, <1>7
      <4> QED  BY <1>2, <1>5, <1>7, <4>1, SizedUp
    <3> QED  BY <2>1, <3>1, <1>5, <1>7
  <2>2. CASE ~(n < k)
    BY <2>2, <1>2, <1>7
  <2> QED  BY <2>1, <2>2
<1>9. Construct(Rec(to, e), Len(e), rhs) = Rec(to, e \o rhs)
  <2>1. Len(e) + Len(rhs) <= to
    BY <1>5, <1>7, <1>8
  <2> QED  BY <1>7, <1>8, <2>1, Constructed
<1>10. e \o rhs = rhs
  BY <1>4, <1>7, ConcatEmptySeq
<1>11. Become(Rec(to, rhs), Len(rhs), rhs)
  <2>1. Become(Construct(IF n < Len(rhs) THEN SizeUp(Destruct(Rec(n, s), 0, Len(s)), 0, Len(rhs))
                         ELSE Destruct(Rec(n, s), 0, Len(s)), 0, rhs), Len(rhs), rhs)
    BY <1>1, <1>2, <1>3, Zenon DEF Assign
  <2> QED  BY <2>1, <1>5, <1>6, <1>8, <1>9, <1>10, Zenon
<1>12. Len(rhs) <= to
  BY <1>7, <1>8
<1> QED
  BY <1>7, <1>8, <1>11, <1>12, BecomeKeeps

LEMMA ResizeKeeps ==
    ASSUME VectorInv, NEW n \in 0..MaxLen, Resize(n) PROVE VectorInv'
<1>1. PICK s, a : s = elems /\ a = mAllocated
  OBVIOUS
<1>2. s \in Seq(Value) /\ a \in Nat /\ Len(s) \in Nat /\ Len(s) <= a /\ mSizeV = Len(s)
  BY <1>1, LenProperties DEF VectorInv
<1>3. Buffer = Rec(a, s)
  BY <1>1, BufferHolds
<1>4. n \in Nat
  BY VectorAssumption
<1>5. PICK to \in Nat : /\ n <= to /\ Len(s) <= to
                        /\ (IF mAllocated >= n THEN Buffer
                            ELSE SizeUp(Buffer, mSizeV, IF n < mAllocated * 2 THEN 0 ELSE n)) = Rec(to, s)
  <2>1. CASE a >= n
    BY <2>1, <1>1, <1>2, <1>3, <1>4
  <2>2. CASE ~(a >= n) /\ n < a * 2
    <3>1. PICK to \in Nat : to = a * 2
      BY <1>2
    <3>2. n <= to /\ Len(s) <= to /\ a # 0
      BY <2>2, <3>1, <1>2, <1>4
    <3>3. to = IF 0 # 0 THEN 0 ELSE IF a # 0 THEN a * 2 ELSE DEFAULT_ALLOCATION
      BY <3>1, <3>2
    <3>4. SizeUp(Rec(a, s), Len(s), 0) = Rec(to, s)
      BY <1>2, <3>2, <3>3, SizedUp
    <3> QED  BY <2>2, <3>2, <3>4, <1>1, <1>2, <1>3
  <2>3. CASE ~(a >= n) /\ ~(n < a * 2)
    <3>1. n # 0 /\ Len(s) <= n
      BY <2>3, <1>2, <1>4
    <3>3. n = IF n # 0 THEN n ELSE IF a # 0 THEN a * 2 ELSE DEFAULT_ALLOCATION
      BY <3>1
    <3>4. SizeUp(Rec(a, s), Len(s), n) = Rec(n, s)
      BY <1>2, <1>4, <3>1, <3>3, SizedUp
    <3> QED  BY <2>3, <3>1, <3>4, <1>1, <1>2, <1>3, <1>4
  <2> QED  BY <2>1, <2>2, <2>3
<1>6. PICK r : r = [i \in 1..n |-> IF i <= Len(s) THEN s[i] ELSE Default]
  OBVIOUS
<1>7. r \in Seq(Value) /\ Len(r) = n /\ \A i \in 1..n : r[i] = IF i <= Len(s) THEN s[i] ELSE Default
  <2>1. \A i \in 1..n : (IF i <= Len(s) THEN s[i] ELSE Default) \in Value
    BY <1>2, <1>4, ElementsAreNotRaw, VectorAssumption
  <2> QED  BY <1>4, <1>6, <2>1
<1> DEFINE grown == IF mAllocated >= n THEN Buffer
                    ELSE SizeUp(Buffer, mSizeV, IF n < mAllocated * 2 THEN 0 ELSE n)
           cut == IF n < mSizeV THEN Destruct(grown, n, mSizeV) ELSE grown
           new == [i \in 1..n - mSizeV |-> Default]
<1>8. Become(IF n > mSizeV THEN Construct(cut, mSizeV, new) ELSE cut, n, r)
  BY <1>1, <1>6, Zenon DEF Resize
<1>9. grown = Rec(to, s)
  BY <1>5
<1> HIDE DEF grown
<1>10. (IF n > mSizeV THEN Construct(cut, mSizeV, new) ELSE cut) = Rec(to, r)
  <2>1. CASE n < Len(s)
    <3>1. n \in 0..Len(s) /\ \A i \in 1..n : r[i] = s[i]
      BY <2>1, <1>2, <1>4, <1>7
    <3>2. Destruct(Rec(to, s), n, Len(s)) = Rec(to, r)
      BY <1>2, <1>5, <1>7, <3>1, Destructed
    <3>3. cut = Destruct(Rec(to, s), n, Len(s)) /\ ~(n > mSizeV)
      BY <2>1, <1>2, <1>4, <1>9
    <3> QED  BY <3>2, <3>3
  <2>2. CASE n = Len(s)
    <3>1. r = s
      BY <2>2, <1>2, <1>6, <1>7, SeqEqual
    <3>2. cut = Rec(to, s) /\ ~(n > mSizeV)
      BY <2>2, <1>2, <1>4, <1>9
    <3> QED  BY <3>1, <3>2
  <2>3. CASE n > Len(s)
    <3>1. PICK w : w = new
      OBVIOUS
    <3>2. w \in Seq(Value) /\ Len(w) = n - Len(s) /\ \A i \in 1..(n - Len(s)) : w[i] = Default
      <4>1. n - Len(s) \in Nat /\ Default \in Value
        BY <2>3, <1>2, <1>4, VectorAssumption
      <4> QED  BY <4>1, <3>1, <1>2
    <3>3. cut = Rec(to, s) /\ n > mSizeV
      BY <2>3, <1>2, <1>4, <1>9
    <3>4. Len(s) + Len(w) <= to
      BY <3>2, <1>2, <1>4, <1>5
    <3>5. Construct(Rec(to, s), Len(s), w) = Rec(to, s \o w)
      BY <1>2, <3>2, <3>4, Constructed
    <3>6. s \o w = r
      <4>1. s \o w \in Seq(Value) /\ Len(s \o w) = n
        BY <3>2, <1>2, <1>4, ConcatProperties
      <4>2. ASSUME NEW i \in 1..n PROVE (s \o w)[i] = r[i]
        <5>1. (s \o w)[i] = IF i <= Len(s) THEN s[i] ELSE w[i - Len(s)]
          BY <3>2, <1>2, <1>4, ConcatProperties
        <5> QED  BY <5>1, <3>2, <1>2, <1>4, <1>7
      <4> QED  BY <4>1, <4>2, <1>7, SeqEqual
    <3> HIDE DEF cut, new
    <3> QED  BY <3>1, <3>3, <3>5, <3>6, <1>2, Zenon
  <2> QED  BY <2>1, <2>2, <2>3, <1>2, <1>4
<1>11. Become(Rec(to, r), n, r)
  BY <1>8, <1>10, Zenon
<1> QED
  BY <1>5, <1>7, <1>11, BecomeKeeps

\* The vector's slots always hold the values the calls put there, for every
\* element type, allocation and length, and after any sequence of calls
\* (jh_vector.h): no object is overwritten without its destructor, no raw
\* memory is read or destructed, nothing lies outside the allocation.
THEOREM SlotsAlwaysAgree == VectorSpec => []SlotsAgree
<1>1. VectorInit => VectorInv
  BY VectorStarts
<1>2. VectorInv /\ [VectorNext]_vecVars => VectorInv'
  <2> SUFFICES ASSUME VectorInv, [VectorNext]_vecVars PROVE VectorInv'
    OBVIOUS
  <2>1. ASSUME NEW v \in Value, VectorPushBack(v) PROVE VectorInv'
    BY <2>1, PushBackKeeps
  <2>2. ASSUME NEW i \in 0..mSizeV - 1, PushBackOwn(i) PROVE VectorInv'
    BY <2>2, PushBackOwnKeeps
  <2>3. ASSUME NEW i \in 0..mSizeV - 1, VectorErase(i) PROVE VectorInv'
    BY <2>3, EraseKeeps
  <2>4. ASSUME NEW n \in 0..MaxLen, Reserve(n) PROVE VectorInv'
    BY <2>4, ReserveKeeps
  <2>5. ASSUME NEW n \in 0..MaxLen, Resize(n) PROVE VectorInv'
    BY <2>5, ResizeKeeps
  <2>6. ASSUME NEW n \in 0..MaxLen, NEW rhs \in [1..n -> Value], Assign(rhs) PROVE VectorInv'
    BY <2>6, AssignKeeps
  <2>7. ASSUME VectorClear PROVE VectorInv'
    BY <2>7, ClearKeeps
  <2>8. CASE UNCHANGED vecVars
    BY <2>8 DEF vecVars, VectorInv
  <2> QED  BY <2>1, <2>2, <2>3, <2>4, <2>5, <2>6, <2>7, <2>8, Zenon DEF VectorNext
<1>3. VectorInv => SlotsAgree
  <2> SUFFICES ASSUME VectorInv PROVE SlotsAgree
    OBVIOUS
  <2>1. ~misuse /\ mSizeV <= mAllocated /\ mSizeV = Len(elems)
    BY DEF VectorInv
  <2>2. \A i \in 0..mAllocated - 1 : mData[i] = IF i < mSizeV THEN elems[i + 1] ELSE Raw
    BY DEF VectorInv, SlotsOf
  <2> QED  BY <2>1, <2>2 DEF SlotsAgree
<1> QED
  BY <1>1, <1>2, <1>3, PTL DEF VectorSpec

-----------------------------------------------------------------------------
(* JetHead::list *)

Ptrs == [Place -> Place \cup {NULL}]

\* The k-th node of a list with the contents s, counted from mHead.
NodeAt(s, k) == IF k = 0 THEN Head_ ELSE IF k = Len(s) + 1 THEN Tail_ ELSE s[k]

\* The pointers nx and pv link the nodes in s between the sentinels.
IsChain(nx, pv, s) ==
    /\ s \in Seq(Cell) /\ \A i, j \in 1..Len(s) : s[i] = s[j] => i = j
    /\ nx \in Ptrs /\ pv \in Ptrs
    /\ \A k \in 0..Len(s) : nx[NodeAt(s, k)] = NodeAt(s, k + 1) /\ pv[NodeAt(s, k + 1)] = NodeAt(s, k)
    /\ nx[Tail_] = NULL /\ pv[Head_] = NULL

\* The places are different.
LEMMA PlacesDiffer ==
    /\ Head_ # Tail_ /\ Head_ # NULL /\ Tail_ # NULL
    /\ Head_ \notin Cell /\ Tail_ \notin Cell /\ NULL \notin Cell /\ NULL \notin Place
    /\ Head_ \in Place /\ Tail_ \in Place /\ Cell \subseteq Place
  BY ListAssumption DEF Place, Head_, Tail_, NULL

LEMMA NodesDiffer ==
    ASSUME NEW s \in Seq(Cell), \A i, j \in 1..Len(s) : s[i] = s[j] => i = j
    PROVE  /\ Len(s) \in Nat
           /\ NodeAt(s, 0) = Head_ /\ NodeAt(s, Len(s) + 1) = Tail_
           /\ \A k \in 1..Len(s) : NodeAt(s, k) = s[k] /\ s[k] \in Cell
           /\ \A k \in 0..(Len(s) + 1) : NodeAt(s, k) \in Place
           /\ \A j, k \in 0..(Len(s) + 1) : NodeAt(s, j) = NodeAt(s, k) => j = k
<1>1. Len(s) \in Nat /\ \A k \in 1..Len(s) : s[k] \in Cell
  BY LenProperties, ElementOfSeq
<1>2. NodeAt(s, 0) = Head_ /\ NodeAt(s, Len(s) + 1) = Tail_ /\ \A k \in 1..Len(s) : NodeAt(s, k) = s[k]
  BY <1>1 DEF NodeAt
<1>3. ASSUME NEW k \in 0..(Len(s) + 1) PROVE k = 0 \/ k = Len(s) + 1 \/ k \in 1..Len(s)
  BY <1>1
<1>4. \A k \in 0..(Len(s) + 1) : NodeAt(s, k) \in Place
  BY <1>1, <1>2, <1>3, PlacesDiffer
<1>5. ASSUME NEW j \in 0..(Len(s) + 1), NEW k \in 0..(Len(s) + 1), NodeAt(s, j) = NodeAt(s, k) PROVE j = k
  BY <1>1, <1>2, <1>3, <1>5, PlacesDiffer
<1> QED
  BY <1>1, <1>2, <1>4, <1>5

\* A node is linked in behind the k-th.
LEMMA ChainInserted ==
    ASSUME NEW nx, NEW pv, NEW s, IsChain(nx, pv, s), NEW c \in Cell, \A i \in 1..Len(s) : s[i] # c,
           NEW k \in 0..Len(s), NEW t, IsInserted(t, s, k + 1, c),
           NEW a, a = NodeAt(s, k), NEW b, b = NodeAt(s, k + 1),
           NEW mx, mx = [nx EXCEPT ![c] = b, ![a] = c],
           NEW my, my = [pv EXCEPT ![c] = a, ![b] = c]
    PROVE  IsChain(mx, my, t)
<1>1. /\ s \in Seq(Cell) /\ \A i, j \in 1..Len(s) : s[i] = s[j] => i = j
      /\ nx \in Ptrs /\ pv \in Ptrs /\ nx[Tail_] = NULL /\ pv[Head_] = NULL
      /\ \A i \in 0..Len(s) : nx[NodeAt(s, i)] = NodeAt(s, i + 1) /\ pv[NodeAt(s, i + 1)] = NodeAt(s, i)
  BY DEF IsChain
<1>2. /\ Len(s) \in Nat
      /\ NodeAt(s, 0) = Head_ /\ NodeAt(s, Len(s) + 1) = Tail_
      /\ \A i \in 1..Len(s) : NodeAt(s, i) = s[i] /\ s[i] \in Cell
      /\ \A i \in 0..(Len(s) + 1) : NodeAt(s, i) \in Place
      /\ \A i, j \in 0..(Len(s) + 1) : NodeAt(s, i) = NodeAt(s, j) => i = j
  BY <1>1, NodesDiffer
<1>3. k \in Nat /\ k + 1 \in 1..(Len(s) + 1) /\ k \in 0..(Len(s) + 1) /\ k + 1 \in 0..(Len(s) + 1)
  BY <1>2
<1>4. /\ t \in Seq(Cell) /\ Len(t) = Len(s) + 1
      /\ \A i \in 1..(Len(s) + 1) : t[i] = IF i < k + 1 THEN s[i] ELSE IF i = k + 1 THEN c ELSE s[i - 1]
  <2>1. PICK p \in 1..(Len(s) + 1) : p = k + 1
    BY <1>3
  <2>2. IsInserted(t, s, p, c)
    BY <2>1
  <2>3. /\ t \in Seq(Cell) /\ Len(t) = Len(s) + 1
        /\ \A i \in 1..(Len(s) + 1) : t[i] = IF i < p THEN s[i] ELSE IF i = p THEN c ELSE s[i - 1]
    BY <1>1, <2>2, InsertedAt
  <2> QED  BY <2>1, <2>3
<1>5. \A i, j \in 1..Len(t) : t[i] = t[j] => i = j
  <2> SUFFICES ASSUME NEW i \in 1..Len(t), NEW j \in 1..Len(t), t[i] = t[j] PROVE i = j
    OBVIOUS
  <2>0. i \in 1..(Len(s) + 1) /\ j \in 1..(Len(s) + 1)
    BY <1>4
  <2>1. ASSUME NEW x \in 1..(Len(s) + 1), x # k + 1
        PROVE  \E m \in 1..Len(s) : t[x] = s[m] /\ m = IF x < k + 1 THEN x ELSE x - 1
    <3>1. PICK m \in 1..Len(s) : m = IF x < k + 1 THEN x ELSE x - 1
      BY <2>1, <1>2, <1>3
    <3>2. t[x] = IF x < k + 1 THEN s[x] ELSE s[x - 1]
      BY <2>1, <1>4
    <3> QED  BY <3>1, <3>2
  <2>2. t[k + 1] = c
    BY <1>3, <1>4
  <2>3. CASE i = k + 1
    BY <2>0, <2>1, <2>2, <2>3
  <2>4. CASE j = k + 1
    BY <2>0, <2>1, <2>2, <2>4
  <2>5. CASE i # k + 1 /\ j # k + 1
    <3>1. PICK m \in 1..Len(s) : t[i] = s[m] /\ m = IF i < k + 1 THEN i ELSE i - 1
      BY <2>0, <2>1, <2>5
    <3>2. PICK n \in 1..Len(s) : t[j] = s[n] /\ n = IF j < k + 1 THEN j ELSE j - 1
      BY <2>0, <2>1, <2>5
    <3>3. m = n
      BY <3>1, <3>2, <1>1
    <3> QED  BY <3>1, <3>2, <3>3, <2>0, <2>5, <1>2, <1>3
  <2> QED  BY <2>3, <2>4, <2>5
<1>6. a \in Place /\ b \in Place /\ c \in Place /\ a # c /\ b # c
  <2>1. \A i \in 0..(Len(s) + 1) : NodeAt(s, i) # c
    <3> TAKE i \in 0..(Len(s) + 1)
    <3>1. i = 0 \/ i = Len(s) + 1 \/ i \in 1..Len(s)
      BY <1>2
    <3> QED  BY <3>1, <1>2, PlacesDiffer
  <2> QED  BY <2>1, <1>2, <1>3, PlacesDiffer
<1>7. mx \in Ptrs /\ my \in Ptrs
  BY <1>1, <1>6 DEF Ptrs
<1>8. ASSUME NEW j \in 0..(Len(s) + 2)
      PROVE  NodeAt(t, j) = IF j < k + 1 THEN NodeAt(s, j) ELSE IF j = k + 1 THEN c ELSE NodeAt(s, j - 1)
  <2>1. CASE j = 0
    BY <2>1, <1>2, <1>3 DEF NodeAt
  <2>2. CASE j = Len(s) + 2
    <3>1. NodeAt(t, j) = Tail_ /\ ~(j < k + 1) /\ j # k + 1 /\ j - 1 = Len(s) + 1
      BY <2>2, <1>2, <1>3, <1>4 DEF NodeAt
    <3> QED  BY <3>1, <1>2
  <2>3. CASE j \in 1..(Len(s) + 1)
    <3>1. NodeAt(t, j) = t[j]
      BY <2>3, <1>2, <1>4 DEF NodeAt
    <3>2. CASE j < k + 1
      <4>1. j \in 1..Len(s) /\ t[j] = s[j]
        BY <2>3, <3>2, <1>2, <1>3, <1>4
      <4> QED  BY <3>1, <3>2, <4>1, <1>2
    <3>3. CASE j = k + 1
      BY <2>3, <3>1, <3>3, <1>3, <1>4
    <3>4. CASE ~(j < k + 1) /\ j # k + 1
      <4>1. j - 1 \in 1..Len(s) /\ t[j] = s[j - 1]
        BY <2>3, <3>4, <1>2, <1>3, <1>4
      <4> QED  BY <3>1, <3>4, <4>1, <1>2
    <3> QED  BY <3>2, <3>3, <3>4
  <2> QED  BY <2>1, <2>2, <2>3, <1>2
<1>9. ASSUME NEW x \in Place PROVE /\ mx[x] = IF x = a THEN c ELSE IF x = c THEN b ELSE nx[x]
                                   /\ my[x] = IF x = b THEN c ELSE IF x = c THEN a ELSE pv[x]
  BY <1>1, <1>6 DEF Ptrs
<1>10. \A i \in 0..(Len(s) + 1) : /\ NodeAt(s, i) # c
                                  /\ NodeAt(s, i) = a <=> i = k
                                  /\ NodeAt(s, i) = b <=> i = k + 1
  <2> TAKE i \in 0..(Len(s) + 1)
  <2>1. i = 0 \/ i = Len(s) + 1 \/ i \in 1..Len(s)
    BY <1>2
  <2>2. NodeAt(s, i) # c
    BY <2>1, <1>2, PlacesDiffer
  <2> QED  BY <2>2, <1>2, <1>3
<1>11. ASSUME NEW j \in 0..Len(t)
       PROVE  mx[NodeAt(t, j)] = NodeAt(t, j + 1) /\ my[NodeAt(t, j + 1)] = NodeAt(t, j)
  <2>0. j \in 0..(Len(s) + 1) /\ j + 1 \in 0..(Len(s) + 2) /\ j \in 0..(Len(s) + 2)
    BY <1>2, <1>4
  <2>1. CASE j < k
    <3>1. NodeAt(t, j) = NodeAt(s, j) /\ NodeAt(t, j + 1) = NodeAt(s, j + 1)
      BY <2>0, <2>1, <1>3, <1>8
    <3>2. j \in 0..Len(s) /\ j + 1 \in 0..(Len(s) + 1) /\ j # k /\ j + 1 # k + 1
      BY <2>0, <2>1, <1>2, <1>3
    <3>3. mx[NodeAt(s, j)] = nx[NodeAt(s, j)] /\ my[NodeAt(s, j + 1)] = pv[NodeAt(s, j + 1)]
      BY <2>0, <3>2, <1>2, <1>9, <1>10
    <3> QED  BY <3>1, <3>2, <3>3, <1>1
  <2>2. CASE j = k
    <3>1. NodeAt(t, j) = a /\ NodeAt(t, j + 1) = c
      BY <2>0, <2>2, <1>3, <1>8
    <3> QED  BY <3>1, <1>6, <1>9
  <2>3. CASE j = k + 1
    <3>1. NodeAt(t, j) = c /\ NodeAt(t, j + 1) = b
      <4>1. ~(j + 1 < k + 1) /\ j + 1 # k + 1 /\ j + 1 - 1 = k + 1
        BY <2>3, <1>3
      <4>2. NodeAt(t, j + 1) = NodeAt(s, j + 1 - 1)
        BY <2>0, <4>1, <1>8
      <4> QED  BY <2>0, <2>3, <4>1, <4>2, <1>3, <1>8
    <3> QED  BY <3>1, <1>6, <1>9
  <2>4. CASE j > k + 1
    <3>0. PICK i \in 0..Len(s) : i = j - 1 /\ i # k /\ i + 1 # k + 1 /\ i + 1 = j
      BY <2>0, <2>4, <1>2, <1>3
    <3>1. NodeAt(t, j) = NodeAt(s, i) /\ NodeAt(t, j + 1) = NodeAt(s, i + 1)
      <4>1. ~(j < k + 1) /\ j # k + 1 /\ ~(j + 1 < k + 1) /\ j + 1 # k + 1 /\ j + 1 - 1 = i + 1
        BY <2>4, <3>0, <1>3
      <4> QED  BY <2>0, <4>1, <3>0, <1>8
    <3>2. i \in 0..(Len(s) + 1) /\ i + 1 \in 0..(Len(s) + 1)
      BY <3>0, <1>2
    <3>3. mx[NodeAt(s, i)] = nx[NodeAt(s, i)] /\ my[NodeAt(s, i + 1)] = pv[NodeAt(s, i + 1)]
      BY <3>0, <3>2, <1>2, <1>9, <1>10
    <3> QED  BY <3>1, <3>3, <1>1
  <2> QED  BY <2>0, <2>1, <2>2, <2>3, <2>4, <1>3
<1>12. mx[Tail_] = NULL /\ my[Head_] = NULL
  <2>1. Tail_ # a /\ Head_ # b /\ Tail_ # c /\ Head_ # c
    BY <1>2, <1>3, <1>10, PlacesDiffer
  <2> QED  BY <2>1, <1>1, <1>9, PlacesDiffer
<1> QED
  BY <1>4, <1>5, <1>7, <1>11, <1>12 DEF IsChain

\* The k-th node is linked out.
LEMMA ChainErased ==
    ASSUME NEW nx, NEW pv, NEW s, IsChain(nx, pv, s), NEW k \in 1..Len(s), NEW t, IsRemoved(t, s, k),
           NEW a, a = NodeAt(s, k - 1), NEW b, b = NodeAt(s, k + 1),
           NEW mx, mx = [nx EXCEPT ![a] = b], NEW my, my = [pv EXCEPT ![b] = a]
    PROVE  IsChain(mx, my, t)
<1>1. /\ s \in Seq(Cell) /\ \A i, j \in 1..Len(s) : s[i] = s[j] => i = j
      /\ nx \in Ptrs /\ pv \in Ptrs /\ nx[Tail_] = NULL /\ pv[Head_] = NULL
      /\ \A i \in 0..Len(s) : nx[NodeAt(s, i)] = NodeAt(s, i + 1) /\ pv[NodeAt(s, i + 1)] = NodeAt(s, i)
  BY DEF IsChain
<1>2. /\ Len(s) \in Nat
      /\ NodeAt(s, 0) = Head_ /\ NodeAt(s, Len(s) + 1) = Tail_
      /\ \A i \in 0..(Len(s) + 1) : NodeAt(s, i) \in Place
      /\ \A i, j \in 0..(Len(s) + 1) : NodeAt(s, i) = NodeAt(s, j) => i = j
  BY <1>1, NodesDiffer
<1>3. k \in Nat /\ k - 1 \in 0..(Len(s) + 1) /\ k + 1 \in 0..(Len(s) + 1)
  BY <1>2
<1>4. /\ t \in Seq(Cell) /\ Len(t) = Len(s) - 1
      /\ \A i \in 1..(Len(s) - 1) : t[i] = IF i < k THEN s[i] ELSE s[i + 1]
  BY <1>1, RemovedList
<1>5. \A i, j \in 1..Len(t) : t[i] = t[j] => i = j
  <2> SUFFICES ASSUME NEW i \in 1..Len(t), NEW j \in 1..Len(t), t[i] = t[j] PROVE i = j
    OBVIOUS
  <2>0. i \in 1..(Len(s) - 1) /\ j \in 1..(Len(s) - 1)
    BY <1>4
  <2>1. ASSUME NEW x \in 1..(Len(s) - 1)
        PROVE  \E m \in 1..Len(s) : t[x] = s[m] /\ m = IF x < k THEN x ELSE x + 1
    <3>1. PICK m \in 1..Len(s) : m = IF x < k THEN x ELSE x + 1
      BY <1>2, <1>3
    <3> QED  BY <3>1, <1>4
  <2>2. PICK m \in 1..Len(s) : t[i] = s[m] /\ m = IF i < k THEN i ELSE i + 1
    BY <2>0, <2>1
  <2>3. PICK n \in 1..Len(s) : t[j] = s[n] /\ n = IF j < k THEN j ELSE j + 1
    BY <2>0, <2>1
  <2>4. m = n
    BY <2>2, <2>3, <1>1
  <2> QED  BY <2>2, <2>3, <2>4, <2>0, <1>2, <1>3
<1>6. a \in Place /\ b \in Place
  BY <1>2, <1>3
<1>7. mx \in Ptrs /\ my \in Ptrs
  BY <1>1, <1>6 DEF Ptrs
<1>8. ASSUME NEW j \in 0..Len(s)
      PROVE  NodeAt(t, j) = IF j < k THEN NodeAt(s, j) ELSE NodeAt(s, j + 1)
  <2>0. \A i \in 1..Len(s) : NodeAt(s, i) = s[i]
    BY <1>1, NodesDiffer
  <2>1. CASE j = 0
    BY <2>1, <1>2, <1>3 DEF NodeAt
  <2>2. CASE j = Len(s)
    <3>1. NodeAt(t, j) = Tail_ /\ ~(j < k)
      BY <2>2, <1>2, <1>3, <1>4 DEF NodeAt
    <3> QED  BY <2>2, <3>1, <1>2
  <2>3. CASE j \in 1..(Len(s) - 1)
    <3>1. NodeAt(t, j) = t[j]
      BY <2>3, <1>2, <1>4 DEF NodeAt
    <3>2. CASE j < k
      <4>1. j \in 1..Len(s) /\ t[j] = s[j]
        BY <2>3, <3>2, <1>2, <1>3, <1>4
      <4> QED  BY <3>1, <3>2, <4>1, <2>0
    <3>4. CASE ~(j < k)
      <4>1. j + 1 \in 1..Len(s) /\ t[j] = s[j + 1]
        BY <2>3, <3>4, <1>2, <1>3, <1>4
      <4> QED  BY <3>1, <3>4, <4>1, <2>0
    <3> QED  BY <3>2, <3>4
  <2> QED  BY <2>1, <2>2, <2>3, <1>2
<1>9. ASSUME NEW x \in Place PROVE /\ mx[x] = IF x = a THEN b ELSE nx[x]
                                   /\ my[x] = IF x = b THEN a ELSE pv[x]
  BY <1>1, <1>6 DEF Ptrs
<1>10. \A i \in 0..(Len(s) + 1) : /\ NodeAt(s, i) = a <=> i = k - 1
                                  /\ NodeAt(s, i) = b <=> i = k + 1
  BY <1>2, <1>3
<1>11. ASSUME NEW j \in 0..Len(t)
       PROVE  mx[NodeAt(t, j)] = NodeAt(t, j + 1) /\ my[NodeAt(t, j + 1)] = NodeAt(t, j)
  <2>0. j \in 0..(Len(s) - 1) /\ j + 1 \in 0..Len(s) /\ j \in 0..Len(s) /\ j \in Nat
    BY <1>2, <1>4
  <2>1. CASE j + 1 < k
    <3>1. NodeAt(t, j) = NodeAt(s, j) /\ NodeAt(t, j + 1) = NodeAt(s, j + 1)
      BY <2>0, <2>1, <1>3, <1>8
    <3>2. j \in 0..(Len(s) + 1) /\ j + 1 \in 0..(Len(s) + 1) /\ j # k - 1 /\ j + 1 # k + 1
      BY <2>0, <2>1, <1>2, <1>3
    <3>3. mx[NodeAt(s, j)] = nx[NodeAt(s, j)] /\ my[NodeAt(s, j + 1)] = pv[NodeAt(s, j + 1)]
      BY <3>2, <1>2, <1>9, <1>10
    <3> QED  BY <2>0, <3>1, <3>3, <1>1
  <2>2. CASE j + 1 = k
    <3>1. NodeAt(t, j) = a /\ NodeAt(t, j + 1) = b
      BY <2>0, <2>2, <1>3, <1>8
    <3> QED  BY <3>1, <1>6, <1>9
  <2>3. CASE j + 1 > k
    <3>0. PICK i \in 0..Len(s) : i = j + 1 /\ i # k - 1 /\ i + 1 # k + 1
      BY <2>0, <2>3, <1>2, <1>3
    <3>1. NodeAt(t, j) = NodeAt(s, i) /\ NodeAt(t, j + 1) = NodeAt(s, i + 1)
      BY <2>0, <2>3, <3>0, <1>3, <1>8
    <3>2. i \in 0..(Len(s) + 1) /\ i + 1 \in 0..(Len(s) + 1)
      BY <3>0, <1>2
    <3>3. mx[NodeAt(s, i)] = nx[NodeAt(s, i)] /\ my[NodeAt(s, i + 1)] = pv[NodeAt(s, i + 1)]
      BY <3>0, <3>2, <1>2, <1>9, <1>10
    <3> QED  BY <3>1, <3>3, <1>1
  <2> QED  BY <2>0, <2>1, <2>2, <2>3, <1>3
<1>12. mx[Tail_] = NULL /\ my[Head_] = NULL
  <2>1. Tail_ # a /\ Head_ # b
    BY <1>2, <1>3, <1>10
  <2> QED  BY <2>1, <1>1, <1>9, PlacesDiffer
<1> QED
  BY <1>4, <1>5, <1>7, <1>11, <1>12 DEF IsChain

IsWalk(ptr, from, g) ==
    g = [k \in 0..Cardinality(Place) |->
            IF k = 0 THEN from ELSE IF g[k - 1] = NULL THEN NULL ELSE ptr[g[k - 1]]]

LEMMA StepsChosen ==
    ASSUME NEW ptr, NEW from PROVE Steps(ptr, from) = CHOOSE g : IsWalk(ptr, from, g)
  BY Zenon DEF Steps, IsWalk

LEMMA PlacesCounted ==
    IsFiniteSet(Cell) /\ Cardinality(Cell) \in Nat /\ Cardinality(Place) = Cardinality(Cell) + 2
<1>1. IsFiniteSet(Cell) /\ Cardinality(Cell) \in Nat
  BY ListAssumption, FS_CardinalityType
<1>2. PICK h, t : h = Head_ /\ t = Tail_ /\ h \notin Cell /\ t \notin Cell /\ h # t
  BY PlacesDiffer
<1>3. IsFiniteSet(Cell \cup {h}) /\ Cardinality(Cell \cup {h}) = Cardinality(Cell) + 1
  BY <1>1, <1>2, FS_AddElement
<1>4. t \notin Cell \cup {h}
  BY <1>2
<1>5. Cardinality((Cell \cup {h}) \cup {t}) = Cardinality(Cell) + 1 + 1
  BY <1>3, <1>4, FS_AddElement
<1>6. Place = (Cell \cup {h}) \cup {t}
  BY <1>2 DEF Place
<1> QED
  BY <1>1, <1>5, <1>6

\* Different elements are as many as their places.
LEMMA NodesCounted ==
    ASSUME NEW s \in Seq(Cell), \A i, j \in 1..Len(s) : s[i] = s[j] => i = j
    PROVE  Cardinality({s[i] : i \in 1..Len(s)}) = Len(s) /\ Len(s) + 1 <= Cardinality(Place)
<1>0. Len(s) \in Nat /\ \A k \in 1..Len(s) : s[k] \in Cell
  BY LenProperties, ElementOfSeq
<1> DEFINE T == {s[i] : i \in 1..Len(s)}
           f == [i \in 1..Len(s) |-> s[i]]
<1>1. IsFiniteSet(1..Len(s)) /\ Cardinality(1..Len(s)) = Len(s)
  BY <1>0, IntervalSize
<1>2. f \in Surjection(1..Len(s), T)
  BY DEF Surjection
<1>3. f \in Injection(1..Len(s), T)
  BY DEF Injection, IsInjective
<1>4. T \in SUBSET Cell
  BY <1>0
<1> HIDE DEF T, f
<1>5. IsFiniteSet(T) /\ Cardinality(T) = Len(s)
  BY <1>1, <1>2, <1>3, FS_Surjection
<1>6. Cardinality(T) <= Cardinality(Cell)
  BY <1>4, PlacesCounted, FS_Subset
<1>7. PICK c \in Nat : c = Cardinality(Cell) /\ Cardinality(Place) = c + 2
  BY PlacesCounted
<1>8. Len(s) + 1 <= Cardinality(Place)
  BY <1>0, <1>5, <1>6, <1>7
<1> QED
  BY <1>5, <1>8 DEF T

\* Pointers can be followed for any number of steps.
IsFollowed(f, S, n, a, nul, ptr) ==
    f \in [0..n -> S] /\ f[0] = a /\ \A k \in 1..n : f[k] = IF f[k - 1] = nul THEN nul ELSE ptr[f[k - 1]]

LEMMA PointerSteps ==
    ASSUME NEW S, NEW a \in S, NEW nul \in S, NEW ptr, \A x \in S : x # nul => ptr[x] \in S, NEW n \in Nat
    PROVE  \E f : IsFollowed(f, S, n, a, nul, ptr)
<1>1. PICK goes \in [S \X (1..n) -> S] : goes = [p \in S \X (1..n) |-> IF p[1] = nul THEN nul ELSE ptr[p[1]]]
  OBVIOUS
<1>3. PICK f \in [0..n -> S] : f[0] = a /\ \A k \in 1..n : f[k] = goes[<<f[k - 1], k>>]
  <2>1. \E f : IsIteration(f, S, n, a, goes)
    BY IterationExists
  <2> QED  BY <2>1 DEF IsIteration
<1>4. ASSUME NEW k \in 1..n PROVE f[k] = IF f[k - 1] = nul THEN nul ELSE ptr[f[k - 1]]
  <2>1. PICK b \in S : b = f[k - 1]
    OBVIOUS
  <2>2. goes[<<b, k>>] = IF b = nul THEN nul ELSE ptr[b]
    BY <1>1
  <2> QED  BY <2>1, <2>2, <1>3
<1> QED
  BY <1>3, <1>4 DEF IsFollowed

\* What the steps of an iterator are.
LEMMA StepsAre ==
    ASSUME NEW ptr \in Ptrs, NEW from \in Place, NEW g, g = Steps(ptr, from), NEW N, N = Cardinality(Place)
    PROVE  /\ DOMAIN g = 0..N /\ g[0] = from
           /\ \A k \in 1..N : g[k] = IF g[k - 1] = NULL THEN NULL ELSE ptr[g[k - 1]]
<1>0. N \in Nat
  BY PlacesCounted
<1>1. PICK S : S = Place \cup {NULL}
  OBVIOUS
<1>2. from \in S /\ NULL \in S /\ \A x \in S : x # NULL => ptr[x] \in S
  BY <1>1 DEF Ptrs
<1>3. \E f \in [0..N -> S] : f[0] = from /\ \A k \in 1..N : f[k] = IF f[k - 1] = NULL THEN NULL ELSE ptr[f[k - 1]]
  <2>1. \E f : IsFollowed(f, S, N, from, NULL, ptr)
    BY <1>0, <1>2, PointerSteps
  <2> QED  BY <2>1 DEF IsFollowed
<1>4. PICK f \in [0..N -> S] : f[0] = from /\ \A k \in 1..N : f[k] = IF f[k - 1] = NULL THEN NULL ELSE ptr[f[k - 1]]
  BY <1>3
<1>6. IsWalk(ptr, from, f)
  BY <1>0, <1>4 DEF IsWalk
<1>7. g = CHOOSE h : IsWalk(ptr, from, h)
  BY StepsChosen
<1>8. IsWalk(ptr, from, g)
  BY <1>6, <1>7, Zenon
<1> QED
  BY <1>0, <1>8 DEF IsWalk

\* An iterator goes along a chain h of different places, and what it passes is
\* what lies between the ends of the chain.
LEMMA StepsAlong ==
    ASSUME NEW ptr \in Ptrs, NEW n \in Nat, NEW h \in [0..(n + 1) -> Place],
           \A k \in 0..n : ptr[h[k]] = h[k + 1], ptr[h[n + 1]] = NULL,
           NEW k \in 0..Cardinality(Place)
    PROVE  Steps(ptr, h[0])[k] = IF k <= n + 1 THEN h[k] ELSE NULL
<1>1. PICK N \in Nat : N = Cardinality(Place)
  BY PlacesCounted
<1>2. PICK g : g = Steps(ptr, h[0])
  OBVIOUS
<1>3. h[0] \in Place
  OBVIOUS
<1>4. g[0] = h[0] /\ \A j \in 1..N : g[j] = IF g[j - 1] = NULL THEN NULL ELSE ptr[g[j - 1]]
  BY <1>1, <1>2, <1>3, StepsAre
<1> DEFINE T == {j \in 0..N : g[j] # IF j <= n + 1 THEN h[j] ELSE NULL}
<1>5. T = {}
  <2> SUFFICES ASSUME T # {} PROVE FALSE
    OBVIOUS
  <2>1. T \in SUBSET Nat
    BY <1>1
  <2>2. PICK m \in T : \A y \in T : m <= y
    <3> HIDE DEF T
    <3> QED  BY <2>1, LeastNumber
  <2>3. m \in 0..N /\ g[m] # IF m <= n + 1 THEN h[m] ELSE NULL
    OBVIOUS
  <2>4. m # 0
    BY <2>3, <1>4
  <2>5. PICK j \in 0..N : j = m - 1 /\ m = j + 1 /\ m \in 1..N
    BY <2>3, <2>4, <1>1
  <2>6. j \notin T
    BY <2>2, <2>5, <1>1
  <2>7. g[j] = IF j <= n + 1 THEN h[j] ELSE NULL
    BY <2>6
  <2>8. g[m] = IF g[j] = NULL THEN NULL ELSE ptr[g[j]]
    BY <2>5, <1>4
  <2>9. CASE j <= n
    <3>1. j \in 0..n /\ j \in 0..(n + 1) /\ m <= n + 1 /\ j <= n + 1
      BY <2>5, <2>9, <1>1
    <3>2. g[j] = h[j] /\ h[j] # NULL /\ ptr[h[j]] = h[m]
      BY <2>5, <2>7, <3>1, PlacesDiffer
    <3> QED  BY <2>3, <2>8, <3>1, <3>2
  <2>10. CASE j = n + 1
    <3>1. ~(m <= n + 1) /\ j <= n + 1 /\ j \in 0..(n + 1)
      BY <2>5, <2>10, <1>1
    <3>2. g[j] = h[n + 1] /\ h[n + 1] # NULL
      BY <2>7, <2>10, <3>1, PlacesDiffer
    <3> QED  BY <2>3, <2>8, <3>1, <3>2
  <2>11. CASE j > n + 1
    <3>1. ~(m <= n + 1) /\ ~(j <= n + 1)
      BY <2>5, <2>11, <1>1
    <3> QED  BY <2>3, <2>7, <2>8, <3>1
  <2> QED  BY <2>9, <2>10, <2>11, <1>1
<1> QED
  BY <1>1, <1>2, <1>5

LEMMA WalkAlong ==
    ASSUME NEW ptr \in Ptrs, NEW n \in Nat, n + 1 <= Cardinality(Place), NEW h \in [0..(n + 1) -> Place],
           \A k \in 0..n : ptr[h[k]] = h[k + 1], ptr[h[n + 1]] = NULL, \A k \in 0..n : h[k] # h[n + 1]
    PROVE  WalkFrom(ptr, h[0], h[n + 1]) = [k \in 1..n |-> h[k]]
<1>1. PICK N \in Nat : N = Cardinality(Place)
  BY PlacesCounted
<1>2. PICK g : g = Steps(ptr, h[0])
  OBVIOUS
<1>3. h[0] \in Place
  OBVIOUS
<1>4. DOMAIN g = 0..N
  BY <1>1, <1>2, <1>3, StepsAre
<1>5. \A k \in 0..N : g[k] = IF k <= n + 1 THEN h[k] ELSE NULL
  BY <1>1, <1>2, StepsAlong
<1>6. PICK e : e = h[n + 1]
  OBVIOUS
<1> DEFINE ends == {k \in DOMAIN g : g[k] = e}
<1>7. n + 1 \in ends
  BY <1>1, <1>4, <1>5, <1>6
<1>8. \A k \in ends : n + 1 <= k
  <2> SUFFICES ASSUME NEW k \in ends, ~(n + 1 <= k) PROVE FALSE
    OBVIOUS
  <2>1. k \in 0..N /\ g[k] = e /\ k \in 0..n /\ k <= n + 1
    BY <1>1, <1>4
  <2>2. g[k] = h[k]
    BY <2>1, <1>5
  <2> QED  BY <2>1, <2>2, <1>6
<1>9. \A k \in ends : k \in Nat
  BY <1>1, <1>4
<1>10. (CHOOSE k \in ends : \A j \in ends : k <= j) = n + 1
  <2> HIDE DEF ends
  <2>1. \A k \in ends : (\A j \in ends : k <= j) => k = n + 1
    BY <1>7, <1>8, <1>9
  <2> QED  BY <2>1, <1>7, <1>8
<1>11. WalkFrom(ptr, h[0], e) = [k \in 1..(CHOOSE k \in ends : \A j \in ends : k <= j) - 1 |-> g[k]]
  <2>1. ends # {}
    BY <1>7
  <2> QED  BY <2>1, <1>2, Zenon DEF WalkFrom
<1> HIDE DEF ends
<1>12. WalkFrom(ptr, h[0], e) = [k \in 1..n |-> g[k]]
  <2>1. PICK c : c = (CHOOSE k \in ends : \A j \in ends : k <= j)
    OBVIOUS
  <2>2. WalkFrom(ptr, h[0], e) = [k \in 1..c - 1 |-> g[k]]
    BY <2>1, <1>11, Zenon
  <2>4. c = n + 1
    BY <2>1, <1>10, Zenon
  <2>3. c - 1 = n
    BY <2>4
  <2> QED  BY <2>2, <2>3
<1>13. \A k \in 1..n : g[k] = h[k]
  <2> TAKE k \in 1..n
  <2>1. k \in 0..N /\ k <= n + 1
    BY <1>1
  <2> QED  BY <2>1, <1>5
<1> QED
  BY <1>6, <1>12, <1>13

\* What the walks along a chain find.
LEMMA ChainWalked ==
    ASSUME NEW nx, NEW pv, NEW s, IsChain(nx, pv, s)
    PROVE  /\ \A k \in 0..Cardinality(Place) :
                Steps(nx, Head_)[k] = IF k <= Len(s) + 1 THEN NodeAt(s, k) ELSE NULL
           /\ WalkFrom(nx, Head_, Tail_) = s
           /\ WalkFrom(pv, Tail_, Head_) = Reverse(s)
<1>1. /\ s \in Seq(Cell) /\ \A i, j \in 1..Len(s) : s[i] = s[j] => i = j
      /\ nx \in Ptrs /\ pv \in Ptrs /\ nx[Tail_] = NULL /\ pv[Head_] = NULL
      /\ \A i \in 0..Len(s) : nx[NodeAt(s, i)] = NodeAt(s, i + 1) /\ pv[NodeAt(s, i + 1)] = NodeAt(s, i)
  BY DEF IsChain
<1>2. /\ Len(s) \in Nat
      /\ NodeAt(s, 0) = Head_ /\ NodeAt(s, Len(s) + 1) = Tail_
      /\ \A i \in 1..Len(s) : NodeAt(s, i) = s[i]
      /\ \A i \in 0..(Len(s) + 1) : NodeAt(s, i) \in Place
      /\ \A i, j \in 0..(Len(s) + 1) : NodeAt(s, i) = NodeAt(s, j) => i = j
  BY <1>1, NodesDiffer
<1>3. PICK n \in Nat : n = Len(s)
  BY <1>2
<1>4. n + 1 <= Cardinality(Place)
  BY <1>1, <1>3, NodesCounted
<1>5. PICK h : h = [k \in 0..(n + 1) |-> NodeAt(s, k)]
  OBVIOUS
<1>6. /\ h \in [0..(n + 1) -> Place] /\ h[0] = Head_ /\ h[n + 1] = Tail_
      /\ \A k \in 0..(n + 1) : h[k] = NodeAt(s, k)
  BY <1>2, <1>3, <1>5
<1>7. \A k \in 0..n : nx[h[k]] = h[k + 1] /\ h[k] # h[n + 1]
  <2> TAKE k \in 0..n
  <2>1. k \in 0..(n + 1) /\ k + 1 \in 0..(n + 1) /\ n + 1 \in 0..(n + 1) /\ k # n + 1
    OBVIOUS
  <2> QED  BY <2>1, <1>1, <1>2, <1>3, <1>6
<1>8. nx[h[n + 1]] = NULL
  BY <1>1, <1>6
<1>9. \A k \in 0..Cardinality(Place) : Steps(nx, Head_)[k] = IF k <= n + 1 THEN NodeAt(s, k) ELSE NULL
  <2> TAKE k \in 0..Cardinality(Place)
  <2>1. Steps(nx, h[0])[k] = IF k <= n + 1 THEN h[k] ELSE NULL
    BY <1>1, <1>6, <1>7, <1>8, StepsAlong
  <2>2. k <= n + 1 => k \in 0..(n + 1)
    BY PlacesCounted
  <2> QED  BY <2>1, <2>2, <1>6
<1>10. WalkFrom(nx, Head_, Tail_) = s
  <2>0. (\A k \in 0..n : nx[h[k]] = h[k + 1]) /\ \A k \in 0..n : h[k] # h[n + 1]
    BY <1>7
  <2>1. WalkFrom(nx, h[0], h[n + 1]) = [k \in 1..n |-> h[k]]
    BY <2>0, <1>1, <1>4, <1>6, <1>7, <1>8, WalkAlong
  <2>2. \A k \in 1..n : h[k] = s[k]
    BY <1>2, <1>3, <1>6
  <2>3. s = [k \in 1..n |-> s[k]]
    BY <1>1, <1>3
  <2> QED  BY <2>1, <2>2, <2>3, <1>6
<1>11. PICK b : b = [k \in 0..(n + 1) |-> NodeAt(s, n + 1 - k)]
  OBVIOUS
<1>12. /\ b \in [0..(n + 1) -> Place] /\ b[0] = Tail_ /\ b[n + 1] = Head_
       /\ \A k \in 0..(n + 1) : b[k] = NodeAt(s, n + 1 - k)
  <2>1. \A k \in 0..(n + 1) : n + 1 - k \in 0..(Len(s) + 1)
    BY <1>3
  <2>2. n + 1 - 0 = Len(s) + 1 /\ n + 1 - (n + 1) = 0
    BY <1>3
  <2> QED  BY <2>1, <2>2, <1>2, <1>11
<1>13. \A k \in 0..n : pv[b[k]] = b[k + 1] /\ b[k] # b[n + 1]
  <2> TAKE k \in 0..n
  <2>1. PICK j \in 0..Len(s) : j = n - k
    BY <1>3
  <2>2. b[k] = NodeAt(s, j + 1) /\ b[k + 1] = NodeAt(s, j)
    <3>1. n + 1 - k = j + 1 /\ n + 1 - (k + 1) = j /\ k \in 0..(n + 1) /\ k + 1 \in 0..(n + 1)
      BY <2>1
    <3> QED  BY <3>1, <1>12
  <2>3. j + 1 \in 0..(Len(s) + 1) /\ 0 \in 0..(Len(s) + 1) /\ j + 1 # 0
    BY <2>1, <1>3
  <2> QED  BY <2>2, <2>3, <1>1, <1>2, <1>12
<1>14. pv[b[n + 1]] = NULL
  BY <1>1, <1>12
<1>15. WalkFrom(pv, Tail_, Head_) = Reverse(s)
  <2>0. (\A k \in 0..n : pv[b[k]] = b[k + 1]) /\ \A k \in 0..n : b[k] # b[n + 1]
    BY <1>13
  <2>1. WalkFrom(pv, b[0], b[n + 1]) = [k \in 1..n |-> b[k]]
    BY <2>0, <1>1, <1>4, <1>12, <1>13, <1>14, WalkAlong
  <2>2. \A k \in 1..n : b[k] = s[(n - k) + 1]
    <3> TAKE k \in 1..n
    <3>1. k \in 0..(n + 1) /\ n + 1 - k = (n - k) + 1 /\ (n - k) + 1 \in 1..Len(s)
      BY <1>3
    <3> QED  BY <3>1, <1>2, <1>12
  <2>3. Reverse(s) = [k \in 1..n |-> s[(n - k) + 1]]
    BY <1>3 DEF Reverse
  <2> QED  BY <2>1, <2>2, <2>3, <1>12
<1> QED
  BY <1>3, <1>9, <1>10, <1>15

LinkSet == [next : Ptrs, prev : Ptrs]

\* A node that is in the list is linked out by erase(), a sentinel is not.
LEMMA EraseLinksType ==
    ASSUME NEW l \in LinkSet, NEW c \in Place
    PROVE  /\ EraseLinks(l, c) \in LinkSet
           /\ l.next \in Ptrs /\ l.prev \in Ptrs
<1>1. PICK nx \in Ptrs, pv \in Ptrs : nx = l.next /\ pv = l.prev
  BY DEF LinkSet
<1>2. CASE nx[c] = NULL \/ pv[c] = NULL
  BY <1>1, <1>2 DEF EraseLinks
<1>3. CASE nx[c] # NULL /\ pv[c] # NULL
  <2>1. nx[c] \in Place /\ pv[c] \in Place
    BY <1>3 DEF Ptrs
  <2>2. PICK mx \in Ptrs, my \in Ptrs : mx = [nx EXCEPT ![pv[c]] = nx[c]] /\ my = [pv EXCEPT ![nx[c]] = pv[c]]
    BY <2>1 DEF Ptrs
  <2>3. EraseLinks(l, c) = [next |-> mx, prev |-> my]
    BY <1>1, <1>3, <2>2 DEF EraseLinks
  <2>4. [next |-> mx, prev |-> my] \in LinkSet
    BY DEF LinkSet
  <2> QED  BY <1>1, <2>3, <2>4
<1> QED
  BY <1>1, <1>2, <1>3

LEMMA EraseLinked ==
    ASSUME NEW l \in LinkSet, NEW s, IsChain(l.next, l.prev, s), NEW k \in 1..Len(s), NEW t, IsRemoved(t, s, k)
    PROVE  IsChain(EraseLinks(l, s[k]).next, EraseLinks(l, s[k]).prev, t)
<1>1. PICK nx, pv : nx = l.next /\ pv = l.prev
  OBVIOUS
<1>2. /\ s \in Seq(Cell) /\ \A i, j \in 1..Len(s) : s[i] = s[j] => i = j
      /\ \A i \in 0..Len(s) : nx[NodeAt(s, i)] = NodeAt(s, i + 1) /\ pv[NodeAt(s, i + 1)] = NodeAt(s, i)
  BY <1>1 DEF IsChain
<1>3. /\ Len(s) \in Nat /\ NodeAt(s, k) = s[k]
      /\ \A i \in 0..(Len(s) + 1) : NodeAt(s, i) \in Place
  BY <1>2, NodesDiffer
<1>4. PICK a, b, c : a = NodeAt(s, k - 1) /\ b = NodeAt(s, k + 1) /\ c = s[k]
  OBVIOUS
<1>5. nx[c] = b /\ pv[c] = a /\ a # NULL /\ b # NULL
  <2>1. k \in 0..Len(s) /\ k - 1 \in 0..Len(s) /\ k - 1 + 1 = k /\ k + 1 \in 0..(Len(s) + 1) /\ k - 1 \in 0..(Len(s) + 1)
    BY <1>3
  <2> QED  BY <2>1, <1>2, <1>3, <1>4, PlacesDiffer
<1>6. PICK mx, my : mx = [nx EXCEPT ![a] = b] /\ my = [pv EXCEPT ![b] = a]
  OBVIOUS
<1>7. EraseLinks(l, c) = [next |-> mx, prev |-> my]
  BY <1>1, <1>5, <1>6 DEF EraseLinks
<1>8. IsChain(mx, my, t)
  BY <1>1, <1>4, <1>6, ChainErased
<1> QED
  BY <1>4, <1>7, <1>8

\* The loop that erases the nodes in M: what is left after k rounds.
KeptPlacesOf(s, M, k) == {i \in 1..Len(s) : i > k \/ s[i] \notin M}

WalkState == [l : LinkSet, at : Place \cup {NULL}]

\* After k rounds the nodes in M are out of the first k places, and the
\* iterator is at the next node of the original list.
LoopAt(w, s, M, k) ==
    /\ w \in WalkState
    /\ IsChain(w.l.next, w.l.prev, KeepPlaces(s, KeptPlacesOf(s, M, k)))
    /\ w.at = NodeAt(s, k + 1)

\* The node behind the one the iterator is at.
LEMMA NextOfKept ==
    ASSUME NEW s \in Seq(Cell), NEW i \in 1..Len(s), NEW K \in SUBSET (1..Len(s)), i \in K,
           \A j \in 1..Len(s) : i < j => j \in K,
           NEW t, t = KeepPlaces(s, K), NEW p, p = RankIn(K, i) + 1
    PROVE  p \in 1..Len(t) /\ t[p] = s[i] /\ NodeAt(t, p + 1) = NodeAt(s, i + 1)
<1>0. Len(s) \in Nat /\ i \in Nat
  BY LenProperties
<1>1. K \in SUBSET Nat /\ IsFiniteSet(K) /\ Cardinality(K) \in Nat
  <2>1. IsFiniteSet(1..Len(s))
    BY <1>0, IntervalSize
  <2>2. IsFiniteSet(K)
    BY <2>1, FS_Subset
  <2> QED  BY <2>2, <1>0, FS_CardinalityType
<1>2. t \in Seq(Cell) /\ Len(t) = Cardinality(K)
  BY KeptPlaces
<1>3. RankIn(K, i) \in 0..(Cardinality(K) - 1)
  BY <1>1, RankType
<1>4. p \in 1..Len(t) /\ t[p] = s[i]
  BY <1>1, <1>2, <1>3, KeptAt
<1>5. CASE i = Len(s)
  <2>1. PICK j \in Nat : j = Len(s) + 1
    BY <1>0
  <2>2. \A m \in K : i < m => j <= m
    BY <1>0, <1>5, <2>1
  <2>3. i < j
    BY <1>5, <2>1, <1>0
  <2>4. RankIn(K, j) = RankIn(K, i) + 1
    BY <1>1, <2>2, <2>3, RankNext
  <2>5. {m \in K : m < j} = K
    <3>1. ASSUME NEW m \in K PROVE m < j
      <4>1. m \in 1..Len(s)
        OBVIOUS
      <4> QED  BY <4>1, <2>1, <1>0
    <3> QED  BY <3>1
  <2>6. p = Len(t)
    BY <2>4, <2>5, <1>2 DEF RankIn
  <2> QED  BY <2>6, <1>4, <1>5, <1>0, <1>1, <1>2 DEF NodeAt
<1>6. CASE i # Len(s)
  <2>1. PICK j \in 1..Len(s) : j = i + 1 /\ i < j
    BY <1>0, <1>6
  <2>2. j \in K /\ j \in Nat
    BY <2>1, <1>1
  <2>3. \A m \in K : i < m => j <= m
    BY <2>1, <1>1, <1>0
  <2>4. RankIn(K, j) = p
    BY <1>1, <2>1, <2>2, <2>3, RankNext
  <2>5. t[p + 1] = s[j]
    BY <2>2, <2>4, KeptAt
  <2>6. p \in 0..(Cardinality(K) - 1)
    BY <2>2, <2>4, <1>1, RankType
  <2>7. NodeAt(t, p + 1) = t[p + 1]
    BY <2>6, <1>1, <1>2 DEF NodeAt
  <2>8. NodeAt(s, i + 1) = s[j]
    BY <2>1, <1>0 DEF NodeAt
  <2> QED  BY <2>5, <2>7, <2>8, <1>4
<1> QED
  BY <1>4, <1>5, <1>6

LEMMA RoundKeeps ==
    ASSUME NEW s \in Seq(Cell), NEW M, NEW k \in Nat, k < Len(s), NEW w, LoopAt(w, s, M, k)
    PROVE  LoopAt(EraseRound(w, M), s, M, k + 1)
<1>0. Len(s) \in Nat
  BY LenProperties
<1>1. PICK i \in 1..Len(s) : i = k + 1
  BY <1>0
<1>2. PICK K \in SUBSET (1..Len(s)) : K = KeptPlacesOf(s, M, k)
  BY DEF KeptPlacesOf
<1>3. i \in K /\ \A j \in 1..Len(s) : i < j => j \in K
  BY <1>0, <1>1, <1>2 DEF KeptPlacesOf
<1>4. PICK t, p : t = KeepPlaces(s, K) /\ p = RankIn(K, i) + 1
  OBVIOUS
<1>5. p \in 1..Len(t) /\ t[p] = s[i] /\ NodeAt(t, p + 1) = NodeAt(s, i + 1)
  BY <1>3, <1>4, NextOfKept
<1>6. PICK l, c : l \in LinkSet /\ l = w.l /\ c = w.at
  BY DEF LoopAt, WalkState
<1>7. IsChain(l.next, l.prev, t) /\ c = NodeAt(s, i)
  BY <1>1, <1>2, <1>4, <1>6 DEF LoopAt
<1>8. s[i] \in Cell /\ c = s[i] /\ c \in Place /\ c \notin {Tail_, NULL} /\ c # Tail_
  <2>1. s[i] \in Cell
    BY ElementOfSeq
  <2>2. NodeAt(s, i) = s[i]
    BY <1>0 DEF NodeAt
  <2> QED  BY <2>1, <2>2, <1>7, PlacesDiffer
<1>9. t \in Seq(Cell) /\ Len(t) \in Nat /\ NodeAt(t, p) = c
  <2>1. t \in Seq(Cell)
    BY <1>4, KeptPlaces
  <2>2. Len(t) \in Nat
    BY <2>1, LenProperties
  <2> QED  BY <2>1, <2>2, <1>5, <1>8 DEF NodeAt
<1>10. l.next[c] = NodeAt(s, i + 1) /\ l.next \in Ptrs
  <2>1. p \in 0..Len(t)
    BY <1>5, <1>9
  <2> QED  BY <2>1, <1>5, <1>7, <1>9 DEF IsChain
<1>11. l.next[c] \in Place \cup {NULL}
  BY <1>8, <1>10 DEF Ptrs
<1>12. PICK n \in LinkSet : n = IF c \in M THEN EraseLinks(l, c) ELSE l
  BY <1>6, <1>8, EraseLinksType
<1>13. PICK v \in WalkState : v = [l |-> n, at |-> l.next[c]]
  BY <1>11 DEF WalkState
<1>14. EraseRound(w, M) = v /\ v.l = n /\ v.at = NodeAt(s, i + 1)
  <2>1. v.l = n /\ v.at = l.next[c]
    BY <1>13
  <2>2. EraseRound(w, M) = v
    BY <1>6, <1>8, <1>12, <1>13, Zenon DEF EraseRound
  <2> QED  BY <2>1, <2>2, <1>10
<1>15. IsChain(n.next, n.prev, KeepPlaces(s, KeptPlacesOf(s, M, i)))
  <2>1. CASE c \in M
    <3>1. n = EraseLinks(l, t[p])
      BY <2>1, <1>5, <1>8, <1>12
    <3>2. PICK r : IsRemoved(r, t, p)
      BY DEF IsRemoved
    <3>3. IsChain(n.next, n.prev, r)
      BY <3>1, <3>2, <1>5, <1>6, <1>7, EraseLinked
    <3>4. r = KeepPlaces(s, K \ {i})
      BY <3>2, <1>3, <1>4, KeptWithoutOne
    <3>5. K \ {i} = KeptPlacesOf(s, M, i)
      BY <2>1, <1>0, <1>1, <1>2, <1>8 DEF KeptPlacesOf
    <3> QED  BY <3>3, <3>4, <3>5
  <2>2. CASE c \notin M
    <3>1. n = l
      BY <2>2, <1>12
    <3>2. K = KeptPlacesOf(s, M, i)
      BY <2>2, <1>0, <1>1, <1>2, <1>8 DEF KeptPlacesOf
    <3> QED  BY <3>1, <3>2, <1>4, <1>7
  <2> QED  BY <2>1, <2>2
<1> QED
  BY <1>1, <1>14, <1>15 DEF LoopAt

IsLoop(l, n, M, g) ==
    g = [k \in 0..n |-> IF k = 0 THEN [l |-> l, at |-> l.next[Head_]] ELSE EraseRound(g[k - 1], M)]

LEMMA LoopChosen ==
    ASSUME NEW l, NEW n, NEW M PROVE EraseRounds(l, n, M) = (CHOOSE g : IsLoop(l, n, M, g))[n]
  BY Zenon DEF EraseRounds, IsLoop

LEMMA RoundType ==
    ASSUME NEW w \in WalkState, NEW M PROVE EraseRound(w, M) \in WalkState
<1>1. PICK l \in LinkSet, c \in Place \cup {NULL} : l = w.l /\ c = w.at
  BY DEF WalkState
<1>2. CASE c \in {Tail_, NULL}
  BY <1>1, <1>2 DEF EraseRound
<1>3. CASE c \notin {Tail_, NULL}
  <2>1. c \in Place
    BY <1>3
  <2>2. PICK n \in LinkSet : n = IF c \in M THEN EraseLinks(l, c) ELSE l
    BY <2>1, EraseLinksType
  <2>3. l.next[c] \in Place \cup {NULL}
    <3>1. l.next \in Ptrs
      BY <2>1, EraseLinksType
    <3> QED  BY <3>1, <2>1 DEF Ptrs
  <2>4. EraseRound(w, M) = [l |-> n, at |-> l.next[c]]
    BY <1>1, <1>3, <2>2, Zenon DEF EraseRound
  <2>5. [l |-> n, at |-> l.next[c]] \in WalkState
    BY <2>3 DEF WalkState
  <2> QED  BY <2>4, <2>5
<1> QED
  BY <1>2, <1>3

\* A list keeps all its places when nothing is erased.
LEMMA KeepAll ==
    ASSUME NEW S, NEW s \in Seq(S) PROVE KeepPlaces(s, 1..Len(s)) = s
<1>0. Len(s) \in Nat
  BY LenProperties
<1>1. PICK K \in SUBSET (1..Len(s)) : K = 1..Len(s)
  OBVIOUS
<1>2. Len(s) = Cardinality(K)
  BY <1>0, <1>1, IntervalSize
<1>3. ASSUME NEW i \in K PROVE s[RankIn(K, i) + 1] = s[i]
  <2>0. i \in 1..Len(s)
    BY <1>1
  <2>1. PICK n \in Nat : n = i - 1 /\ n + 1 = i
    BY <2>0, <1>0
  <2>2. {j \in K : j < i} = 1..n
    BY <1>1, <1>0, <2>0, <2>1
  <2>3. RankIn(K, i) = n
    BY <2>2, IntervalSize DEF RankIn
  <2> QED  BY <2>1, <2>3
<1>4. s = KeepPlaces(s, K)
  BY <1>2, <1>3, KeptIs
<1> QED
  BY <1>1, <1>4

\* The loop takes the nodes in M out and ends at mTail.
LEMMA LoopErases ==
    ASSUME NEW l \in LinkSet, NEW s, IsChain(l.next, l.prev, s), NEW M, NEW n, n = Len(s),
           NEW after, after = EraseRounds(l, n, M)
    PROVE  /\ after.l \in LinkSet /\ after.at = Tail_
           /\ IsChain(after.l.next, after.l.prev, Erase(s, M))
<1>1. s \in Seq(Cell) /\ n \in Nat /\ l.next[Head_] = NodeAt(s, 1)
  <2>1. s \in Seq(Cell) /\ \A k \in 0..Len(s) : l.next[NodeAt(s, k)] = NodeAt(s, k + 1)
    BY DEF IsChain
  <2>2. Len(s) \in Nat
    BY <2>1, LenProperties
  <2>3. NodeAt(s, 0) = Head_ /\ 0 \in 0..Len(s)
    BY <2>2 DEF NodeAt
  <2> QED  BY <2>1, <2>2, <2>3
<1>2. NodeAt(s, 1) \in Place
  <2>1. \A i, j \in 1..Len(s) : s[i] = s[j] => i = j
    BY DEF IsChain
  <2>2. 1 \in 0..(Len(s) + 1)
    BY <1>1
  <2> QED  BY <1>1, <2>1, <2>2, NodesDiffer
<1>3. PICK a \in WalkState : a = [l |-> l, at |-> l.next[Head_]]
  BY <1>1, <1>2 DEF WalkState
<1>4. PICK rounds \in [WalkState \X (1..n) -> WalkState] : rounds = [p \in WalkState \X (1..n) |-> EraseRound(p[1], M)]
  BY RoundType
<1>5. PICK f : IsIteration(f, WalkState, n, a, rounds)
  BY <1>1, IterationExists
<1>6. f \in [0..n -> WalkState] /\ f[0] = a /\ \A k \in 1..n : f[k] = rounds[<<f[k - 1], k>>]
  BY <1>5 DEF IsIteration
<1>7. ASSUME NEW k \in 1..n PROVE f[k] = EraseRound(f[k - 1], M)
  <2>1. PICK b \in WalkState : b = f[k - 1]
    BY <1>1, <1>6
  <2>2. rounds[<<b, k>>] = EraseRound(b, M)
    BY <1>4
  <2> QED  BY <2>1, <2>2, <1>6
<1>8. IsLoop(l, n, M, f)
  BY <1>1, <1>3, <1>6, <1>7 DEF IsLoop
<1>9. PICK g : g = (CHOOSE h : IsLoop(l, n, M, h))
  OBVIOUS
<1>10. IsLoop(l, n, M, g)
  BY <1>8, <1>9, Zenon
<1>11. g[0] = a /\ \A k \in 1..n : g[k] = EraseRound(g[k - 1], M)
  <2>1. \A k \in 0..n : g[k] = IF k = 0 THEN a ELSE EraseRound(g[k - 1], M)
    BY <1>3, <1>10, Zenon DEF IsLoop
  <2>2. 0 \in 0..n /\ \A k \in 1..n : k \in 0..n /\ k # 0
    BY <1>1
  <2> QED  BY <2>1, <2>2
<1> DEFINE T == {k \in 0..n : ~LoopAt(g[k], s, M, k)}
<1>12. T = {}
  <2> SUFFICES ASSUME T # {} PROVE FALSE
    OBVIOUS
  <2>1. T \in SUBSET Nat
    BY <1>1
  <2>2. PICK m \in T : \A y \in T : m <= y
    <3> HIDE DEF T
    <3> QED  BY <2>1, LeastNumber
  <2>3. m \in 0..n /\ ~LoopAt(g[m], s, M, m)
    OBVIOUS
  <2>4. CASE m = 0
    <3>1. KeptPlacesOf(s, M, 0) = 1..Len(s)
      BY <1>1 DEF KeptPlacesOf
    <3>2. KeepPlaces(s, KeptPlacesOf(s, M, 0)) = s
      BY <3>1, <1>1, KeepAll
    <3>3. a.l = l /\ a.at = NodeAt(s, 0 + 1)
      BY <1>1, <1>3
    <3>4. LoopAt(a, s, M, 0)
      BY <3>2, <3>3 DEF LoopAt
    <3> QED  BY <3>4, <2>3, <2>4, <1>11
  <2>5. CASE m # 0
    <3>1. PICK k \in Nat : k = m - 1 /\ m = k + 1 /\ k \in 0..n /\ m \in 1..n /\ k < Len(s)
      BY <2>3, <2>5, <1>1
    <3>2. k \notin T
      BY <2>2, <3>1, <1>1
    <3>3. LoopAt(g[k], s, M, k)
      BY <3>1, <3>2
    <3>4. LoopAt(EraseRound(g[k], M), s, M, k + 1)
      BY <1>1, <3>1, <3>3, RoundKeeps
    <3>5. g[m] = EraseRound(g[k], M)
      BY <3>1, <1>11
    <3> QED  BY <3>1, <3>4, <3>5, <2>3
  <2> QED  BY <2>4, <2>5
<1>13. n \in 0..n
  BY <1>1
<1>14. LoopAt(g[n], s, M, n)
  BY <1>12, <1>13
<1>15. after = g[n]
  BY <1>9, LoopChosen
<1>16. KeptPlacesOf(s, M, n) = Survivors(s, M)
  BY <1>1 DEF KeptPlacesOf, Survivors
<1>17. NodeAt(s, n + 1) = Tail_
  BY <1>1 DEF NodeAt
<1>18. after.l \in LinkSet /\ after.at = Tail_
  BY <1>14, <1>15, <1>17 DEF LoopAt, WalkState
<1>19. IsChain(after.l.next, after.l.prev, Erase(s, M))
  BY <1>14, <1>15, <1>16 DEF LoopAt, Erase
<1> QED
  BY <1>18, <1>19

\* The nodes of a list.
NodesOf(s) == {s[i] : i \in 1..Len(s)}

LEMMA NodesOfEmpty ==
    NodesOf(<<>>) = {}
<1>1. 1..Len(<<>>) = {}
  OBVIOUS
<1> QED  BY <1>1 DEF NodesOf

\* The inductive invariant: the pointers link what the list should contain,
\* and those nodes are allocated.
ListInv ==
    /\ links \in LinkSet /\ IsChain(links.next, links.prev, items)
    /\ live = NodesOf(items)
    /\ broken = FALSE

LEMMA ListStarts ==
    ASSUME ListInit PROVE ListInv
<1>1. PICK nx, pv : /\ nx = [p \in Place |-> IF p = Head_ THEN Tail_ ELSE NULL]
                    /\ pv = [p \in Place |-> IF p = Tail_ THEN Head_ ELSE NULL]
  OBVIOUS
<1>2. /\ nx \in Ptrs /\ pv \in Ptrs /\ nx[Head_] = Tail_ /\ pv[Tail_] = Head_
      /\ nx[Tail_] = NULL /\ pv[Head_] = NULL
  BY <1>1, PlacesDiffer DEF Ptrs
<1>3. links = [next |-> nx, prev |-> pv] /\ items = <<>> /\ live = {} /\ broken = FALSE
  BY <1>1 DEF ListInit, NewLinks
<1>4. links \in LinkSet /\ links.next = nx /\ links.prev = pv
  BY <1>2, <1>3 DEF LinkSet
<1>5. items \in Seq(Cell) /\ Len(items) = 0
  BY <1>3
<1>6. \A k \in 0..Len(items) : k = 0 /\ NodeAt(items, k) = Head_ /\ NodeAt(items, k + 1) = Tail_
  BY <1>5 DEF NodeAt
<1>7. IsChain(nx, pv, items)
  BY <1>2, <1>5, <1>6 DEF IsChain
<1> QED
  BY <1>3, <1>4, <1>5, <1>7, NodesOfEmpty DEF ListInv

\* Each conjunct of the chain, and the walks, in the current state.
LEMMA InvParts ==
    ASSUME ListInv, NEW nx, nx = links.next, NEW pv, pv = links.prev, NEW s, s = items
    PROVE  /\ IsChain(nx, pv, s) /\ s \in Seq(Cell) /\ Len(s) \in Nat /\ nx \in Ptrs /\ pv \in Ptrs
           /\ live = NodesOf(s) /\ live \subseteq Cell
           /\ \A i \in 1..Len(s) : NodeAt(s, i) = s[i] /\ s[i] \in Cell
           /\ NodeAt(s, 0) = Head_ /\ NodeAt(s, Len(s) + 1) = Tail_
           /\ \A k \in 0..Len(s) : nx[NodeAt(s, k)] = NodeAt(s, k + 1) /\ pv[NodeAt(s, k + 1)] = NodeAt(s, k)
           /\ \A i, j \in 1..Len(s) : s[i] = s[j] => i = j
           /\ \A i \in 0..(Len(s) + 1) : NodeAt(s, i) \in Place
           /\ \A i, j \in 0..(Len(s) + 1) : NodeAt(s, i) = NodeAt(s, j) => i = j
           /\ nx[Tail_] = NULL /\ pv[Head_] = NULL
<1>1. /\ IsChain(nx, pv, s) /\ live = NodesOf(s)
  BY DEF ListInv
<1>2. /\ s \in Seq(Cell) /\ nx \in Ptrs /\ pv \in Ptrs
      /\ \A i, j \in 1..Len(s) : s[i] = s[j] => i = j
      /\ \A k \in 0..Len(s) : nx[NodeAt(s, k)] = NodeAt(s, k + 1) /\ pv[NodeAt(s, k + 1)] = NodeAt(s, k)
      /\ nx[Tail_] = NULL /\ pv[Head_] = NULL
  BY <1>1 DEF IsChain
<1>3. /\ Len(s) \in Nat
      /\ NodeAt(s, 0) = Head_ /\ NodeAt(s, Len(s) + 1) = Tail_
      /\ \A k \in 1..Len(s) : NodeAt(s, k) = s[k] /\ s[k] \in Cell
      /\ \A k \in 0..(Len(s) + 1) : NodeAt(s, k) \in Place
      /\ \A j, k \in 0..(Len(s) + 1) : NodeAt(s, j) = NodeAt(s, k) => j = k
  BY <1>2, NodesDiffer
<1>4. live \subseteq Cell
  BY <1>1, <1>3 DEF NodesOf
<1> QED
  BY <1>1, <1>2, <1>3, <1>4

\* A step that leads to the links and nodes of a list s keeps the invariant.
LEMMA StepsToChain ==
    ASSUME NEW s, NEW nx \in Ptrs, NEW pv \in Ptrs, IsChain(nx, pv, s),
           links' = [next |-> nx, prev |-> pv], items' = s,
           live' = NodesOf(s), broken' = FALSE
    PROVE  ListInv'
<1>1. links'.next = nx /\ links'.prev = pv
  OBVIOUS
<1>2. links' \in LinkSet
  BY DEF LinkSet
<1> QED
  BY <1>1, <1>2 DEF ListInv

\* The nodes of a list with one more, or one less.
LEMMA NodesInserted ==
    ASSUME NEW s \in Seq(Cell), NEW c \in Cell, NEW p \in 1..(Len(s) + 1), NEW t, IsInserted(t, s, p, c)
    PROVE  NodesOf(t) = NodesOf(s) \cup {c}
<1>1. /\ Len(s) \in Nat /\ Len(t) = Len(s) + 1
      /\ \A i \in 1..(Len(s) + 1) : t[i] = IF i < p THEN s[i] ELSE IF i = p THEN c ELSE s[i - 1]
  BY InsertedAt, LenProperties
<1>2. ASSUME NEW i \in 1..Len(t) PROVE t[i] = c \/ \E j \in 1..Len(s) : t[i] = s[j]
  <2>1. CASE i < p
    BY <1>1, <2>1
  <2>2. CASE i = p
    BY <1>1, <2>2
  <2>3. CASE ~(i < p) /\ i # p
    <3>1. i - 1 \in 1..Len(s) /\ t[i] = s[i - 1]
      BY <1>1, <2>3
    <3> QED  BY <3>1
  <2> QED  BY <2>1, <2>2, <2>3
<1>3. ASSUME NEW j \in 1..Len(s) PROVE \E i \in 1..Len(t) : t[i] = s[j]
  <2>1. CASE j < p
    BY <1>1, <2>1
  <2>2. CASE ~(j < p)
    <3>1. j + 1 \in 1..Len(t) /\ ~(j + 1 < p) /\ j + 1 # p /\ j + 1 - 1 = j
      BY <1>1, <2>2
    <3>2. t[j + 1] = s[j]
      BY <3>1, <1>1
    <3> QED  BY <3>1, <3>2
  <2> QED  BY <2>1, <2>2
<1>4. p \in 1..Len(t) /\ t[p] = c
  BY <1>1
<1>5. ASSUME NEW x PROVE x \in NodesOf(t) <=> (x \in NodesOf(s) \/ x = c)
  <2>1. ASSUME x \in NodesOf(t) PROVE x \in NodesOf(s) \/ x = c
    <3>1. PICK i \in 1..Len(t) : x = t[i]
      BY <2>1 DEF NodesOf
    <3> QED  BY <3>1, <1>2 DEF NodesOf
  <2>2. ASSUME x \in NodesOf(s) PROVE x \in NodesOf(t)
    <3>1. PICK j \in 1..Len(s) : x = s[j]
      BY <2>2 DEF NodesOf
    <3> QED  BY <3>1, <1>3 DEF NodesOf
  <2>3. c \in NodesOf(t)
    BY <1>4 DEF NodesOf
  <2> QED  BY <2>1, <2>2, <2>3
<1> QED
  BY <1>5

LEMMA NodesRemoved ==
    ASSUME NEW s \in Seq(Cell), \A i, j \in 1..Len(s) : s[i] = s[j] => i = j,
           NEW p \in 1..Len(s), NEW t, IsRemoved(t, s, p)
    PROVE  NodesOf(t) = NodesOf(s) \ {s[p]}
<1>1. /\ Len(s) \in Nat /\ Len(t) = Len(s) - 1
      /\ \A i \in 1..(Len(s) - 1) : t[i] = IF i < p THEN s[i] ELSE s[i + 1]
  BY RemovedList, LenProperties
<1>2. ASSUME NEW i \in 1..Len(t) PROVE \E j \in 1..Len(s) : t[i] = s[j] /\ s[j] # s[p]
  <2>1. PICK j \in 1..Len(s) : j = (IF i < p THEN i ELSE i + 1) /\ j # p
    BY <1>1
  <2> QED  BY <2>1, <1>1
<1>3. ASSUME NEW j \in 1..Len(s), j # p PROVE \E i \in 1..Len(t) : t[i] = s[j]
  <2>1. CASE j < p
    <3>1. j \in 1..Len(t)
      BY <1>1, <2>1
    <3> QED  BY <3>1, <2>1, <1>1
  <2>2. CASE ~(j < p)
    <3>1. PICK i \in 1..Len(t) : i = j - 1 /\ i + 1 = j /\ ~(i < p)
      BY <1>1, <1>3, <2>2
    <3>2. t[i] = s[j]
      BY <3>1, <1>1
    <3> QED  BY <3>2
  <2> QED  BY <2>1, <2>2
<1>4. ASSUME NEW x PROVE x \in NodesOf(t) <=> (x \in NodesOf(s) /\ x # s[p])
  <2>1. ASSUME x \in NodesOf(t) PROVE x \in NodesOf(s) /\ x # s[p]
    <3>1. PICK i \in 1..Len(t) : x = t[i]
      BY <2>1 DEF NodesOf
    <3>2. PICK j \in 1..Len(s) : t[i] = s[j] /\ s[j] # s[p]
      BY <1>2
    <3> QED  BY <3>1, <3>2 DEF NodesOf
  <2>2. ASSUME x \in NodesOf(s), x # s[p] PROVE x \in NodesOf(t)
    <3>1. PICK j \in 1..Len(s) : x = s[j]
      BY <2>2 DEF NodesOf
    <3>2. j # p
      BY <2>2, <3>1
    <3>3. PICK i \in 1..Len(t) : t[i] = s[j]
      BY <3>2, <1>3
    <3> QED  BY <3>1, <3>3 DEF NodesOf
  <2> QED  BY <2>1, <2>2
<1> QED
  BY <1>4

\* A node is linked in behind the k-th node of the list.
LEMMA LinkedIn ==
    ASSUME ListInv, NEW c \in Cell, Fresh(c), NEW k \in 0..Len(items), NEW at, at = NodeAt(items, k),
           links' = InsertAfter(links, at, c), IsInserted(items', items, k + 1, c)
    PROVE  ListInv'
<1>1. PICK nx, pv, s : nx = links.next /\ pv = links.prev /\ s = items
  OBVIOUS
<1>2. /\ IsChain(nx, pv, s) /\ s \in Seq(Cell) /\ Len(s) \in Nat /\ nx \in Ptrs /\ pv \in Ptrs
      /\ live = NodesOf(s)
      /\ \A i \in 0..Len(s) : nx[NodeAt(s, i)] = NodeAt(s, i + 1)
  BY <1>1, InvParts
<1>3. PICK a, b, t, mx, my : /\ a = NodeAt(s, k) /\ b = NodeAt(s, k + 1) /\ t = items'
                             /\ mx = [nx EXCEPT ![c] = b, ![a] = c] /\ my = [pv EXCEPT ![c] = a, ![b] = c]
  OBVIOUS
<1>4. at = a /\ nx[a] = b /\ IsInserted(t, s, k + 1, c) /\ k \in 0..Len(s)
  BY <1>1, <1>2, <1>3
<1>5. \A i \in 1..Len(s) : s[i] # c
  BY <1>2 DEF Fresh, NodesOf
<1>6. IsChain(mx, my, t)
  BY <1>2, <1>3, <1>4, <1>5, ChainInserted
<1>7. mx \in Ptrs /\ my \in Ptrs
  BY <1>6 DEF IsChain
<1>8. links' = [next |-> mx, prev |-> my]
  BY <1>1, <1>3, <1>4, Zenon DEF InsertAfter
<1>9. live' = NodesOf(t)
  <2>1. PICK p \in 1..(Len(s) + 1) : p = k + 1
    BY <1>2, <1>4
  <2>2. NodesOf(t) = NodesOf(s) \cup {c}
    BY <1>2, <1>4, <2>1, NodesInserted
  <2> QED  BY <2>2, <1>2 DEF Fresh
<1>10. broken' = FALSE
  BY DEF Fresh, ListInv
<1> QED
  BY <1>3, <1>6, <1>7, <1>8, <1>9, <1>10, StepsToChain

\* The k-th node of the list is linked out and deleted.
LEMMA LinkedOut ==
    ASSUME ListInv, NEW k \in 1..Len(items), NEW a, a = NodeAt(items, k - 1), NEW b, b = NodeAt(items, k + 1),
           links' = [next |-> [links.next EXCEPT ![a] = b], prev |-> [links.prev EXCEPT ![b] = a]],
           DeleteCells({items[k]}), IsRemoved(items', items, k)
    PROVE  ListInv'
<1>1. PICK nx, pv, s, t : nx = links.next /\ pv = links.prev /\ s = items /\ t = items'
  OBVIOUS
<1>2. /\ IsChain(nx, pv, s) /\ s \in Seq(Cell) /\ live = NodesOf(s)
      /\ \A i, j \in 1..Len(s) : s[i] = s[j] => i = j
  BY <1>1, InvParts
<1>3. PICK mx, my : mx = [nx EXCEPT ![a] = b] /\ my = [pv EXCEPT ![b] = a]
  OBVIOUS
<1>4. IsChain(mx, my, t)
  BY <1>1, <1>2, <1>3, ChainErased
<1>5. mx \in Ptrs /\ my \in Ptrs
  BY <1>4 DEF IsChain
<1>6. links' = [next |-> mx, prev |-> my]
  BY <1>1, <1>3
<1>7. live' = NodesOf(t)
  <2>1. NodesOf(t) = NodesOf(s) \ {s[k]}
    BY <1>1, <1>2, NodesRemoved
  <2> QED  BY <2>1, <1>1, <1>2 DEF DeleteCells
<1>8. broken' = FALSE
  BY DEF DeleteCells, ListInv
<1> QED
  BY <1>1, <1>4, <1>5, <1>6, <1>7, <1>8, StepsToChain
\* The nodes at the ends of the list, and the one behind a sentinel.
LEMMA EndsOf ==
    ASSUME ListInv, NEW nx, nx = links.next, NEW pv, pv = links.prev
    PROVE  /\ Len(items) \in Nat /\ items \in Seq(Cell)
           /\ nx[Head_] = NodeAt(items, 1) /\ pv[Tail_] = NodeAt(items, Len(items))
           /\ NodeAt(items, 0) = Head_ /\ NodeAt(items, Len(items) + 1) = Tail_
           /\ nx[Head_] # Tail_ => Len(items) # 0
           /\ pv[Tail_] # Head_ => Len(items) # 0
<1>1. PICK s : s = items
  OBVIOUS
<1>2. /\ s \in Seq(Cell) /\ Len(s) \in Nat /\ NodeAt(s, 0) = Head_ /\ NodeAt(s, Len(s) + 1) = Tail_
      /\ \A k \in 0..Len(s) : nx[NodeAt(s, k)] = NodeAt(s, k + 1) /\ pv[NodeAt(s, k + 1)] = NodeAt(s, k)
  BY <1>1, InvParts
<1>3. nx[Head_] = NodeAt(s, 1)
  BY <1>2
<1>4. pv[Tail_] = NodeAt(s, Len(s))
  BY <1>2
<1>5. Len(s) = 0 => nx[Head_] = Tail_ /\ pv[Tail_] = Head_
  BY <1>2, <1>3, <1>4
<1> QED
  BY <1>1, <1>2, <1>3, <1>4, <1>5

\* An element put in front, or behind, is inserted at that end.
LEMMA InsertedAtEnds ==
    ASSUME NEW S, NEW s \in Seq(S), NEW c \in S
    PROVE  IsInserted(<<c>> \o s, s, 1, c) /\ IsInserted(Append(s, c), s, Len(s) + 1, c)
<1>1. Len(s) \in Nat
  BY LenProperties
<1>2. SubSeq(s, 1, 0) = <<>> /\ SubSeq(s, 1, Len(s)) = s
  BY <1>1, SubSeqProperties, SMT
<1>3. SubSeq(s, Len(s) + 1, Len(s)) = <<>>
  BY <1>1
<1>4. 1 - 1 = 0 /\ Len(s) + 1 - 1 = Len(s)
  BY <1>1
<1>5. PICK u : u = <<c>>
  OBVIOUS
<1>6. u \in Seq(S)
  BY <1>5
<1>7. <<>> \o u = u /\ (s \o u) \o <<>> = s \o u
  BY <1>6, ConcatEmptySeq, ConcatProperties
<1>8. Append(s, c) = s \o u
  BY <1>5, AppendIsConcat
<1>9. IsInserted(u \o s, s, 1, c)
  BY <1>2, <1>4, <1>5, <1>7 DEF IsInserted
<1>10. IsInserted(s \o u, s, Len(s) + 1, c)
  BY <1>2, <1>3, <1>4, <1>5, <1>7 DEF IsInserted
<1> QED
  BY <1>5, <1>8, <1>9, <1>10

\* Without its first, or its last, element.
LEMMA RemovedAtEnds ==
    ASSUME NEW S, NEW s \in Seq(S), Len(s) # 0
    PROVE  IsRemoved(Tail(s), s, 1) /\ IsRemoved(Front(s), s, Len(s))
<1>1. Len(s) \in Nat /\ Len(s) \in 1..Len(s) /\ 1 \in 1..Len(s)
  BY LenProperties
<1>2. SubSeq(s, 1, 0) = <<>> /\ SubSeq(s, Len(s) + 1, Len(s)) = <<>>
  BY <1>1
<1>3. Tail(s) = SubSeq(s, 2, Len(s))
  <2>1. Tail(s) \in Seq(S) /\ Len(Tail(s)) = Len(s) - 1 /\ \A i \in 1..(Len(s) - 1) : Tail(s)[i] = s[i + 1]
    BY <1>1
  <2>2. /\ SubSeq(s, 2, Len(s)) \in Seq(S) /\ Len(SubSeq(s, 2, Len(s))) = Len(s) - 1
        /\ \A i \in 1..(Len(s) - 1) : SubSeq(s, 2, Len(s))[i] = s[i + 1]
    <3>1. CASE Len(s) = 1
      <4>1. SubSeq(s, 2, Len(s)) = <<>>
        BY <3>1
      <4> QED  BY <4>1, <3>1
    <3>2. CASE Len(s) # 1
      <4>1. 2 \in 1..Len(s) /\ Len(s) - 2 + 1 = Len(s) - 1
        <5>1. PICK n \in Nat : n = Len(s) /\ n # 0 /\ n # 1
          BY <1>1, <3>2
        <5>2. 2 \in 1..n /\ n - 2 + 1 = n - 1
          BY <5>1
        <5> QED  BY <5>1, <5>2
      <4>2. PICK r : r = SubSeq(s, 2, Len(s))
        OBVIOUS
      <4>3. r \in Seq(S) /\ Len(r) = Len(s) - 1
        BY <4>1, <4>2, <1>1, SubSeqProperties
      <4>4. \A i \in 1..(Len(s) - 1) : r[i] = s[i + 1]
        BY <4>1, <4>2, <1>1, SubSeqProperties
      <4> QED  BY <4>2, <4>3, <4>4
    <3> QED  BY <3>1, <3>2
  <2> QED  BY <2>1, <2>2, SeqEqual
<1>4. SubSeq(s, 2, Len(s)) \in Seq(S) /\ SubSeq(s, 1, Len(s) - 1) \in Seq(S)
  BY <1>1
<1>5. IsRemoved(Tail(s), s, 1)
  BY <1>2, <1>3, <1>4, ConcatEmptySeq DEF IsRemoved
<1>6. Front(s) = SubSeq(s, 1, Len(s) - 1)
  BY DEF Front
<1>7. IsRemoved(Front(s), s, Len(s))
  BY <1>2, <1>4, <1>6, ConcatEmptySeq DEF IsRemoved
<1> QED
  BY <1>5, <1>7

LEMMA KeptByPushFront ==
    ASSUME ListInv, NEW c \in Cell, PushFront(c) PROVE ListInv'
<1>1. Fresh(c) /\ links' = InsertAfter(links, Head_, c) /\ items' = <<c>> \o items
  BY DEF PushFront
<1>2. Len(items) \in Nat /\ items \in Seq(Cell) /\ NodeAt(items, 0) = Head_
  BY EndsOf
<1>3. IsInserted(items', items, 0 + 1, c) /\ 0 \in 0..Len(items)
  BY <1>1, <1>2, InsertedAtEnds
<1> QED
  BY <1>1, <1>2, <1>3, LinkedIn

\* push_back links as insertAfter does behind the last node.
LEMMA KeptByPushBack ==
    ASSUME ListInv, NEW c \in Cell, PushBack(c) PROVE ListInv'
<1>1. Fresh(c) /\ links' = PushBackLinks(links, c) /\ items' = Append(items, c)
  BY DEF PushBack
<1>2. PICK nx, pv, s, n : nx = links.next /\ pv = links.prev /\ s = items /\ n = Len(items)
  OBVIOUS
<1>3. /\ n \in Nat /\ s \in Seq(Cell) /\ n \in 0..Len(items)
      /\ pv[Tail_] = NodeAt(s, n) /\ NodeAt(s, n + 1) = Tail_
  BY <1>2, EndsOf
<1>4. nx[NodeAt(s, n)] = NodeAt(s, n + 1)
  BY <1>2, <1>3, InvParts
<1>5. PICK at : at = NodeAt(items, n)
  OBVIOUS
<1>6. pv[Tail_] = at /\ nx[at] = Tail_
  BY <1>2, <1>3, <1>4, <1>5
<1>7. links' = [next |-> [nx EXCEPT ![c] = Tail_, ![at] = c], prev |-> [pv EXCEPT ![c] = at, ![Tail_] = c]]
  BY <1>1, <1>2, <1>6, Zenon DEF PushBackLinks
<1>8. links' = InsertAfter(links, at, c)
  BY <1>2, <1>6, <1>7, Zenon DEF InsertAfter
<1>9. IsInserted(items', items, n + 1, c)
  BY <1>1, <1>2, <1>3, InsertedAtEnds
<1> QED
  BY <1>1, <1>3, <1>5, <1>8, <1>9, LinkedIn

LEMMA KeptByPopFront ==
    ASSUME ListInv, PopFront PROVE ListInv'
<1>1. PICK nx, pv, s, a, b : nx = links.next /\ pv = links.prev /\ s = items
                             /\ a = NodeAt(items, 1 - 1) /\ b = NodeAt(items, 1 + 1)
  OBVIOUS
<1>2. nx[Head_] # Tail_ /\ links' = PopFrontLinks(links) /\ DeleteCells({nx[Head_]}) /\ items' = Tail(s)
  BY <1>1 DEF PopFront
<1>3. Len(s) \in Nat /\ s \in Seq(Cell) /\ nx[Head_] = NodeAt(s, 1) /\ Len(s) # 0 /\ NodeAt(s, 0) = Head_
  BY <1>1, <1>2, EndsOf
<1>4. 1 \in 1..Len(s) /\ 1 - 1 = 0 /\ a = Head_
  BY <1>1, <1>3
<1>5. nx[NodeAt(s, 1)] = NodeAt(s, 1 + 1) /\ NodeAt(s, 1) = s[1]
  BY <1>1, <1>4, InvParts
<1>6. nx[nx[Head_]] = b
  BY <1>1, <1>3, <1>5
<1>7. links' = [next |-> [nx EXCEPT ![a] = b], prev |-> [pv EXCEPT ![b] = a]]
  BY <1>1, <1>2, <1>4, <1>6, Zenon DEF PopFrontLinks
<1>8. DeleteCells({items[1]})
  BY <1>1, <1>2, <1>3, <1>5
<1>9. IsRemoved(items', items, 1)
  BY <1>1, <1>2, <1>3, RemovedAtEnds
<1> QED
  BY <1>1, <1>4, <1>7, <1>8, <1>9, LinkedOut

LEMMA KeptByPopBack ==
    ASSUME ListInv, PopBack PROVE ListInv'
<1>1. PICK nx, pv, s, n : nx = links.next /\ pv = links.prev /\ s = items /\ n = Len(items)
  OBVIOUS
<1>2. pv[Tail_] # Head_ /\ links' = PopBackLinks(links) /\ DeleteCells({pv[Tail_]}) /\ items' = Front(s)
  BY <1>1 DEF PopBack
<1>3. n \in Nat /\ s \in Seq(Cell) /\ pv[Tail_] = NodeAt(s, n) /\ n # 0 /\ NodeAt(s, n + 1) = Tail_
  BY <1>1, <1>2, EndsOf
<1>4. n \in 1..Len(s) /\ n - 1 \in 0..Len(s) /\ n - 1 + 1 = n
  BY <1>1, <1>3
<1>5. PICK a, b : a = NodeAt(items, n - 1) /\ b = NodeAt(items, n + 1)
  OBVIOUS
<1>6. pv[NodeAt(s, n - 1 + 1)] = NodeAt(s, n - 1) /\ NodeAt(s, n) = s[n]
  BY <1>1, <1>4, InvParts
<1>7. b = Tail_ /\ pv[pv[Tail_]] = a
  BY <1>1, <1>3, <1>4, <1>5, <1>6
<1>8. links' = [next |-> [nx EXCEPT ![a] = b], prev |-> [pv EXCEPT ![b] = a]]
  BY <1>1, <1>2, <1>7, Zenon DEF PopBackLinks
<1>9. DeleteCells({items[n]})
  BY <1>1, <1>2, <1>3, <1>6
<1>10. IsRemoved(items', items, n)
  BY <1>1, <1>2, <1>3, RemovedAtEnds
<1>11. n \in 1..Len(items)
  BY <1>1, <1>4
<1> QED
  BY <1>1, <1>5, <1>8, <1>9, <1>10, <1>11, LinkedOut

LEMMA KeptByClear ==
    ASSUME ListInv, Clear PROVE ListInv'
<1>1. PICK nx, pv : nx = [links.next EXCEPT ![Head_] = Tail_] /\ pv = [links.prev EXCEPT ![Tail_] = Head_]
  OBVIOUS
<1>2. links' = [next |-> nx, prev |-> pv] /\ items' = <<>> /\ live' = {} /\ broken' = FALSE
  BY <1>1 DEF Clear, DeleteCells, ListInv
<1>3. PICK mx, my : mx = links.next /\ my = links.prev
  OBVIOUS
<1>4. mx \in Ptrs /\ my \in Ptrs /\ mx[Tail_] = NULL /\ my[Head_] = NULL
  BY <1>3, InvParts
<1>5. /\ nx \in Ptrs /\ pv \in Ptrs /\ nx[Head_] = Tail_ /\ pv[Tail_] = Head_
      /\ nx[Tail_] = NULL /\ pv[Head_] = NULL
  BY <1>1, <1>3, <1>4, PlacesDiffer DEF Ptrs
<1>6. PICK s : s = <<>>
  OBVIOUS
<1>7. s \in Seq(Cell) /\ Len(s) = 0
  BY <1>6
<1>8. \A k \in 0..Len(s) : k = 0 /\ NodeAt(s, k) = Head_ /\ NodeAt(s, k + 1) = Tail_
  BY <1>7 DEF NodeAt
<1>9. IsChain(nx, pv, s)
  BY <1>5, <1>7, <1>8 DEF IsChain
<1>10. NodesOf(s) = {}
  BY <1>6, NodesOfEmpty
<1> QED
  BY <1>2, <1>5, <1>6, <1>9, <1>10, StepsToChain

\* Where an iterator is that has been advanced i times.
LEMMA IteratorAt ==
    ASSUME ListInv, NEW i \in 0..Cardinality(Place), NEW at, at = Steps(links.next, Head_)[i], at \in Place
    PROVE  /\ Len(items) \in Nat /\ i <= Len(items) + 1 /\ at = NodeAt(items, i)
           /\ at = Tail_ <=> i = Len(items) + 1
           /\ at = Head_ <=> i = 0
<1>1. PICK nx, s : nx = links.next /\ s = items
  OBVIOUS
<1>2. /\ IsChain(nx, links.prev, s) /\ Len(s) \in Nat
      /\ NodeAt(s, 0) = Head_ /\ NodeAt(s, Len(s) + 1) = Tail_
      /\ \A j, k \in 0..(Len(s) + 1) : NodeAt(s, j) = NodeAt(s, k) => j = k
  BY <1>1, InvParts
<1>3. at = IF i <= Len(s) + 1 THEN NodeAt(s, i) ELSE NULL
  BY <1>1, <1>2, ChainWalked
<1>4. i <= Len(s) + 1
  BY <1>3, PlacesDiffer
<1>5. at = NodeAt(s, i) /\ i \in 0..(Len(s) + 1) /\ 0 \in 0..(Len(s) + 1) /\ Len(s) + 1 \in 0..(Len(s) + 1)
  BY <1>2, <1>3, <1>4
<1> QED
  BY <1>1, <1>2, <1>4, <1>5

LEMMA KeptByInsertion ==
    ASSUME ListInv, NEW i \in 0..Cardinality(Place), NEW c \in Cell, IteratorInserts(i, c) PROVE ListInv'
<1>1. PICK at : at = Steps(links.next, Head_)[i]
  OBVIOUS
<1>2. at \in Place /\ Fresh(c)
  BY <1>1 DEF IteratorInserts
<1>3. /\ Len(items) \in Nat /\ i \in Nat /\ i <= Len(items) + 1 /\ at = NodeAt(items, i)
      /\ at = Tail_ <=> i = Len(items) + 1
      /\ at = Head_ <=> i = 0
  BY <1>1, <1>2, IteratorAt
<1>4. CASE at # Tail_ /\ links' = InsertAfter(links, at, c) /\ items' = InsertAt(items, i + 1, c)
  <2>1. i \in 0..Len(items)
    BY <1>3, <1>4
  <2>2. IsInserted(items', items, i + 1, c)
    BY <1>4, Zenon DEF IsInserted, InsertAt
  <2> QED  BY <1>2, <1>3, <1>4, <2>1, <2>2, LinkedIn
<1>5. CASE at # Head_ /\ links' = InsertBefore(links, at, c) /\ items' = InsertAt(items, i, c)
  <2>1. PICK k \in 0..Len(items) : k = i - 1 /\ k + 1 = i
    BY <1>3, <1>5
  <2>2. PICK pv, a : pv = links.prev /\ a = NodeAt(items, k)
    OBVIOUS
  <2>3. pv[NodeAt(items, k + 1)] = NodeAt(items, k)
    BY <2>2, InvParts
  <2>4. pv[at] = a
    BY <1>3, <2>1, <2>2, <2>3
  <2>5. links' = InsertAfter(links, a, c)
    BY <1>5, <2>2, <2>4, Zenon DEF InsertBefore
  <2>6. IsInserted(items', items, i, c)
    BY <1>5, Zenon DEF IsInserted, InsertAt
  <2>7. IsInserted(items', items, k + 1, c)
    BY <2>1, <2>6
  <2> QED  BY <1>2, <2>2, <2>5, <2>7, LinkedIn
<1> QED
  BY <1>1, <1>4, <1>5 DEF IteratorInserts

LEMMA KeptByErasure ==
    ASSUME ListInv, NEW i \in 0..Cardinality(Place), IteratorErases(i) PROVE ListInv'
<1>1. PICK at : at = Steps(links.next, Head_)[i]
  OBVIOUS
<1>2. /\ i > 0 /\ at \in Place /\ links' = EraseLinks(links, at) /\ DeleteCells({at})
      /\ items' = IF at = Tail_ THEN items ELSE RemoveAt(items, i)
  BY <1>1 DEF IteratorErases
<1>3. /\ Len(items) \in Nat /\ i \in Nat /\ i <= Len(items) + 1 /\ at = NodeAt(items, i)
      /\ at = Tail_ <=> i = Len(items) + 1
  BY <1>1, <1>2, IteratorAt
<1>4. PICK nx, pv, s : nx = links.next /\ pv = links.prev /\ s = items
  OBVIOUS
<1>. IsChain(nx, pv, s) /\ s \in Seq(Cell) /\ nx[Tail_] = NULL /\ live = NodesOf(s) /\ live \subseteq Cell
  BY <1>4, InvParts
<1>5. /\ \A k \in 0..Len(s) : nx[NodeAt(s, k)] = NodeAt(s, k + 1) /\ pv[NodeAt(s, k + 1)] = NodeAt(s, k)
      /\ \A k \in 0..(Len(s) + 1) : NodeAt(s, k) \in Place
  BY <1>4, InvParts
<1>6. CASE at = Tail_
  <2>1. nx[at] = NULL
    BY <1>5, <1>6
  <2>2. links' = links
    BY <1>2, <1>4, <2>1, Zenon DEF EraseLinks
  <2>3. live' = live /\ broken' = broken
    BY <1>2, <1>5, <1>6, PlacesDiffer DEF DeleteCells
  <2>4. items' = items
    BY <1>2, <1>6
  <2> QED  BY <2>2, <2>3, <2>4 DEF ListInv
<1>7. CASE at # Tail_
  <2>1. i \in 1..Len(items)
    BY <1>2, <1>3, <1>7
  <2>2. PICK a, b : a = NodeAt(items, i - 1) /\ b = NodeAt(items, i + 1)
    OBVIOUS
  <2>3. i - 1 \in 0..Len(s) /\ i \in 0..Len(s) /\ i - 1 + 1 = i /\ i - 1 \in 0..(Len(s) + 1) /\ i + 1 \in 0..(Len(s) + 1)
    BY <2>1, <1>3, <1>4
  <2>4. pv[NodeAt(s, i - 1 + 1)] = NodeAt(s, i - 1) /\ nx[NodeAt(s, i)] = NodeAt(s, i + 1)
    BY <2>3, <1>5
  <2>5. pv[at] = a /\ nx[at] = b
    BY <1>3, <1>4, <2>2, <2>3, <2>4
  <2>6. a # NULL /\ b # NULL
    BY <1>4, <1>5, <2>2, <2>3, PlacesDiffer
  <2>7. links' = [next |-> [links.next EXCEPT ![a] = b], prev |-> [links.prev EXCEPT ![b] = a]]
    BY <1>2, <1>4, <2>5, <2>6, Zenon DEF EraseLinks
  <2>8. NodeAt(s, i) = s[i]
    BY <1>4, <2>1, InvParts
  <2>9. DeleteCells({items[i]})
    BY <1>2, <1>3, <1>4, <2>8
  <2>10. IsRemoved(items', items, i)
    BY <1>2, <1>7, Zenon DEF IsRemoved, RemoveAt
  <2> QED  BY <2>1, <2>2, <2>7, <2>9, <2>10, LinkedOut
<1> QED
  BY <1>6, <1>7

\* The nodes of a list without those in M.
LEMMA NodesErased ==
    ASSUME NEW s \in Seq(Cell), NEW M
    PROVE  NodesOf(Erase(s, M)) = NodesOf(s) \ M
<1>1. PICK t, K : K = Survivors(s, M) /\ t = KeepPlaces(s, K)
  OBVIOUS
<1>2. K = {i \in 1..Len(s) : s[i] \notin M}
  BY <1>1 DEF Survivors
<1>3. K \in SUBSET (1..Len(s))
  BY <1>2
<1>4. /\ t \in Seq(Cell) /\ \A j \in 1..Len(t) : \E i \in K : t[j] = s[i]
      /\ \A i \in K : \E j \in 1..Len(t) : t[j] = s[i]
  BY <1>1, <1>3, KeptElements
<1>5. ASSUME NEW x PROVE x \in NodesOf(t) <=> (x \in NodesOf(s) /\ x \notin M)
  <2>1. ASSUME x \in NodesOf(t) PROVE x \in NodesOf(s) /\ x \notin M
    <3>1. PICK j \in 1..Len(t) : x = t[j]
      BY <2>1 DEF NodesOf
    <3>2. PICK i \in K : t[j] = s[i]
      BY <3>1, <1>4
    <3> QED  BY <3>1, <3>2, <1>2 DEF NodesOf
  <2>2. ASSUME x \in NodesOf(s), x \notin M PROVE x \in NodesOf(t)
    <3>1. PICK i \in 1..Len(s) : x = s[i]
      BY <2>2 DEF NodesOf
    <3>2. i \in K
      BY <3>1, <2>2, <1>2
    <3>3. PICK j \in 1..Len(t) : t[j] = s[i]
      BY <3>2, <1>4
    <3> QED  BY <3>1, <3>3 DEF NodesOf
  <2> QED  BY <2>1, <2>2
<1>6. NodesOf(t) = NodesOf(s) \ M
  BY <1>5
<1> QED
  BY <1>1, <1>6, Zenon DEF Erase

LEMMA KeptByLoop ==
    ASSUME ListInv, NEW M, EraseWhere(M) PROVE ListInv'
<1>1. PICK s, l, n : s = items /\ l = links /\ n = Cardinality(live)
  OBVIOUS
<1>2. PICK after : after = EraseRounds(l, n, M)
  OBVIOUS
<1>3. /\ links' = after.l /\ broken' = (broken \/ after.at # Tail_)
      /\ live' = live \ M /\ items' = Erase(s, M)
  BY <1>1, <1>2 DEF EraseWhere
<1>4. l \in LinkSet /\ IsChain(l.next, l.prev, s) /\ broken = FALSE /\ live = NodesOf(s)
  BY <1>1 DEF ListInv
<1>5. s \in Seq(Cell) /\ \A i, j \in 1..Len(s) : s[i] = s[j] => i = j
  BY <1>4 DEF IsChain
<1>6. n = Len(s)
  <2>1. Cardinality({s[i] : i \in 1..Len(s)}) = Len(s)
    BY <1>5, NodesCounted
  <2> QED  BY <2>1, <1>1, <1>4 DEF NodesOf
<1>7. PICK t : t = Erase(s, M)
  OBVIOUS
<1>8. after.l \in LinkSet /\ after.at = Tail_ /\ IsChain(after.l.next, after.l.prev, t)
  BY <1>2, <1>4, <1>6, <1>7, LoopErases
<1>9. NodesOf(t) = NodesOf(s) \ M
  BY <1>5, <1>7, NodesErased
<1>10. live' = NodesOf(t) /\ broken' = FALSE /\ items' = t /\ links' = after.l
  BY <1>3, <1>4, <1>7, <1>8, <1>9
<1> QED
  BY <1>8, <1>10 DEF ListInv

LEMMA ListKept ==
    ListInv /\ [ListNext]_listVars => ListInv'
<1> SUFFICES ASSUME ListInv, [ListNext]_listVars PROVE ListInv'
  OBVIOUS
<1>1. CASE \E c \in Cell : PushFront(c) \/ PushBack(c)
  BY <1>1, KeptByPushFront, KeptByPushBack
<1>2. CASE PopFront \/ PopBack \/ Clear
  BY <1>2, KeptByPopFront, KeptByPopBack, KeptByClear
<1>3. CASE \E i \in 0..Cardinality(Place) : IteratorErases(i) \/ \E c \in Cell : IteratorInserts(i, c)
  BY <1>3, KeptByErasure, KeptByInsertion
<1>4. CASE \E M \in SUBSET live : EraseWhere(M)
  BY <1>4, KeptByLoop
<1>5. CASE UNCHANGED listVars
  BY <1>5 DEF listVars, ListInv
<1> QED
  BY <1>1, <1>2, <1>3, <1>4, <1>5 DEF ListNext

LEMMA InvGivesAgreement ==
    ListInv => ChainsAgree
<1> SUFFICES ASSUME ListInv PROVE ChainsAgree
  OBVIOUS
<1>1. PICK nx, pv, s : nx = links.next /\ pv = links.prev /\ s = items
  OBVIOUS
<1>2. IsChain(nx, pv, s) /\ s \in Seq(Cell) /\ live = NodesOf(s)
  BY <1>1, InvParts
<1>3. WalkFrom(nx, Head_, Tail_) = s /\ WalkFrom(pv, Tail_, Head_) = Reverse(s)
  BY <1>2, ChainWalked
<1>4. DOMAIN s = 1..Len(s)
  BY <1>2
<1>5. ToSet(s) = live
  BY <1>2, <1>4, Zenon DEF ToSet, NodesOf
<1>6. ~ broken
  BY DEF ListInv
<1> QED
  BY <1>1, <1>3, <1>5, <1>6 DEF ChainsAgree

\* The pointers of a list agree with each other and with the calls made so
\* far: walking forward finds the contents, walking backward finds them
\* reversed, exactly those nodes are allocated, and no loop that erases while
\* it walks follows a NULL pointer.  For any cells and any sequence of calls.
THEOREM ChainsAlwaysAgree == ListSpec => []ChainsAgree
<1>1. ListInit => ListInv
  BY ListStarts
<1>2. ListInv /\ [ListNext]_listVars => ListInv'
  BY ListKept
<1>3. ListInv => ChainsAgree
  BY InvGivesAgreement
<1> QED
  BY <1>1, <1>2, <1>3, PTL DEF ListSpec

\* Lists and vectors hold what the calls put there, both of them and always:
\* for any cells, values, default allocation and sequence of calls.
THEOREM ContainersAlwaysAgree == ListSpec /\ VectorSpec => []ContainersAgree
<1>1. ChainsAgree /\ SlotsAgree => ContainersAgree
  BY DEF ContainersAgree
<1> QED
  BY <1>1, ChainsAlwaysAgree, SlotsAlwaysAgree, PTL

-----------------------------------------------------------------------------
(* The debug heap *)

\* Sums over sets.  MapThenSumSet takes the elements in the order CHOOSE does.
SumOver(f, S) == MapThenSumSet(LAMBDA b : f[b], S)

Chosen(s) == CHOOSE x \in s : TRUE

IsSum(g, f, S) ==
    g = [s \in SUBSET S |-> IF s = {} THEN 0 ELSE f[Chosen(s)] + g[s \ {Chosen(s)}]]

LEMMA SumChosen ==
    ASSUME NEW f, NEW S
    PROVE  SumOver(f, S) = (CHOOSE g : IsSum(g, f, S))[S]
  BY Zenon DEF SumOver, MapThenSumSet, MapThenFoldSet, IsSum, Chosen

\* One element fewer.
LEMMA ChosenLeaves ==
    ASSUME NEW U, IsFiniteSet(U), NEW s \in SUBSET U, s # {}
    PROVE  /\ Chosen(s) \in s /\ s \ {Chosen(s)} \in SUBSET U
           /\ Cardinality(s) \in Nat /\ Cardinality(s \ {Chosen(s)}) = Cardinality(s) - 1
<1>1. PICK c : c = Chosen(s)
  OBVIOUS
<1>2. c \in s
  BY <1>1 DEF Chosen
<1>3. IsFiniteSet(s)
  BY FS_Subset
<1>4. Cardinality(s) \in Nat /\ Cardinality(s \ {c}) = Cardinality(s) - 1
  BY <1>2, <1>3, FS_CardinalityType, FS_RemoveElement
<1> QED
  BY <1>1, <1>2, <1>4

SumStep(F, f, S) == [s \in SUBSET S |-> IF s = {} THEN 0 ELSE f[Chosen(s)] + F[s \ {Chosen(s)}]]

LEMMA SumStepType ==
    ASSUME NEW S, IsFiniteSet(S), NEW f, \A b \in S : f[b] \in Int, NEW F \in [SUBSET S -> Int]
    PROVE  SumStep(F, f, S) \in [SUBSET S -> Int]
<1>1. ASSUME NEW s \in SUBSET S
      PROVE  (IF s = {} THEN 0 ELSE f[Chosen(s)] + F[s \ {Chosen(s)}]) \in Int
  <2>1. CASE s = {}
    BY <2>1
  <2>2. CASE s # {}
    <3>1. PICK c \in S, r \in SUBSET S : c = Chosen(s) /\ r = s \ {Chosen(s)}
      BY <2>2, ChosenLeaves
    <3>2. f[c] \in Int /\ F[r] \in Int
      OBVIOUS
    <3> QED  BY <2>2, <3>1, <3>2
  <2> QED  BY <2>1, <2>2
<1> QED
  BY <1>1 DEF SumStep

\* The recursion that defines the sum has a solution: iterated often enough,
\* one step of it changes nothing.
LEMMA SumExists ==
    ASSUME NEW S, IsFiniteSet(S), NEW f, \A b \in S : f[b] \in Int
    PROVE  \E g \in [SUBSET S -> Int] : IsSum(g, f, S)
<1>1. PICK N \in Nat : N = Cardinality(S)
  BY FS_CardinalityType
<1>2. PICK V : V = [SUBSET S -> Int]
  OBVIOUS
<1>3. PICK a : a \in V /\ a = [s \in SUBSET S |-> 0]
  <2>1. [s \in SUBSET S |-> 0] \in [SUBSET S -> Int]
    OBVIOUS
  <2> QED  BY <2>1, <1>2
<1>4. \A F \in V : SumStep(F, f, S) \in V
  BY <1>2, SumStepType
<1>5. PICK M \in Nat : M = N + 1
  OBVIOUS
<1>14. PICK step \in [V \X (1..M) -> V] : \A p \in V \X (1..M) : step[p] = SumStep(p[1], f, S)
  <2>1. [p \in V \X (1..M) |-> SumStep(p[1], f, S)] \in [V \X (1..M) -> V]
    BY <1>4
  <2> QED  BY <2>1
<1>6. PICK h : h \in [0..M -> V] /\ h[0] = a /\ \A k \in 1..M : h[k] = step[<<h[k - 1], k>>]
  <2>1. a \in V
    BY <1>3
  <2>2. \E h : IsIteration(h, V, M, a, step)
    BY <2>1, IterationExists
  <2> QED  BY <2>2 DEF IsIteration
<1>7. ASSUME NEW k \in 0..N PROVE h[k] \in V /\ h[k + 1] \in V /\ h[k + 1] = SumStep(h[k], f, S)
  <2>1. k \in 0..M /\ k + 1 \in 1..M /\ (k + 1) - 1 = k /\ k + 1 \in 0..M
    BY <1>5
  <2>2. h[k + 1] = step[<<h[k], k + 1>>]
    BY <2>1, <1>6
  <2>3. <<h[k], k + 1>> \in V \X (1..M)
    BY <2>1, <1>6
  <2> QED  BY <2>1, <2>2, <2>3, <1>6, <1>14
<1> DEFINE Settled(k) == \A s \in SUBSET S : Cardinality(s) <= k => h[k + 1][s] = h[k][s]
           T == {k \in 0..N : ~Settled(k)}
<1>8. T = {}
  <2> SUFFICES ASSUME T # {} PROVE FALSE
    OBVIOUS
  <2>1. T \in SUBSET Nat
    OBVIOUS
  <2>2. PICK k \in T : \A y \in T : k <= y
    <3> HIDE DEF T
    <3> QED  BY <2>1, LeastNumber
  <2>3. k \in 0..N /\ ~Settled(k)
    OBVIOUS
  <2>4. PICK s \in SUBSET S : Cardinality(s) <= k /\ h[k + 1][s] # h[k][s]
    BY <2>3
  <2>5. h[k + 1][s] = IF s = {} THEN 0 ELSE f[Chosen(s)] + h[k][s \ {Chosen(s)}]
    BY <2>3, <1>7 DEF SumStep
  <2>6. CASE k = 0
    <3>1. s = {}
      <4>1. IsFiniteSet(s) /\ Cardinality(s) \in Nat
        BY FS_Subset, FS_CardinalityType
      <4>2. Cardinality(s) = 0
        BY <4>1, <2>4, <2>6
      <4> QED  BY <4>1, <4>2, FS_EmptySet
    <3> QED  BY <3>1, <2>4, <2>5, <2>6, <1>3, <1>6
  <2>7. CASE k # 0
    <3>1. PICK j \in 0..N : j = k - 1 /\ k = j + 1
      BY <2>3, <2>7
    <3>2. h[k][s] = IF s = {} THEN 0 ELSE f[Chosen(s)] + h[j][s \ {Chosen(s)}]
      <4>1. h[j + 1] = SumStep(h[j], f, S)
        BY <1>7
      <4> QED  BY <4>1, <3>1 DEF SumStep
    <3>3. CASE s # {}
      <4>1. PICK r \in SUBSET S : r = s \ {Chosen(s)} /\ Cardinality(r) <= j
        <5>1. PICK r : r = s \ {Chosen(s)}
          OBVIOUS
        <5>2. r \in SUBSET S /\ Cardinality(s) \in Nat /\ Cardinality(r) = Cardinality(s) - 1
          BY <5>1, <3>3, ChosenLeaves
        <5>3. Cardinality(r) <= j
          BY <5>2, <3>1, <2>4
        <5> QED  BY <5>1, <5>2, <5>3
      <4>2. j \notin T
        BY <3>1, <2>2, <2>3
      <4>3. h[j + 1][r] = h[j][r]
        BY <4>1, <4>2
      <4> QED  BY <4>1, <4>3, <3>1, <3>2, <3>3, <2>4, <2>5
    <3> QED  BY <3>2, <3>3, <2>4, <2>5
  <2> QED  BY <2>6, <2>7
<1>9. \A s \in SUBSET S : Cardinality(s) <= N => h[N + 1][s] = h[N][s]
  <2>1. N \in 0..N /\ N \notin T
    BY <1>8
  <2>2. Settled(N)
    BY <2>1
  <2> QED  BY <2>2
<1>10. PICK g : g = h[N] /\ g \in [SUBSET S -> Int]
  <2>1. N \in 0..N
    OBVIOUS
  <2> QED  BY <2>1, <1>2, <1>7
<1>11. ASSUME NEW s \in SUBSET S PROVE g[s] = SumStep(g, f, S)[s]
  <2>1. Cardinality(s) <= N
    BY <1>1, FS_Subset
  <2>2. N \in 0..N
    OBVIOUS
  <2> QED  BY <2>1, <2>2, <1>7, <1>9, <1>10
<1>12. SumStep(g, f, S) \in [SUBSET S -> Int]
  BY <1>10, SumStepType
<1>13. g = SumStep(g, f, S)
  <2>1. PICK w \in [SUBSET S -> Int] : w = SumStep(g, f, S)
    BY <1>12
  <2> QED  BY <2>1, <1>10, <1>11
<1> QED
  BY <1>10, <1>13 DEF SumStep, IsSum

LEMMA SumValue ==
    ASSUME NEW g, NEW f, NEW S, IsSum(g, f, S), NEW s \in SUBSET S
    PROVE  g[s] = IF s = {} THEN 0 ELSE f[Chosen(s)] + g[s \ {Chosen(s)}]
  BY DEF IsSum

\* It has no other.
LEMMA SumUnique ==
    ASSUME NEW U, IsFiniteSet(U), NEW S \in SUBSET U, NEW f, NEW g, NEW h, IsSum(g, f, S), IsSum(h, f, U),
           NEW r \in SUBSET S
    PROVE  g[r] = h[r]
<1> DEFINE T == {k \in Nat : \E s \in SUBSET S : Cardinality(s) = k /\ g[s] # h[s]}
<1>1. T = {}
  <2> SUFFICES ASSUME T # {} PROVE FALSE
    OBVIOUS
  <2>1. T \in SUBSET Nat
    OBVIOUS
  <2>2. PICK k \in T : \A y \in T : k <= y
    <3> HIDE DEF T
    <3> QED  BY <2>1, LeastNumber
  <2>3. PICK s \in SUBSET S : Cardinality(s) = k /\ g[s] # h[s]
    OBVIOUS
  <2>4. /\ g[s] = IF s = {} THEN 0 ELSE f[Chosen(s)] + g[s \ {Chosen(s)}]
        /\ h[s] = IF s = {} THEN 0 ELSE f[Chosen(s)] + h[s \ {Chosen(s)}]
    <3>1. s \in SUBSET U
      OBVIOUS
    <3> QED  BY <3>1, SumValue
  <2>5. s # {}
    BY <2>3, <2>4
  <2>6. PICK q \in SUBSET S : q = s \ {Chosen(s)} /\ Cardinality(q) = k - 1 /\ k - 1 \in Nat
    <3>1. IsFiniteSet(S) /\ IsFiniteSet(s)
      BY FS_Subset
    <3>2. PICK q : q = s \ {Chosen(s)}
      OBVIOUS
    <3>3. q \in SUBSET S /\ Cardinality(q) = k - 1 /\ k \in Nat
      BY <3>1, <3>2, <2>3, <2>5, ChosenLeaves
    <3>4. IsFiniteSet(q)
      BY <3>1, <3>3, FS_Subset
    <3>5. k - 1 \in Nat
      BY <3>3, <3>4, FS_CardinalityType
    <3> QED  BY <3>2, <3>3, <3>5
  <2>7. k - 1 \notin T
    BY <2>2, <2>6
  <2>8. g[q] = h[q]
    BY <2>6, <2>7
  <2> QED  BY <2>3, <2>4, <2>5, <2>6, <2>8
<1>2. Cardinality(r) \in Nat
  BY FS_Subset, FS_CardinalityType
<1> QED
  BY <1>1, <1>2

\* Any element may be taken first.
IntegerSum(g, f, U) == (\A b \in U : f[b] \in Int) /\ g \in [SUBSET U -> Int] /\ IsSum(g, f, U)

LEMMA SumAnyFirst ==
    ASSUME NEW U, IsFiniteSet(U), NEW f, NEW g, IntegerSum(g, f, U), NEW r \in SUBSET U, NEW d \in r
    PROVE  g[r] = f[d] + g[r \ {d}]
<1>0. (\A b \in U : f[b] \in Int) /\ g \in [SUBSET U -> Int] /\ IsSum(g, f, U)
  BY DEF IntegerSum
<1> DEFINE T == {k \in Nat : \E s \in SUBSET U : Cardinality(s) = k /\ \E b \in s : g[s] # f[b] + g[s \ {b}]}
<1>1. T = {}
  <2> SUFFICES ASSUME T # {} PROVE FALSE
    OBVIOUS
  <2>1. T \in SUBSET Nat
    OBVIOUS
  <2>2. PICK k \in T : \A y \in T : k <= y
    <3> HIDE DEF T
    <3> QED  BY <2>1, LeastNumber
  <2>3. PICK s \in SUBSET U : Cardinality(s) = k /\ \E b \in s : g[s] # f[b] + g[s \ {b}]
    OBVIOUS
  <2>4. PICK b \in s : g[s] # f[b] + g[s \ {b}]
    BY <2>3
  <2>5. PICK c \in s : c = Chosen(s) /\ Cardinality(s) \in Nat
    BY ChosenLeaves
  <2>6. g[s] = f[c] + g[s \ {c}]
    BY <1>0, <2>5, SumValue
  <2>7. b # c
    BY <2>4, <2>6
  <2>8. PICK x \in SUBSET U, y \in SUBSET U, z \in SUBSET U :
            x = s \ {c} /\ y = s \ {b} /\ z = (s \ {c}) \ {b}
    OBVIOUS
  <2>9. b \in x /\ c \in y /\ x \ {b} = z /\ y \ {c} = z
    BY <2>7, <2>8
  <2>10. Cardinality(x) = k - 1 /\ Cardinality(y) = k - 1 /\ k - 1 \in Nat
    <3>1. IsFiniteSet(s) /\ IsFiniteSet(x)
      BY FS_Subset
    <3>2. Cardinality(x) = k - 1 /\ Cardinality(y) = k - 1
      BY <3>1, <2>3, <2>8, FS_RemoveElement
    <3> QED  BY <3>1, <3>2, FS_CardinalityType
  <2>11. k - 1 \notin T
    BY <2>2, <2>10
  <2>12. g[x] = f[b] + g[z] /\ g[y] = f[c] + g[z]
    <3>1. ASSUME NEW w \in SUBSET U, Cardinality(w) = k - 1, NEW e \in w PROVE g[w] = f[e] + g[w \ {e}]
      BY <3>1, <2>10, <2>11
    <3>2. g[x] = f[b] + g[x \ {b}] /\ g[y] = f[c] + g[y \ {c}]
      BY <3>1, <2>9, <2>10
    <3> QED  BY <3>2, <2>9
  <2>13. PICK i \in Int, j \in Int, m \in Int : i = f[b] /\ j = f[c] /\ m = g[z]
    BY <1>0
  <2>14. g[s] = j + (i + m) /\ g[s \ {b}] = j + m
    BY <2>6, <2>8, <2>12, <2>13
  <2> QED  BY <2>4, <2>13, <2>14
<1>2. Cardinality(r) \in Nat
  BY FS_Subset, FS_CardinalityType
<1> QED
  BY <1>1, <1>2

LEMMA SumIs ==
    ASSUME NEW U, IsFiniteSet(U), NEW f, \A b \in U : f[b] \in Int
    PROVE  \E g \in [SUBSET U -> Int] : IsSum(g, f, U) /\ \A S \in SUBSET U : SumOver(f, S) = g[S]
<1>1. PICK g \in [SUBSET U -> Int] : IsSum(g, f, U)
  BY SumExists
<1>2. ASSUME NEW S \in SUBSET U PROVE SumOver(f, S) = g[S]
  <2>1. IsFiniteSet(S) /\ \A b \in S : f[b] \in Int
    BY FS_Subset
  <2>2. \E h : IsSum(h, f, S)
    BY <2>1, SumExists
  <2>3. PICK h : h = (CHOOSE x : IsSum(x, f, S))
    OBVIOUS
  <2>4. IsSum(h, f, S)
    BY <2>2, <2>3, Zenon
  <2>5. h[S] = g[S]
    <3>1. ASSUME NEW r \in SUBSET S PROVE h[r] = g[r]
      BY <2>4, <1>1, SumUnique
    <3> QED  BY <3>1
  <2> QED  BY <2>3, <2>5, SumChosen, Zenon
<1> QED
  BY <1>1, <1>2

\* The sum over a set with an element more, or one less.
LEMMA SumWith ==
    ASSUME NEW U, IsFiniteSet(U), NEW f, \A b \in U : f[b] \in Int, NEW S \in SUBSET U, NEW b \in U, b \notin S
    PROVE  SumOver(f, S) \in Int /\ SumOver(f, S \cup {b}) = SumOver(f, S) + f[b]
<1>1. PICK g \in [SUBSET U -> Int] : IsSum(g, f, U) /\ \A s \in SUBSET U : SumOver(f, s) = g[s]
  BY SumIs
<1>2. PICK r : r = S \cup {b}
  OBVIOUS
<1>5. r \in SUBSET U /\ b \in r /\ r \ {b} = S
  BY <1>2
<1>3. g[r] = f[b] + g[r \ {b}]
  <2>0. IntegerSum(g, f, U)
    BY <1>1 DEF IntegerSum
  <2>1. ASSUME NEW q \in SUBSET U, NEW d \in q PROVE g[q] = f[d] + g[q \ {d}]
    BY <2>0, SumAnyFirst
  <2> QED  BY <2>1, <1>5
<1>4. f[b] \in Int /\ g[S] \in Int
  OBVIOUS
<1>6. SumOver(f, S) = g[S] /\ SumOver(f, r) = g[r]
  BY <1>1, <1>5
<1>7. g[r] = f[b] + g[S]
  BY <1>3, <1>5
<1>8. PICK i \in Int, j \in Int : i = f[b] /\ j = g[S]
  BY <1>4
<1> QED
  BY <1>2, <1>6, <1>7, <1>8

LEMMA SumWithout ==
    ASSUME NEW U, IsFiniteSet(U), NEW f, \A b \in U : f[b] \in Int, NEW S \in SUBSET U, NEW b \in S
    PROVE  SumOver(f, S) \in Int /\ SumOver(f, S \ {b}) = SumOver(f, S) - f[b]
<1>1. PICK r : r = S \ {b}
  OBVIOUS
<1>2. r \in SUBSET U /\ b \in U /\ b \notin r /\ r \cup {b} = S
  BY <1>1
<1>3. SumOver(f, r) \in Int /\ SumOver(f, r \cup {b}) = SumOver(f, r) + f[b]
  BY <1>2, SumWith
<1>4. PICK i \in Int, j \in Int : i = f[b] /\ j = SumOver(f, r)
  BY <1>2, <1>3
<1>5. SumOver(f, S) = j + i
  BY <1>2, <1>3, <1>4
<1> QED
  BY <1>1, <1>4, <1>5

LEMMA SumOfNone ==
    ASSUME NEW f PROVE SumOver(f, {}) = 0
<1>1. \E g : IsSum(g, f, {})
  BY FS_EmptySet, SumExists
<1>2. PICK g : g = (CHOOSE x : IsSum(x, f, {}))
  OBVIOUS
<1>3. IsSum(g, f, {})
  BY <1>1, <1>2, Zenon
<1>4. g[{}] = 0
  BY <1>3, SumValue
<1> QED
  BY <1>2, <1>4, SumChosen, Zenon

-----------------------------------------------------------------------------
\* The intrusive list.

Pointers == [Links -> Links \cup {"null"}]

\* From First to Final the nodes f[1], ..., f[n] are linked both ways; they are
\* the elements of S, each once.
IsLinked(nx, pv, n, f, S) ==
    /\ n \in Nat /\ f \in [0..(n + 1) -> Links]
    /\ f[0] = HeadNode /\ f[n + 1] = TailNode
    /\ \A i, j \in 0..(n + 1) : f[i] = f[j] => i = j
    /\ \A k \in 1..n : f[k] \in S
    /\ \A b \in S : \E k \in 1..n : f[k] = b
    /\ \A k \in 0..n : nx[f[k]] = f[k + 1] /\ pv[f[k + 1]] = f[k]

LEMMA SentinelsDiffer ==
    /\ HeadNode # TailNode /\ HeadNode # "null" /\ TailNode # "null"
    /\ HeadNode \notin Block /\ TailNode \notin Block /\ "null" \notin Block /\ NoHeap \notin Block
    /\ HeadNode \in Links /\ TailNode \in Links /\ Block \subseteq Links /\ "null" \notin Links
  BY HeapAssumption DEF Links, HeadNode, TailNode, NoHeap

LEMMA LinkedFront ==
    ASSUME NEW nx \in Pointers, NEW pv \in Pointers, NEW S \in SUBSET Block, NEW n, NEW f, IsLinked(nx, pv, n, f, S),
           NEW b \in Block, b \notin S,
           NEW mx, mx = [nx EXCEPT ![b] = nx[HeadNode], ![HeadNode] = b],
           NEW my, my = [pv EXCEPT ![b] = HeadNode, ![nx[HeadNode]] = b]
    PROVE  /\ mx \in Pointers /\ my \in Pointers
           /\ \E m, g : IsLinked(mx, my, m, g, S \cup {b})
<1>1. /\ n \in Nat /\ f \in [0..(n + 1) -> Links]
      /\ f[0] = HeadNode /\ f[n + 1] = TailNode
      /\ \A i, j \in 0..(n + 1) : f[i] = f[j] => i = j
      /\ \A k \in 1..n : f[k] \in S
      /\ \A a \in S : \E k \in 1..n : f[k] = a
      /\ \A k \in 0..n : nx[f[k]] = f[k + 1] /\ pv[f[k + 1]] = f[k]
  BY DEF IsLinked
<1>2. ASSUME NEW k \in 0..(n + 1) PROVE f[k] # b
  <2>1. k = 0 \/ k = n + 1 \/ k \in 1..n
    BY <1>1
  <2> QED  BY <2>1, <1>1, SentinelsDiffer
<1>3. PICK c \in Links : c = nx[HeadNode] /\ c = f[1] /\ c # b /\ c # HeadNode
  <2>1. 0 \in 0..n /\ 1 \in 0..(n + 1) /\ 0 \in 0..(n + 1) /\ 0 + 1 = 1
    BY <1>1
  <2>2. nx[f[0]] = f[1]
    BY <2>1, <1>1
  <2> QED  BY <2>1, <2>2, <1>1, <1>2
<1>4. /\ mx \in Pointers /\ my \in Pointers
      /\ \A x \in Links : mx[x] = (IF x = HeadNode THEN b ELSE IF x = b THEN c ELSE nx[x])
      /\ \A x \in Links : my[x] = (IF x = c THEN b ELSE IF x = b THEN HeadNode ELSE pv[x])
  <2>1. mx = [nx EXCEPT ![b] = c, ![HeadNode] = b] /\ my = [pv EXCEPT ![b] = HeadNode, ![c] = b]
    BY <1>3
  <2>2. b \in Links /\ HeadNode \in Links
    BY SentinelsDiffer
  <2> QED  BY <2>1, <2>2, <1>3 DEF Pointers
<1>5. PICK m \in Nat : m = n + 1
  BY <1>1
<1>6. PICK g : g = [k \in 0..(m + 1) |-> IF k = 0 THEN HeadNode ELSE IF k = 1 THEN b ELSE f[k - 1]]
  OBVIOUS
<1>7. ASSUME NEW k \in 0..(m + 1)
      PROVE  /\ k = 0 => g[k] = HeadNode
             /\ k = 1 => g[k] = b
             /\ k > 1 => k - 1 \in 1..(n + 1) /\ k - 1 \in 0..(n + 1) /\ g[k] = f[k - 1]
             /\ g[k] \in Links
  <2>1. k > 1 => k - 1 \in 1..(n + 1) /\ k - 1 \in 0..(n + 1)
    BY <1>1, <1>5
  <2>2. k = 0 \/ k = 1 \/ k > 1
    OBVIOUS
  <2> QED  BY <2>1, <2>2, <1>1, <1>6, SentinelsDiffer
<1>8. g \in [0..(m + 1) -> Links]
  BY <1>6, <1>7
<1>9. g[0] = HeadNode /\ g[m + 1] = TailNode
  <2>1. 0 \in 0..(m + 1) /\ m + 1 \in 0..(m + 1) /\ m + 1 > 1 /\ (m + 1) - 1 = n + 1
    BY <1>1, <1>5
  <2> QED  BY <2>1, <1>1, <1>7
<1>10. ASSUME NEW i \in 0..(m + 1), NEW j \in 0..(m + 1), g[i] = g[j] PROVE i = j
  <2>1. \A x \in 0..(m + 1) : x = 0 \/ x = 1 \/ x > 1
    OBVIOUS
  <2>2. ASSUME NEW x \in 0..(m + 1), x > 1 PROVE g[x] # HeadNode /\ g[x] # b
    <3>1. g[x] = f[x - 1] /\ x - 1 \in 1..(n + 1) /\ x - 1 \in 0..(n + 1) /\ x - 1 # 0 /\ 0 \in 0..(n + 1)
      BY <2>2, <1>1, <1>7
    <3> QED  BY <3>1, <1>1, <1>2
  <2>3. b # HeadNode
    BY SentinelsDiffer
  <2>4. CASE i > 1 /\ j > 1
    <3>1. f[i - 1] = f[j - 1] /\ i - 1 \in 0..(n + 1) /\ j - 1 \in 0..(n + 1)
      BY <2>4, <1>7, <1>10
    <3>2. i - 1 = j - 1
      BY <3>1, <1>1
    <3> QED  BY <3>2
  <2>5. CASE ~(i > 1 /\ j > 1)
    BY <2>1, <2>2, <2>3, <2>5, <1>7, <1>10
  <2> QED  BY <2>4, <2>5
<1>11. ASSUME NEW k \in 1..m PROVE g[k] \in S \cup {b}
  <2>1. k \in 0..(m + 1) /\ (k = 1 \/ (k > 1 /\ k - 1 \in 1..n))
    BY <1>5, <1>1
  <2> QED  BY <2>1, <1>1, <1>7
<1>12. ASSUME NEW a \in S \cup {b} PROVE \E k \in 1..m : g[k] = a
  <2>1. CASE a = b
    <3>1. 1 \in 1..m /\ 1 \in 0..(m + 1)
      BY <1>5, <1>1
    <3> QED  BY <2>1, <3>1, <1>7
  <2>2. CASE a \in S
    <3>1. PICK k \in 1..n : f[k] = a
      BY <2>2, <1>1
    <3>2. PICK j \in 1..m : j = k + 1 /\ j > 1 /\ j - 1 = k /\ j \in 0..(m + 1)
      BY <1>5, <1>1
    <3> QED  BY <3>1, <3>2, <1>7
  <2> QED  BY <2>1, <2>2
<1>13. ASSUME NEW k \in 0..m PROVE mx[g[k]] = g[k + 1] /\ my[g[k + 1]] = g[k]
  <2>0. k \in 0..(m + 1) /\ k + 1 \in 0..(m + 1) /\ (k + 1) - 1 = k
    BY <1>5
  <2>1. CASE k = 0
    <3>1. g[k] = HeadNode /\ g[k + 1] = b
      BY <2>0, <2>1, <1>7
    <3>2. b # HeadNode /\ b \in Links /\ HeadNode \in Links
      BY SentinelsDiffer
    <3> QED  BY <3>1, <3>2, <1>3, <1>4
  <2>2. CASE k = 1
    <3>1. g[k] = b /\ g[k + 1] = f[1]
      BY <2>0, <2>2, <1>7
    <3>2. b # HeadNode /\ b \in Links /\ HeadNode \in Links
      BY SentinelsDiffer
    <3> QED  BY <3>1, <3>2, <1>3, <1>4
  <2>3. CASE k > 1
    <3>1. PICK i \in 1..n : i = k - 1 /\ k = i + 1
      BY <2>3, <1>1, <1>5
    <3>2. i \in 0..n /\ i \in 0..(n + 1) /\ i + 1 \in 0..(n + 1) /\ 0 \in 0..(n + 1) /\ 1 \in 0..(n + 1) /\ i # 0 /\ i + 1 # 1
      BY <1>1
    <3>3. g[k] = f[i] /\ g[k + 1] = f[i + 1]
      BY <2>0, <2>3, <3>1, <1>7
    <3>4. f[i] # HeadNode /\ f[i] # b /\ f[i + 1] # c /\ f[i + 1] # b
      BY <3>2, <1>1, <1>2, <1>3
    <3>5. f[i] \in Links /\ f[i + 1] \in Links
      BY <3>2, <1>1
    <3>6. mx[f[i]] = nx[f[i]] /\ my[f[i + 1]] = pv[f[i + 1]]
      BY <3>4, <3>5, <1>4
    <3> QED  BY <3>2, <3>3, <3>6, <1>1
  <2> QED  BY <2>1, <2>2, <2>3
<1>14. IsLinked(mx, my, m, g, S \cup {b})
  BY <1>8, <1>9, <1>10, <1>11, <1>12, <1>13 DEF IsLinked
<1> QED
  BY <1>4, <1>14

LEMMA LinkedOutOf ==
    ASSUME NEW nx \in Pointers, NEW pv \in Pointers, NEW S \in SUBSET Block, NEW n, NEW f, IsLinked(nx, pv, n, f, S),
           NEW b \in S,
           NEW mx, mx = [nx EXCEPT ![pv[b]] = nx[b]], NEW my, my = [pv EXCEPT ![nx[b]] = pv[b]]
    PROVE  /\ mx \in Pointers /\ my \in Pointers
           /\ \E m, g : IsLinked(mx, my, m, g, S \ {b})
<1>1. /\ n \in Nat /\ f \in [0..(n + 1) -> Links]
      /\ f[0] = HeadNode /\ f[n + 1] = TailNode
      /\ \A i, j \in 0..(n + 1) : f[i] = f[j] => i = j
      /\ \A k \in 1..n : f[k] \in S
      /\ \A a \in S : \E k \in 1..n : f[k] = a
      /\ \A k \in 0..n : nx[f[k]] = f[k + 1] /\ pv[f[k + 1]] = f[k]
  BY DEF IsLinked
<1>2. PICK k \in 1..n : f[k] = b
  BY <1>1
<1>3. k \in Nat /\ k \in 0..n /\ k - 1 \in 0..n /\ (k - 1) + 1 = k /\ k + 1 \in 0..(n + 1) /\ k - 1 \in 0..(n + 1) /\ k \in 0..(n + 1)
  BY <1>1
<1>4. PICK p \in Links, q \in Links : p = f[k - 1] /\ q = f[k + 1]
  BY <1>1, <1>3
<1>5. nx[b] = q /\ pv[b] = p
  BY <1>1, <1>2, <1>3, <1>4
<1>6. /\ mx \in Pointers /\ my \in Pointers
      /\ \A x \in Links : mx[x] = (IF x = p THEN q ELSE nx[x]) /\ my[x] = (IF x = q THEN p ELSE pv[x])
  <2>1. mx = [nx EXCEPT ![p] = q] /\ my = [pv EXCEPT ![q] = p]
    BY <1>5
  <2> QED  BY <2>1 DEF Pointers
<1>7. PICK m \in Nat : n = m + 1
  <2>1. n - 1 \in Nat /\ n = (n - 1) + 1
    BY <1>1
  <2> QED  BY <2>1
<1>8. PICK g : g = [j \in 0..(m + 1) |-> IF j < k THEN f[j] ELSE f[j + 1]]
  OBVIOUS
<1>9. ASSUME NEW j \in 0..(m + 1)
      PROVE  /\ j \in 0..(n + 1) /\ j + 1 \in 0..(n + 1)
             /\ j < k => g[j] = f[j]
             /\ ~(j < k) => g[j] = f[j + 1]
             /\ g[j] \in Links
  <2>1. j \in 0..(n + 1) /\ j + 1 \in 0..(n + 1)
    BY <1>7
  <2> QED  BY <2>1, <1>1, <1>8
<1>10. g \in [0..(m + 1) -> Links]
  BY <1>8, <1>9
<1>11. g[0] = HeadNode /\ g[m + 1] = TailNode
  <2>1. 0 \in 0..(m + 1) /\ m + 1 \in 0..(m + 1) /\ 0 < k /\ ~(m + 1 < k) /\ (m + 1) + 1 = n + 1
    BY <1>1, <1>3, <1>7
  <2> QED  BY <2>1, <1>1, <1>9
<1>12. ASSUME NEW i \in 0..(m + 1), NEW j \in 0..(m + 1), g[i] = g[j] PROVE i = j
  <2>1. ASSUME NEW x \in 0..(m + 1)
        PROVE  \E y \in 0..(n + 1) : g[x] = f[y] /\ y = IF x < k THEN x ELSE x + 1
    BY <1>9
  <2>2. PICK y \in 0..(n + 1) : g[i] = f[y] /\ y = IF i < k THEN i ELSE i + 1
    BY <2>1
  <2>3. PICK z \in 0..(n + 1) : g[j] = f[z] /\ z = IF j < k THEN j ELSE j + 1
    BY <2>1
  <2>4. y = z
    BY <2>2, <2>3, <1>1, <1>12
  <2> QED  BY <2>2, <2>3, <2>4, <1>3
<1>13. ASSUME NEW j \in 1..m PROVE g[j] \in S \ {b}
  <2>1. j \in 0..(m + 1)
    OBVIOUS
  <2>2. PICK y \in 1..n : g[j] = f[y] /\ y # k
    BY <2>1, <1>3, <1>7, <1>9
  <2>3. y \in 0..(n + 1)
    BY <1>1
  <2> QED  BY <2>2, <2>3, <1>1, <1>2, <1>3
<1>14. ASSUME NEW a \in S \ {b} PROVE \E j \in 1..m : g[j] = a
  <2>1. PICK y \in 1..n : f[y] = a
    BY <1>1
  <2>2. y # k
    BY <2>1, <1>2
  <2>3. PICK j \in 1..m : y = IF j < k THEN j ELSE j + 1
    <3>1. CASE y < k
      <4>1. y \in 1..m
        BY <3>1, <1>3, <1>7
      <4> QED  BY <3>1, <4>1
    <3>2. CASE y > k
      <4>1. y - 1 \in 1..m /\ ~(y - 1 < k) /\ (y - 1) + 1 = y
        BY <3>2, <1>3, <1>7
      <4> QED  BY <4>1
    <3> QED  BY <3>1, <3>2, <2>2, <1>3
  <2>4. j \in 0..(m + 1)
    OBVIOUS
  <2> QED  BY <2>1, <2>3, <2>4, <1>9
<1>15. ASSUME NEW j \in 0..m PROVE mx[g[j]] = g[j + 1] /\ my[g[j + 1]] = g[j]
  <2>0. j \in 0..(m + 1) /\ j + 1 \in 0..(m + 1) /\ j \in 0..n /\ j \in Nat /\ j \in 0..(n + 1) /\ j + 1 \in 0..(n + 1)
    BY <1>7
  <2>1. CASE j + 1 < k
    <3>1. g[j] = f[j] /\ g[j + 1] = f[j + 1]
      BY <2>0, <2>1, <1>3, <1>9
    <3>2. j # k - 1 /\ j + 1 # k + 1
      BY <2>0, <2>1, <1>3
    <3>3. f[j] # p /\ f[j + 1] # q /\ f[j] \in Links /\ f[j + 1] \in Links
      BY <2>0, <3>2, <1>1, <1>3, <1>4
    <3> QED  BY <2>0, <3>1, <3>3, <1>1, <1>6
  <2>2. CASE j + 1 = k
    <3>1. j = k - 1 /\ j < k /\ ~(j + 1 < k)
      BY <2>0, <2>2, <1>3
    <3>2. g[j] = p /\ g[j + 1] = q
      BY <2>0, <2>2, <3>1, <1>4, <1>9
    <3> QED  BY <3>2, <1>6
  <2>3. CASE j + 1 > k
    <3>1. PICK i \in 0..n : i = j + 1 /\ i # k - 1 /\ i + 1 # k + 1 /\ i \in 0..(n + 1) /\ i + 1 \in 0..(n + 1)
      BY <2>0, <2>3, <1>1, <1>3, <1>7
    <3>2. g[j] = f[i] /\ g[j + 1] = f[i + 1]
      BY <2>0, <2>3, <3>1, <1>3, <1>9
    <3>3. f[i] # p /\ f[i + 1] # q /\ f[i] \in Links /\ f[i + 1] \in Links
      BY <3>1, <1>1, <1>3, <1>4
    <3> QED  BY <3>2, <3>3, <1>1, <1>6
  <2> QED  BY <2>0, <2>1, <2>2, <2>3, <1>3
<1>16. IsLinked(mx, my, m, g, S \ {b})
  BY <1>10, <1>11, <1>12, <1>13, <1>14, <1>15 DEF IsLinked
<1> QED
  BY <1>6, <1>16

\* The pointers of a node that is not in the list do not matter.
LEMMA LinkedElsewhere ==
    ASSUME NEW nx \in Pointers, NEW pv \in Pointers, NEW S \in SUBSET Block, NEW n, NEW f,
           IsLinked(nx, pv, n, f, S), NEW b \in Block, b \notin S
    PROVE  /\ [nx EXCEPT ![b] = "null"] \in Pointers /\ [pv EXCEPT ![b] = "null"] \in Pointers
           /\ IsLinked([nx EXCEPT ![b] = "null"], [pv EXCEPT ![b] = "null"], n, f, S)
<1>0. PICK mx, my : mx = [nx EXCEPT ![b] = "null"] /\ my = [pv EXCEPT ![b] = "null"]
  OBVIOUS
<1>1. /\ n \in Nat /\ f \in [0..(n + 1) -> Links]
      /\ f[0] = HeadNode /\ f[n + 1] = TailNode
      /\ \A k \in 1..n : f[k] \in S
      /\ \A k \in 0..n : nx[f[k]] = f[k + 1] /\ pv[f[k + 1]] = f[k]
  BY DEF IsLinked
<1>2. ASSUME NEW k \in 0..(n + 1) PROVE f[k] # b /\ f[k] \in Links
  <2>1. k = 0 \/ k = n + 1 \/ k \in 1..n
    BY <1>1
  <2> QED  BY <2>1, <1>1, SentinelsDiffer
<1>3. mx \in Pointers /\ my \in Pointers /\ \A x \in Links : x # b => mx[x] = nx[x] /\ my[x] = pv[x]
  BY <1>0 DEF Pointers
<1>4. ASSUME NEW k \in 0..n PROVE mx[f[k]] = f[k + 1] /\ my[f[k + 1]] = f[k]
  <2>1. k \in 0..(n + 1) /\ k + 1 \in 0..(n + 1)
    BY <1>1
  <2> QED  BY <2>1, <1>1, <1>2, <1>3
<1>5. IsLinked(mx, my, n, f, S)
  BY <1>1, <1>4 DEF IsLinked
<1> QED
  BY <1>0, <1>3, <1>5

\* The walk of dumpList.
IsDump(nx, w) ==
    w = [k \in 0..Cardinality(Block) + 1 |->
            IF k = 0 THEN HeadNode ELSE IF w[k - 1] \in {TailNode, "null"} THEN TailNode ELSE nx[w[k - 1]]]

Dumped(h) == CHOOSE x : IsDump(nextB[h], x)

LEMMA DumpChosen ==
    ASSUME NEW h
    PROVE  DumpList(h) = {Dumped(h)[k] : k \in 1..Cardinality(Block) + 1} \ {TailNode}
  BY Zenon DEF DumpList, IsDump, Dumped

LEMMA DumpExists ==
    ASSUME NEW nx \in Pointers
    PROVE  \E w : IsDump(nx, w)
<1>1. Cardinality(Block) \in Nat
  BY HeapAssumption, FS_CardinalityType
<1>2. PICK M \in Nat : M = Cardinality(Block) + 1
  BY <1>1
<1>3. PICK V : V = Links \cup {"null"}
  OBVIOUS
<1>4. ASSUME NEW x \in V PROVE (IF x \in {TailNode, "null"} THEN TailNode ELSE nx[x]) \in V
  BY <1>3, SentinelsDiffer DEF Pointers
<1>5. PICK step \in [V \X (1..M) -> V] :
          \A p \in V \X (1..M) : step[p] = IF p[1] \in {TailNode, "null"} THEN TailNode ELSE nx[p[1]]
  <2>1. [p \in V \X (1..M) |-> IF p[1] \in {TailNode, "null"} THEN TailNode ELSE nx[p[1]]] \in [V \X (1..M) -> V]
    BY <1>4
  <2> QED  BY <2>1
<1>6. PICK w : w \in [0..M -> V] /\ w[0] = HeadNode /\ \A k \in 1..M : w[k] = step[<<w[k - 1], k>>]
  <2>1. HeadNode \in V
    BY <1>3, SentinelsDiffer
  <2>2. \E g : IsIteration(g, V, M, HeadNode, step)
    BY <2>1, IterationExists
  <2> QED  BY <2>2 DEF IsIteration
<1>7. ASSUME NEW k \in 1..M PROVE w[k] = IF w[k - 1] \in {TailNode, "null"} THEN TailNode ELSE nx[w[k - 1]]
  <2>1. PICK x \in V : x = w[k - 1]
    BY <1>6
  <2>2. step[<<x, k>>] = IF x \in {TailNode, "null"} THEN TailNode ELSE nx[x]
    BY <1>5
  <2> QED  BY <2>1, <2>2, <1>6
<1>8. w = [k \in 0..M |-> IF k = 0 THEN HeadNode ELSE IF w[k - 1] \in {TailNode, "null"} THEN TailNode ELSE nx[w[k - 1]]]
  <2>1. \A k \in 0..M : k # 0 => k \in 1..M
    OBVIOUS
  <2>2. w = [k \in 0..M |-> w[k]]
    BY <1>6
  <2>3. ASSUME NEW k \in 0..M
        PROVE  w[k] = IF k = 0 THEN HeadNode ELSE IF w[k - 1] \in {TailNode, "null"} THEN TailNode ELSE nx[w[k - 1]]
    BY <2>1, <1>6, <1>7
  <2> QED  BY <2>2, <2>3
<1> QED
  BY <1>2, <1>8 DEF IsDump

\* It finds the nodes of the list.
LEMMA DumpIs ==
    ASSUME NEW h, nextB[h] \in Pointers, NEW pv, NEW S \in SUBSET Block, NEW n, NEW f, IsLinked(nextB[h], pv, n, f, S)
    PROVE  DumpList(h) = S
<1>1. PICK nx \in Pointers : nx = nextB[h]
  OBVIOUS
<1>2. /\ n \in Nat /\ f \in [0..(n + 1) -> Links]
      /\ f[0] = HeadNode /\ f[n + 1] = TailNode
      /\ \A i, j \in 0..(n + 1) : f[i] = f[j] => i = j
      /\ \A k \in 1..n : f[k] \in S
      /\ \A a \in S : \E k \in 1..n : f[k] = a
      /\ \A k \in 0..n : nx[f[k]] = f[k + 1]
  BY <1>1 DEF IsLinked
<1>3. PICK C \in Nat : C = Cardinality(Block) /\ n <= C
  <2>1. PICK g : g = [k \in 1..n |-> f[k]]
    OBVIOUS
  <2>2. \A k \in 1..n : k \in 0..(n + 1)
    BY <1>2
  <2>3. g \in Injection(1..n, Block)
    BY <2>1, <2>2, <1>2 DEF Injection, IsInjective
  <2>4. IsFiniteSet(Block) /\ Cardinality(Block) \in Nat
    BY HeapAssumption, FS_CardinalityType
  <2>5. Cardinality(1..n) <= Cardinality(Block)
    BY <2>3, <2>4, FS_Injection
  <2>6. Cardinality(1..n) = n
    BY <1>2, IntervalSize
  <2> QED  BY <2>4, <2>5, <2>6
<1>4. PICK w : w = Dumped(h)
  OBVIOUS
<1>5. IsDump(nextB[h], w)
  BY <1>4, DumpExists, Zenon DEF Dumped
<1>6. /\ w[0] = HeadNode
      /\ \A k \in 1..(C + 1) : w[k] = IF w[k - 1] \in {TailNode, "null"} THEN TailNode ELSE nx[w[k - 1]]
  BY <1>1, <1>3, <1>5 DEF IsDump
<1> DEFINE T == {k \in 0..(C + 1) : w[k] # IF k <= n + 1 THEN f[k] ELSE TailNode}
<1>7. T = {}
  <2> SUFFICES ASSUME T # {} PROVE FALSE
    OBVIOUS
  <2>1. T \in SUBSET Nat
    OBVIOUS
  <2>2. PICK k \in T : \A y \in T : k <= y
    <3> HIDE DEF T
    <3> QED  BY <2>1, LeastNumber
  <2>3. k \in 0..(C + 1) /\ w[k] # IF k <= n + 1 THEN f[k] ELSE TailNode
    OBVIOUS
  <2>4. k # 0
    BY <2>3, <1>2, <1>6
  <2>5. PICK j \in 0..(C + 1) : j = k - 1 /\ k = j + 1 /\ k \in 1..(C + 1)
    BY <2>3, <2>4
  <2>6. j \notin T
    BY <2>2, <2>5
  <2>7. w[j] = IF j <= n + 1 THEN f[j] ELSE TailNode
    BY <2>6
  <2>8. w[k] = IF w[j] \in {TailNode, "null"} THEN TailNode ELSE nx[w[j]]
    BY <2>5, <1>6
  <2>9. CASE j <= n
    <3>1. j \in 0..n /\ j \in 0..(n + 1) /\ j <= n + 1 /\ k <= n + 1 /\ n + 1 \in 0..(n + 1) /\ j # n + 1
      BY <2>5, <2>9, <1>2
    <3>2. f[j] # TailNode /\ f[j] # "null" /\ nx[f[j]] = f[k]
      BY <3>1, <2>5, <1>2, SentinelsDiffer
    <3> QED  BY <2>3, <2>7, <2>8, <3>1, <3>2
  <2>10. CASE j > n
    <3>1. ~(k <= n + 1) /\ (j = n + 1 \/ ~(j <= n + 1))
      BY <2>5, <2>10, <1>2
    <3>2. w[j] = TailNode
      BY <2>7, <3>1, <1>2
    <3> QED  BY <2>3, <2>8, <3>1, <3>2
  <2> QED  BY <2>9, <2>10, <1>2
<1>8. ASSUME NEW k \in 0..(C + 1) PROVE w[k] = IF k <= n + 1 THEN f[k] ELSE TailNode
  BY <1>7
<1> HIDE DEF T
<1>9. DumpList(h) = {w[k] : k \in 1..(C + 1)} \ {TailNode}
  <2>1. DumpList(h) = {w[k] : k \in 1..Cardinality(Block) + 1} \ {TailNode}
    BY <1>4, DumpChosen
  <2> QED  BY <2>1, <1>3
<1>10. ASSUME NEW k \in 1..(C + 1), w[k] # TailNode PROVE w[k] \in S
  <2>1. k \in 0..(C + 1) /\ (k \in 1..n \/ k = n + 1 \/ ~(k <= n + 1)) /\ (k \in 1..n => k <= n + 1)
    BY <1>2
  <2> QED  BY <2>1, <1>2, <1>8, <1>10
<1>11. ASSUME NEW a \in S PROVE a # TailNode /\ \E k \in 1..(C + 1) : w[k] = a
  <2>1. PICK k \in 1..n : f[k] = a
    BY <1>2
  <2>2. k \in 1..(C + 1) /\ k \in 0..(C + 1) /\ k <= n + 1
    BY <1>2, <1>3
  <2> QED  BY <2>1, <2>2, <1>8, SentinelsDiffer
<1> QED
  BY <1>9, <1>10, <1>11

-----------------------------------------------------------------------------
\* The inductive invariant.

Making == {t \in Thread : doing[t] = "init"}
HeapPc == {"idle", "init", "alloc", "link", "free", "release"}
Busy == {"link", "free", "release"}

HeapTypes ==
    /\ heaps \in Nat /\ defaultHeap = heaps
    /\ info \in [Block -> {NoHeap} \cup HeapIds] /\ magic \in [Block -> {"none", "alloced", "freed"}]
    /\ nextB \in [HeapIds -> Pointers] /\ prevB \in [HeapIds -> Pointers]
    /\ mCurrentSize \in [HeapIds -> Int] /\ mNumCurrentAllocations \in [HeapIds -> Int]
    /\ doing \in [Thread -> HeapPc] /\ with \in [Thread -> Block \cup {NoHeap}]

\* There are no more heaps than threads that met defaultHeap at NULL.
HeapsAreFew == heaps + Cardinality(Making) <= Cardinality(Thread)

\* What a thread works on is its own, and listed in a heap that was made.
WorkFits ==
    /\ \A t \in Thread : doing[t] = "alloc" => heaps > 0
    /\ \A t \in Thread : doing[t] \in Busy <=> with[t] # NoHeap
    /\ \A t, u \in Thread : with[t] = with[u] /\ with[t] # NoHeap => t = u
    /\ \A t \in Thread : with[t] # NoHeap => info[with[t]] # NoHeap
    /\ \A b \in Block : magic[b] = "alloced" => info[b] # NoHeap

IsListed(b, h) == info[b] = h /\ \A t \in Thread : with[t] = b => doing[t] = "free"
Listed(h) == {b \in Block : IsListed(b, h)}

\* A list with its counters.
HeapFits(nx, pv, num, cur, S) ==
    /\ \E n, f : IsLinked(nx, pv, n, f, S)
    /\ num = Cardinality(S)
    /\ cur = SumOver(SizeOf, S)

HeapsFit ==
    \A h \in HeapIds : HeapFits(nextB[h], prevB[h], mNumCurrentAllocations[h], mCurrentSize[h], Listed(h))

HeapInv == HeapTypes /\ HeapsAreFew /\ WorkFits /\ HeapsFit

LEMMA ThreadsCounted ==
    Cardinality(Thread) \in Nat /\ NoHeap \notin HeapIds
  BY HeapAssumption, FS_CardinalityType DEF HeapIds, NoHeap

LEMMA HeapStarts == HeapInit => HeapInv
<1> SUFFICES ASSUME HeapInit PROVE HeapInv
  OBVIOUS
<1> USE DEF HeapInit
<1>1. HeapTypes
  <2>1. \A p \in Links : /\ (IF p = HeadNode THEN TailNode ELSE "null") \in Links \cup {"null"}
                         /\ (IF p = TailNode THEN HeadNode ELSE "null") \in Links \cup {"null"}
    BY SentinelsDiffer
  <2>2. nextB \in [HeapIds -> Pointers] /\ prevB \in [HeapIds -> Pointers]
    BY <2>1 DEF Pointers
  <2>3. heaps \in Nat /\ defaultHeap = heaps
    BY DEF NoHeap
  <2> QED  BY <2>2, <2>3 DEF HeapTypes, HeapPc
<1>2. HeapsAreFew
  <2>1. Making = {}
    BY DEF Making
  <2>2. Cardinality(Making) = 0
    BY <2>1, FS_EmptySet
  <2> QED  BY <2>2, ThreadsCounted DEF HeapsAreFew
<1>3. WorkFits
  BY DEF WorkFits, Busy
<1>4. ASSUME NEW h \in HeapIds
      PROVE  HeapFits(nextB[h], prevB[h], mNumCurrentAllocations[h], mCurrentSize[h], Listed(h))
  <2>1. Listed(h) = {}
    BY ThreadsCounted DEF Listed, IsListed
  <2>2. PICK f : f \in [0..(0 + 1) -> Links] /\ f[0] = HeadNode /\ f[1] = TailNode
    <3>1. PICK f : f = [k \in 0..1 |-> IF k = 0 THEN HeadNode ELSE TailNode]
      OBVIOUS
    <3>2. f \in [0..1 -> Links] /\ f[0] = HeadNode /\ f[1] = TailNode
      BY <3>1, SentinelsDiffer
    <3>3. 0 + 1 = 1
      OBVIOUS
    <3> QED  BY <3>2, <3>3
  <2>3. nextB[h][HeadNode] = TailNode /\ prevB[h][TailNode] = HeadNode
    BY SentinelsDiffer
  <2>4. IsLinked(nextB[h], prevB[h], 0, f, {})
    <3>1. \A i \in 0..(0 + 1) : i = 0 \/ i = 1
      OBVIOUS
    <3>2. \A i, j \in 0..(0 + 1) : f[i] = f[j] => i = j
      BY <3>1, <2>2, SentinelsDiffer
    <3>3. \A k \in 0..0 : nextB[h][f[k]] = f[k + 1] /\ prevB[h][f[k + 1]] = f[k]
      BY <2>2, <2>3
    <3>4. f[0] = HeadNode /\ f[0 + 1] = TailNode /\ 0 \in Nat /\ \A k \in 1..0 : f[k] \in {}
      BY <2>2
    <3> QED  BY <2>2, <3>2, <3>3, <3>4 DEF IsLinked
  <2>5. SumOver(SizeOf, {}) = 0 /\ Cardinality({}) = 0
    BY SumOfNone, FS_EmptySet
  <2> QED  BY <2>1, <2>4, <2>5 DEF HeapFits
<1> QED
  BY <1>1, <1>2, <1>3, <1>4 DEF HeapInv, HeapsFit

\* Steps that leave the lists alone.
LEMMA SameLists ==
    ASSUME HeapsFit, UNCHANGED <<nextB, prevB, mCurrentSize, mNumCurrentAllocations>>,
           \A h \in HeapIds, b \in Block : IsListed(b, h)' <=> IsListed(b, h)
    PROVE  HeapsFit'
<1>1. ASSUME NEW h \in HeapIds
      PROVE  HeapFits(nextB[h], prevB[h], mNumCurrentAllocations[h], mCurrentSize[h], Listed(h))'
  <2>1. Listed(h)' = Listed(h)
    BY DEF Listed
  <2>2. HeapFits(nextB[h], prevB[h], mNumCurrentAllocations[h], mCurrentSize[h], Listed(h))
    BY DEF HeapsFit
  <2>3. PICK S : S = Listed(h) /\ S = Listed(h)'
    BY <2>1
  <2>4. HeapFits(nextB[h], prevB[h], mNumCurrentAllocations[h], mCurrentSize[h], S)
    BY <2>2, <2>3
  <2>5. nextB' = nextB /\ prevB' = prevB /\ mCurrentSize' = mCurrentSize /\ mNumCurrentAllocations' = mNumCurrentAllocations
    OBVIOUS
  <2>6. HeapFits(nextB'[h], prevB'[h], mNumCurrentAllocations'[h], mCurrentSize'[h], S)
    BY <2>4, <2>5
  <2>7. HeapFits(nextB'[h], prevB'[h], mNumCurrentAllocations'[h], mCurrentSize'[h], Listed(h)')
    BY <2>3, <2>6
  <2> QED  BY <2>7
<1> QED
  BY <1>1 DEF HeapsFit

\* No thread starts to make a heap.
LEMMA FewStay ==
    ASSUME HeapsAreFew, heaps' = heaps, heaps \in Nat, \A t \in Thread : doing[t] = "init" <=> doing'[t] = "init"
    PROVE  HeapsAreFew'
<1>1. Making' = Making
  BY DEF Making
<1> QED
  BY <1>1 DEF HeapsAreFew

LEMMA KeptByNew ==
    ASSUME HeapInv, NEW t \in Thread, New(t)
    PROVE  HeapInv'
<1> USE DEF HeapInv
<1>1. /\ doing[t] = "idle" /\ with[t] = NoHeap
      /\ doing' = [doing EXCEPT ![t] = IF heaps = 0 THEN "init" ELSE "alloc"]
      /\ UNCHANGED <<defaultHeap, heaps, info, magic, nextB, prevB, mCurrentSize, mNumCurrentAllocations, with>>
  BY DEF New, HeapTypes, WorkFits, Busy, NoHeap
<1>2. HeapTypes'
  BY <1>1 DEF HeapTypes, HeapPc
<1>3. \A u \in Thread : doing'[u] = IF u = t THEN (IF heaps = 0 THEN "init" ELSE "alloc") ELSE doing[u]
  BY <1>1 DEF HeapTypes
<1>4. HeapsAreFew'
  <2>1. CASE heaps = 0
    <3>1. Making' \in SUBSET Thread
      BY DEF Making
    <3>2. Cardinality(Making') <= Cardinality(Thread) /\ Cardinality(Making') \in Nat
      BY <3>1, HeapAssumption, FS_Subset, FS_CardinalityType
    <3>3. heaps' + Cardinality(Making') = Cardinality(Making')
      BY <2>1, <3>2, <1>1
    <3> QED  BY <3>2, <3>3 DEF HeapsAreFew
  <2>2. CASE heaps # 0
    <3>1. \A u \in Thread : doing[u] = "init" <=> doing'[u] = "init"
      BY <2>2, <1>1, <1>3
    <3> QED  BY <3>1, <1>1, FewStay DEF HeapTypes
  <2> QED  BY <2>1, <2>2
<1>5. WorkFits'
  <2>1. \A u \in Thread : doing'[u] = "alloc" => heaps' > 0
    BY <1>1, <1>3 DEF WorkFits, HeapTypes
  <2>2. \A u \in Thread : doing'[u] \in Busy <=> with'[u] # NoHeap
    BY <1>1, <1>3 DEF WorkFits, Busy
  <2> QED  BY <2>1, <2>2, <1>1 DEF WorkFits
<1>6. HeapsFit'
  <2>1. ASSUME NEW h \in HeapIds, NEW b \in Block PROVE IsListed(b, h)' <=> IsListed(b, h)
    BY <1>1, <1>3, SentinelsDiffer DEF IsListed
  <2> QED  BY <2>1, <1>1, SameLists
<1> QED
  BY <1>2, <1>4, <1>5, <1>6

LEMMA KeptByInit ==
    ASSUME HeapInv, NEW t \in Thread, InitCheck(t)
    PROVE  HeapInv'
<1> USE DEF HeapInv
<1>1. /\ doing[t] = "init" /\ with[t] = NoHeap
      /\ heaps' = heaps + 1 /\ defaultHeap' = heaps + 1
      /\ doing' = [doing EXCEPT ![t] = "alloc"]
      /\ UNCHANGED <<info, magic, nextB, prevB, mCurrentSize, mNumCurrentAllocations, with>>
  BY DEF InitCheck, WorkFits, Busy
<1>2. HeapTypes'
  BY <1>1 DEF HeapTypes, HeapPc
<1>3. \A u \in Thread : doing'[u] = IF u = t THEN "alloc" ELSE doing[u]
  BY <1>1 DEF HeapTypes
<1>4. HeapsAreFew'
  <2>1. Making' = Making \ {t} /\ t \in Making
    BY <1>1, <1>3 DEF Making
  <2>2. IsFiniteSet(Making)
    BY HeapAssumption, FS_Subset DEF Making
  <2>3. Cardinality(Making') = Cardinality(Making) - 1 /\ Cardinality(Making) \in Nat
    BY <2>1, <2>2, FS_RemoveElement, FS_CardinalityType
  <2>4. PICK m \in Nat, c \in Nat : m = Cardinality(Making) /\ c = Cardinality(Thread)
    BY <2>3, ThreadsCounted
  <2>5. heaps + m <= c /\ heaps \in Nat
    BY <2>4 DEF HeapsAreFew, HeapTypes
  <2>6. heaps' + Cardinality(Making') <= c
    BY <2>3, <2>4, <2>5, <1>1
  <2> QED  BY <2>4, <2>6 DEF HeapsAreFew
<1>5. WorkFits'
  <2>1. \A u \in Thread : doing'[u] = "alloc" => heaps' > 0
    BY <1>1 DEF HeapTypes
  <2>2. \A u \in Thread : doing'[u] \in Busy <=> with'[u] # NoHeap
    BY <1>1, <1>3 DEF WorkFits, Busy
  <2> QED  BY <2>1, <2>2, <1>1 DEF WorkFits
<1>6. HeapsFit'
  <2>1. ASSUME NEW h \in HeapIds, NEW b \in Block PROVE IsListed(b, h)' <=> IsListed(b, h)
    BY <1>1, <1>3, SentinelsDiffer DEF IsListed
  <2> QED  BY <2>1, <1>1, SameLists
<1> QED
  BY <1>2, <1>4, <1>5, <1>6

LEMMA KeptByMalloc ==
    ASSUME HeapInv, NEW t \in Thread, NEW b \in Block, Malloc(t, b)
    PROVE  HeapInv'
<1> USE DEF HeapInv
<1>1. /\ doing[t] = "alloc" /\ with[t] = NoHeap /\ info[b] = NoHeap
      /\ info' = [info EXCEPT ![b] = heaps] /\ magic' = [magic EXCEPT ![b] = "alloced"]
      /\ with' = [with EXCEPT ![t] = b] /\ doing' = [doing EXCEPT ![t] = "link"]
      /\ UNCHANGED <<defaultHeap, heaps, nextB, prevB, mCurrentSize, mNumCurrentAllocations>>
  BY DEF Malloc, WorkFits, Busy, HeapTypes
<1>2. heaps \in HeapIds /\ heaps # NoHeap
  <2>1. Cardinality(Making) \in Nat
    BY HeapAssumption, FS_Subset, FS_CardinalityType DEF Making
  <2>2. PICK m \in Nat, c \in Nat : m = Cardinality(Making) /\ c = Cardinality(Thread)
    BY <2>1, ThreadsCounted
  <2>3. heaps + m <= c /\ heaps \in Nat /\ heaps > 0
    BY <2>2, <1>1 DEF HeapsAreFew, HeapTypes, WorkFits
  <2> QED  BY <2>2, <2>3 DEF HeapIds, NoHeap
<1>3. HeapTypes'
  BY <1>1, <1>2 DEF HeapTypes, HeapPc
<1>4. /\ \A u \in Thread : doing'[u] = (IF u = t THEN "link" ELSE doing[u]) /\ with'[u] = (IF u = t THEN b ELSE with[u])
      /\ \A c \in Block : info'[c] = (IF c = b THEN heaps ELSE info[c]) /\ magic'[c] = (IF c = b THEN "alloced" ELSE magic[c])
  BY <1>1 DEF HeapTypes
<1>5. HeapsAreFew'
  <2>1. \A u \in Thread : doing[u] = "init" <=> doing'[u] = "init"
    BY <1>1, <1>4
  <2> QED  BY <2>1, <1>1, FewStay DEF HeapTypes
<1>6. \A u \in Thread : with[u] # b /\ with[u] \in Block \cup {NoHeap}
  BY <1>1, SentinelsDiffer DEF WorkFits, HeapTypes
<1>7. WorkFits'
  <2>1. \A u \in Thread : doing'[u] = "alloc" => heaps' > 0
    BY <1>1, <1>4 DEF WorkFits
  <2>2. \A u \in Thread : doing'[u] \in Busy <=> with'[u] # NoHeap
    BY <1>4, SentinelsDiffer DEF WorkFits, Busy
  <2>3. \A u, v \in Thread : with'[u] = with'[v] /\ with'[u] # NoHeap => u = v
    BY <1>4, <1>6 DEF WorkFits
  <2>4. \A u \in Thread : with'[u] # NoHeap => info'[with'[u]] # NoHeap
    BY <1>2, <1>4, <1>6 DEF WorkFits
  <2>5. \A c \in Block : magic'[c] = "alloced" => info'[c] # NoHeap
    BY <1>2, <1>4 DEF WorkFits
  <2> QED  BY <2>1, <2>2, <2>3, <2>4, <2>5 DEF WorkFits
<1>8. HeapsFit'
  <2>1. ASSUME NEW h \in HeapIds, NEW c \in Block PROVE IsListed(c, h)' <=> IsListed(c, h)
    <3>1. CASE c = b
      <4>1. ~IsListed(c, h)
        BY <3>1, <1>1, ThreadsCounted DEF IsListed
      <4>2. ~IsListed(c, h)'
        <5>1. with'[t] = c /\ doing'[t] # "free"
          BY <3>1, <1>4
        <5> QED  BY <5>1 DEF IsListed
      <4> QED  BY <4>1, <4>2
    <3>2. CASE c # b
      <4>1. info'[c] = info[c] /\ \A u \in Thread : (with'[u] = c => doing'[u] = "free") <=> (with[u] = c => doing[u] = "free")
        BY <3>2, <1>1, <1>4, SentinelsDiffer
      <4> QED  BY <4>1 DEF IsListed
    <3> QED  BY <3>1, <3>2
  <2> QED  BY <2>1, <1>1, SameLists
<1> QED
  BY <1>3, <1>5, <1>7, <1>8

LEMMA KeptByDelete ==
    ASSUME HeapInv, NEW t \in Thread, NEW b \in Block, Delete(t, b)
    PROVE  HeapInv'
<1> USE DEF HeapInv
<1>1. /\ doing[t] = "idle" /\ with[t] = NoHeap /\ magic[b] = "alloced" /\ \A u \in Thread : with[u] # b
      /\ with' = [with EXCEPT ![t] = b] /\ doing' = [doing EXCEPT ![t] = "free"]
      /\ UNCHANGED <<defaultHeap, heaps, info, magic, nextB, prevB, mCurrentSize, mNumCurrentAllocations>>
  BY DEF Delete, Held, WorkFits, Busy
<1>2. info[b] # NoHeap
  BY <1>1 DEF WorkFits
<1>3. HeapTypes'
  BY <1>1 DEF HeapTypes, HeapPc
<1>4. \A u \in Thread : doing'[u] = (IF u = t THEN "free" ELSE doing[u]) /\ with'[u] = (IF u = t THEN b ELSE with[u])
  BY <1>1 DEF HeapTypes
<1>5. HeapsAreFew'
  <2>1. \A u \in Thread : doing[u] = "init" <=> doing'[u] = "init"
    BY <1>1, <1>4
  <2> QED  BY <2>1, <1>1, FewStay DEF HeapTypes
<1>7. WorkFits'
  <2>1. \A u \in Thread : doing'[u] = "alloc" => heaps' > 0
    BY <1>1, <1>4 DEF WorkFits
  <2>2. \A u \in Thread : doing'[u] \in Busy <=> with'[u] # NoHeap
    BY <1>4, SentinelsDiffer DEF WorkFits, Busy
  <2>3. \A u, v \in Thread : with'[u] = with'[v] /\ with'[u] # NoHeap => u = v
    BY <1>1, <1>4 DEF WorkFits
  <2>4. \A u \in Thread : with'[u] # NoHeap => info'[with'[u]] # NoHeap
    BY <1>1, <1>2, <1>4 DEF WorkFits
  <2> QED  BY <2>1, <2>2, <2>3, <2>4, <1>1 DEF WorkFits
<1>8. HeapsFit'
  <2>1. ASSUME NEW h \in HeapIds, NEW c \in Block PROVE IsListed(c, h)' <=> IsListed(c, h)
    <3>1. info'[c] = info[c] /\ \A u \in Thread : (with'[u] = c => doing'[u] = "free") <=> (with[u] = c => doing[u] = "free")
      BY <1>1, <1>4, SentinelsDiffer
    <3> QED  BY <3>1 DEF IsListed
  <2> QED  BY <2>1, <1>1, SameLists
<1> QED
  BY <1>3, <1>5, <1>7, <1>8

\* Steps that change the list and the counters of one heap.
LEMMA OtherListsStay ==
    ASSUME HeapsFit, NEW h \in HeapIds,
           \A g \in HeapIds : g # h =>
               /\ nextB'[g] = nextB[g] /\ prevB'[g] = prevB[g]
               /\ mCurrentSize'[g] = mCurrentSize[g] /\ mNumCurrentAllocations'[g] = mNumCurrentAllocations[g]
               /\ Listed(g)' = Listed(g),
           HeapFits(nextB'[h], prevB'[h], mNumCurrentAllocations'[h], mCurrentSize'[h], Listed(h)')
    PROVE  HeapsFit'
<1>1. ASSUME NEW g \in HeapIds
      PROVE  HeapFits(nextB'[g], prevB'[g], mNumCurrentAllocations'[g], mCurrentSize'[g], Listed(g)')
  <2>1. CASE g = h
    BY <2>1
  <2>2. CASE g # h
    <3>1. HeapFits(nextB[g], prevB[g], mNumCurrentAllocations[g], mCurrentSize[g], Listed(g))
      BY DEF HeapsFit
    <3> QED  BY <2>2, <3>1
  <2> QED  BY <2>1, <2>2
<1> QED
  BY <1>1 DEF HeapsFit

LEMMA BlocksFinite ==
    ASSUME NEW S \in SUBSET Block
    PROVE  IsFiniteSet(S) /\ Cardinality(S) \in Nat /\ \A b \in Block : SizeOf[b] \in Int
  BY HeapAssumption, FS_Subset, FS_CardinalityType

LEMMA KeptByLink ==
    ASSUME HeapInv, NEW t \in Thread, Link(t)
    PROVE  HeapInv'
<1> USE DEF HeapInv
<1>1. PICK b \in Block, h \in HeapIds : b = with[t] /\ h = info[b] /\ doing[t] = "link"
  <2>1. doing[t] = "link" /\ with[t] # NoHeap /\ info[with[t]] # NoHeap /\ with[t] \in Block
    BY DEF Link, WorkFits, Busy, HeapTypes
  <2> QED  BY <2>1 DEF HeapTypes
<1>2. /\ nextB' = [nextB EXCEPT ![h][b] = nextB[h][HeadNode], ![h][HeadNode] = b]
      /\ prevB' = [prevB EXCEPT ![h][b] = HeadNode, ![h][nextB[h][HeadNode]] = b]
      /\ mCurrentSize' = [mCurrentSize EXCEPT ![h] = @ + SizeOf[b]]
      /\ mNumCurrentAllocations' = [mNumCurrentAllocations EXCEPT ![h] = @ + 1]
      /\ doing' = [doing EXCEPT ![t] = "idle"] /\ with' = [with EXCEPT ![t] = NoHeap]
      /\ UNCHANGED <<defaultHeap, heaps, info, magic>>
  BY <1>1 DEF Link, PushFrontB
<1>3. PICK nx \in Pointers, pv \in Pointers, num \in Int, cur \in Int, S \in SUBSET Block :
          nx = nextB[h] /\ pv = prevB[h] /\ num = mNumCurrentAllocations[h] /\ cur = mCurrentSize[h] /\ S = Listed(h)
  BY DEF HeapTypes, Listed
<1>4. HeapFits(nx, pv, num, cur, S)
  BY <1>3 DEF HeapsFit
<1>5. b \notin S
  <2>1. ~IsListed(b, h)
    BY <1>1 DEF IsListed
  <2> QED  BY <2>1, <1>3 DEF Listed
<1>6. PICK mx, my : /\ mx = [nx EXCEPT ![b] = nx[HeadNode], ![HeadNode] = b]
                    /\ my = [pv EXCEPT ![b] = HeadNode, ![nx[HeadNode]] = b]
  OBVIOUS
<1>7. /\ nextB'[h] = mx /\ prevB'[h] = my /\ mCurrentSize'[h] = cur + SizeOf[b] /\ mNumCurrentAllocations'[h] = num + 1
      /\ \A g \in HeapIds : g # h =>
               /\ nextB'[g] = nextB[g] /\ prevB'[g] = prevB[g]
               /\ mCurrentSize'[g] = mCurrentSize[g] /\ mNumCurrentAllocations'[g] = mNumCurrentAllocations[g]
  BY <1>2, <1>3, <1>6 DEF HeapTypes
<1>8. mx \in Pointers /\ my \in Pointers /\ \E m, g : IsLinked(mx, my, m, g, S \cup {b})
  <2>1. PICK n, f : IsLinked(nx, pv, n, f, S)
    BY <1>4 DEF HeapFits
  <2> QED  BY <2>1, <1>5, <1>6, LinkedFront
<1>9. HeapFits(mx, my, num + 1, cur + SizeOf[b], S \cup {b})
  <2>1. IsFiniteSet(Block) /\ IsFiniteSet(S) /\ \A c \in Block : SizeOf[c] \in Int
    BY HeapAssumption, BlocksFinite
  <2>2. Cardinality(S \cup {b}) = num + 1
    BY <2>1, <1>4, <1>5, FS_AddElement DEF HeapFits
  <2>3. SumOver(SizeOf, S \cup {b}) = cur + SizeOf[b]
    BY <2>1, <1>4, <1>5, SumWith DEF HeapFits
  <2> QED  BY <2>2, <2>3, <1>8 DEF HeapFits
<1>10. \A u \in Thread : doing'[u] = (IF u = t THEN "idle" ELSE doing[u]) /\ with'[u] = (IF u = t THEN NoHeap ELSE with[u])
  BY <1>2 DEF HeapTypes
<1>11. ASSUME NEW g \in HeapIds, NEW c \in Block PROVE IsListed(c, g)' <=> IsListed(c, g) \/ (c = b /\ g = h)
  <2>1. info'[c] = info[c]
    BY <1>2
  <2>2. CASE c = b
    <3>1. \A u \in Thread : with'[u] # b
      BY <1>1, <1>10, SentinelsDiffer DEF WorkFits
    <3>2. ~(with[t] = b => doing[t] = "free")
      BY <1>1
    <3> QED  BY <2>1, <2>2, <3>1, <3>2, <1>1 DEF IsListed
  <2>3. CASE c # b
    <3>1. \A u \in Thread : (with'[u] = c => doing'[u] = "free") <=> (with[u] = c => doing[u] = "free")
      BY <2>3, <1>1, <1>10, SentinelsDiffer
    <3> QED  BY <2>1, <2>3, <3>1 DEF IsListed
  <2> QED  BY <2>2, <2>3
<1>12. Listed(h)' = S \cup {b} /\ \A g \in HeapIds : g # h => Listed(g)' = Listed(g)
  <2>1. Listed(h)' = S \cup {b}
    BY <1>3, <1>11 DEF Listed
  <2>2. ASSUME NEW g \in HeapIds, g # h PROVE Listed(g)' = Listed(g)
    BY <2>2, <1>11 DEF Listed
  <2> QED  BY <2>1, <2>2
<1>13. HeapTypes'
  <2>1. nextB' \in [HeapIds -> Pointers] /\ prevB' \in [HeapIds -> Pointers]
    <3>1. \A g \in HeapIds : nextB'[g] \in Pointers /\ prevB'[g] \in Pointers
      BY <1>7, <1>8 DEF HeapTypes
    <3>2. nextB' = [g \in HeapIds |-> nextB'[g]] /\ prevB' = [g \in HeapIds |-> prevB'[g]]
      BY <1>2 DEF HeapTypes
    <3> QED  BY <3>1, <3>2
  <2>2. SizeOf[b] \in Int
    BY HeapAssumption
  <2>3. mCurrentSize' \in [HeapIds -> Int] /\ mNumCurrentAllocations' \in [HeapIds -> Int]
    BY <2>2, <1>2 DEF HeapTypes
  <2> QED  BY <2>1, <2>3, <1>2 DEF HeapTypes, HeapPc
<1>14. HeapsAreFew'
  <2>1. \A u \in Thread : doing[u] = "init" <=> doing'[u] = "init"
    BY <1>1, <1>10
  <2> QED  BY <2>1, <1>2, FewStay DEF HeapTypes
<1>15. WorkFits'
  <2>1. \A u \in Thread : doing'[u] = "alloc" => heaps' > 0
    BY <1>2, <1>10 DEF WorkFits
  <2>2. \A u \in Thread : doing'[u] \in Busy <=> with'[u] # NoHeap
    BY <1>10 DEF WorkFits, Busy
  <2>3. \A u, v \in Thread : with'[u] = with'[v] /\ with'[u] # NoHeap => u = v
    BY <1>10 DEF WorkFits
  <2>4. \A u \in Thread : with'[u] # NoHeap => info'[with'[u]] # NoHeap
    BY <1>2, <1>10 DEF WorkFits
  <2> QED  BY <2>1, <2>2, <2>3, <2>4, <1>2 DEF WorkFits
<1>16. HeapsFit'
  <2>1. HeapFits(nextB'[h], prevB'[h], mNumCurrentAllocations'[h], mCurrentSize'[h], Listed(h)')
    BY <1>7, <1>9, <1>12
  <2> QED  BY <2>1, <1>7, <1>12, OtherListsStay
<1> QED
  BY <1>13, <1>14, <1>15, <1>16

LEMMA KeptByUnlink ==
    ASSUME HeapInv, NEW t \in Thread, Unlink(t)
    PROVE  HeapInv'
<1> USE DEF HeapInv
<1>1. PICK b \in Block, h \in HeapIds : b = with[t] /\ h = info[b] /\ doing[t] = "free"
  <2>1. doing[t] = "free" /\ with[t] # NoHeap /\ info[with[t]] # NoHeap /\ with[t] \in Block
    BY DEF Unlink, WorkFits, Busy, HeapTypes
  <2> QED  BY <2>1 DEF HeapTypes
<1>2. /\ nextB' = [nextB EXCEPT ![h][prevB[h][b]] = nextB[h][b]]
      /\ prevB' = [prevB EXCEPT ![h][nextB[h][b]] = prevB[h][b]]
      /\ mCurrentSize' = [mCurrentSize EXCEPT ![h] = @ - SizeOf[b]]
      /\ mNumCurrentAllocations' = [mNumCurrentAllocations EXCEPT ![h] = @ - 1]
      /\ doing' = [doing EXCEPT ![t] = "release"]
      /\ UNCHANGED <<defaultHeap, heaps, info, magic, with>>
  BY <1>1 DEF Unlink
<1>3. PICK nx \in Pointers, pv \in Pointers, num \in Int, cur \in Int, S \in SUBSET Block :
          nx = nextB[h] /\ pv = prevB[h] /\ num = mNumCurrentAllocations[h] /\ cur = mCurrentSize[h] /\ S = Listed(h)
  BY DEF HeapTypes, Listed
<1>4. HeapFits(nx, pv, num, cur, S)
  BY <1>3 DEF HeapsFit
<1>5. b \in S
  <2>1. \A u \in Thread : with[u] = b => u = t
    BY <1>1, SentinelsDiffer DEF WorkFits
  <2>2. IsListed(b, h)
    BY <2>1, <1>1 DEF IsListed
  <2> QED  BY <2>2, <1>3 DEF Listed
<1>6. PICK mx, my : mx = [nx EXCEPT ![pv[b]] = nx[b]] /\ my = [pv EXCEPT ![nx[b]] = pv[b]]
  OBVIOUS
<1>7. /\ nextB'[h] = mx /\ prevB'[h] = my /\ mCurrentSize'[h] = cur - SizeOf[b] /\ mNumCurrentAllocations'[h] = num - 1
      /\ \A g \in HeapIds : g # h =>
               /\ nextB'[g] = nextB[g] /\ prevB'[g] = prevB[g]
               /\ mCurrentSize'[g] = mCurrentSize[g] /\ mNumCurrentAllocations'[g] = mNumCurrentAllocations[g]
  BY <1>2, <1>3, <1>6 DEF HeapTypes
<1>8. mx \in Pointers /\ my \in Pointers /\ \E m, g : IsLinked(mx, my, m, g, S \ {b})
  <2>1. PICK n, f : IsLinked(nx, pv, n, f, S)
    BY <1>4 DEF HeapFits
  <2> QED  BY <2>1, <1>5, <1>6, LinkedOutOf
<1>9. HeapFits(mx, my, num - 1, cur - SizeOf[b], S \ {b})
  <2>1. IsFiniteSet(Block) /\ IsFiniteSet(S) /\ \A c \in Block : SizeOf[c] \in Int
    BY HeapAssumption, BlocksFinite
  <2>2. Cardinality(S \ {b}) = num - 1
    BY <2>1, <1>4, <1>5, FS_RemoveElement DEF HeapFits
  <2>3. SumOver(SizeOf, S \ {b}) = cur - SizeOf[b]
    BY <2>1, <1>4, <1>5, SumWithout DEF HeapFits
  <2> QED  BY <2>2, <2>3, <1>8 DEF HeapFits
<1>10. \A u \in Thread : doing'[u] = (IF u = t THEN "release" ELSE doing[u]) /\ with'[u] = with[u]
  BY <1>2 DEF HeapTypes
<1>11. ASSUME NEW g \in HeapIds, NEW c \in Block PROVE IsListed(c, g)' <=> IsListed(c, g) /\ c # b
  <2>1. info'[c] = info[c]
    BY <1>2
  <2>2. CASE c = b
    <3>1. with'[t] = c /\ doing'[t] # "free"
      BY <2>2, <1>1, <1>10
    <3> QED  BY <2>2, <3>1 DEF IsListed
  <2>3. CASE c # b
    <3>1. \A u \in Thread : (with'[u] = c => doing'[u] = "free") <=> (with[u] = c => doing[u] = "free")
      BY <2>3, <1>1, <1>10
    <3> QED  BY <2>1, <2>3, <3>1 DEF IsListed
  <2> QED  BY <2>2, <2>3
<1>12. Listed(h)' = S \ {b} /\ \A g \in HeapIds : g # h => Listed(g)' = Listed(g)
  <2>1. Listed(h)' = S \ {b}
    BY <1>3, <1>11 DEF Listed
  <2>2. ASSUME NEW g \in HeapIds, g # h PROVE Listed(g)' = Listed(g)
    <3>1. ~IsListed(b, g)
      BY <2>2, <1>1 DEF IsListed
    <3> QED  BY <3>1, <1>11 DEF Listed
  <2> QED  BY <2>1, <2>2
<1>13. HeapTypes'
  <2>1. nextB' \in [HeapIds -> Pointers] /\ prevB' \in [HeapIds -> Pointers]
    <3>1. \A g \in HeapIds : nextB'[g] \in Pointers /\ prevB'[g] \in Pointers
      BY <1>7, <1>8 DEF HeapTypes
    <3>2. nextB' = [g \in HeapIds |-> nextB'[g]] /\ prevB' = [g \in HeapIds |-> prevB'[g]]
      BY <1>2 DEF HeapTypes
    <3> QED  BY <3>1, <3>2
  <2>2. SizeOf[b] \in Int
    BY HeapAssumption
  <2>3. mCurrentSize' \in [HeapIds -> Int] /\ mNumCurrentAllocations' \in [HeapIds -> Int]
    BY <2>2, <1>2 DEF HeapTypes
  <2> QED  BY <2>1, <2>3, <1>2 DEF HeapTypes, HeapPc
<1>14. HeapsAreFew'
  <2>1. \A u \in Thread : doing[u] = "init" <=> doing'[u] = "init"
    BY <1>1, <1>10
  <2> QED  BY <2>1, <1>2, FewStay DEF HeapTypes
<1>15. WorkFits'
  <2>1. \A u \in Thread : doing'[u] = "alloc" => heaps' > 0
    BY <1>2, <1>10 DEF WorkFits
  <2>2. \A u \in Thread : doing'[u] \in Busy <=> with'[u] # NoHeap
    BY <1>1, <1>10, SentinelsDiffer DEF WorkFits, Busy
  <2> QED  BY <2>1, <2>2, <1>2 DEF WorkFits
<1>16. HeapsFit'
  <2>1. HeapFits(nextB'[h], prevB'[h], mNumCurrentAllocations'[h], mCurrentSize'[h], Listed(h)')
    BY <1>7, <1>9, <1>12
  <2> QED  BY <2>1, <1>7, <1>12, OtherListsStay
<1> QED
  BY <1>13, <1>14, <1>15, <1>16

LEMMA KeptByRelease ==
    ASSUME HeapInv, NEW t \in Thread, Release(t)
    PROVE  HeapInv'
<1> USE DEF HeapInv
<1>1. PICK b \in Block, h \in HeapIds : b = with[t] /\ h = info[b] /\ doing[t] = "release"
  <2>1. doing[t] = "release" /\ with[t] # NoHeap /\ info[with[t]] # NoHeap /\ with[t] \in Block
    BY DEF Release, WorkFits, Busy, HeapTypes
  <2> QED  BY <2>1 DEF HeapTypes
<1>2. /\ magic' = [magic EXCEPT ![b] = "freed"] /\ info' = [info EXCEPT ![b] = NoHeap]
      /\ nextB' = [nextB EXCEPT ![h][b] = "null"] /\ prevB' = [prevB EXCEPT ![h][b] = "null"]
      /\ doing' = [doing EXCEPT ![t] = "idle"] /\ with' = [with EXCEPT ![t] = NoHeap]
      /\ UNCHANGED <<defaultHeap, heaps, mCurrentSize, mNumCurrentAllocations>>
  BY <1>1 DEF Release
<1>3. PICK nx \in Pointers, pv \in Pointers, num \in Int, cur \in Int, S \in SUBSET Block :
          nx = nextB[h] /\ pv = prevB[h] /\ num = mNumCurrentAllocations[h] /\ cur = mCurrentSize[h] /\ S = Listed(h)
  BY DEF HeapTypes, Listed
<1>4. HeapFits(nx, pv, num, cur, S)
  BY <1>3 DEF HeapsFit
<1>5. b \notin S
  <2>1. ~IsListed(b, h)
    BY <1>1 DEF IsListed
  <2> QED  BY <2>1, <1>3 DEF Listed
<1>6. PICK mx, my : mx = [nx EXCEPT ![b] = "null"] /\ my = [pv EXCEPT ![b] = "null"]
  OBVIOUS
<1>7. /\ nextB'[h] = mx /\ prevB'[h] = my /\ mCurrentSize'[h] = cur /\ mNumCurrentAllocations'[h] = num
      /\ \A g \in HeapIds : g # h =>
               /\ nextB'[g] = nextB[g] /\ prevB'[g] = prevB[g]
               /\ mCurrentSize'[g] = mCurrentSize[g] /\ mNumCurrentAllocations'[g] = mNumCurrentAllocations[g]
  BY <1>2, <1>3, <1>6 DEF HeapTypes
<1>8. mx \in Pointers /\ my \in Pointers /\ HeapFits(mx, my, num, cur, S)
  <2>1. PICK n, f : IsLinked(nx, pv, n, f, S)
    BY <1>4 DEF HeapFits
  <2>2. mx \in Pointers /\ my \in Pointers /\ IsLinked(mx, my, n, f, S)
    <3>1. b \in Block /\ S \in SUBSET Block /\ nx \in Pointers /\ pv \in Pointers
      OBVIOUS
    <3> QED  BY <3>1, <2>1, <1>5, <1>6, LinkedElsewhere, Zenon
  <2> QED  BY <2>2, <1>4 DEF HeapFits
<1>9. \A c \in Block : info'[c] = (IF c = b THEN NoHeap ELSE info[c]) /\ magic'[c] = (IF c = b THEN "freed" ELSE magic[c])
  BY <1>2 DEF HeapTypes
<1>10. \A u \in Thread : doing'[u] = (IF u = t THEN "idle" ELSE doing[u]) /\ with'[u] = (IF u = t THEN NoHeap ELSE with[u])
  BY <1>2 DEF HeapTypes
<1>11. ASSUME NEW g \in HeapIds, NEW c \in Block PROVE IsListed(c, g)' <=> IsListed(c, g)
  <2>2. CASE c = b
    <3>1. ~IsListed(c, g)
      BY <2>2, <1>1 DEF IsListed
    <3>2. ~IsListed(c, g)'
      BY <2>2, <1>9, ThreadsCounted DEF IsListed
    <3> QED  BY <3>1, <3>2
  <2>3. CASE c # b
    <3>1. info'[c] = info[c] /\ \A u \in Thread : (with'[u] = c => doing'[u] = "free") <=> (with[u] = c => doing[u] = "free")
      BY <2>3, <1>1, <1>9, <1>10, SentinelsDiffer
    <3> QED  BY <3>1 DEF IsListed
  <2> QED  BY <2>2, <2>3
<1>12. \A g \in HeapIds : Listed(g)' = Listed(g)
  BY <1>11 DEF Listed
<1>13. HeapTypes'
  <2>1. nextB' \in [HeapIds -> Pointers] /\ prevB' \in [HeapIds -> Pointers]
    <3>1. \A g \in HeapIds : nextB'[g] \in Pointers /\ prevB'[g] \in Pointers
      BY <1>7, <1>8 DEF HeapTypes
    <3>2. nextB' = [g \in HeapIds |-> nextB'[g]] /\ prevB' = [g \in HeapIds |-> prevB'[g]]
      BY <1>2 DEF HeapTypes
    <3> QED  BY <3>1, <3>2
  <2> QED  BY <2>1, <1>2 DEF HeapTypes, HeapPc
<1>14. HeapsAreFew'
  <2>1. \A u \in Thread : doing[u] = "init" <=> doing'[u] = "init"
    BY <1>1, <1>10
  <2> QED  BY <2>1, <1>2, FewStay DEF HeapTypes
<1>15. WorkFits'
  <2>1. \A u \in Thread : doing'[u] = "alloc" => heaps' > 0
    BY <1>2, <1>10 DEF WorkFits
  <2>2. \A u \in Thread : doing'[u] \in Busy <=> with'[u] # NoHeap
    BY <1>10 DEF WorkFits, Busy
  <2>3. \A u, v \in Thread : with'[u] = with'[v] /\ with'[u] # NoHeap => u = v
    BY <1>10 DEF WorkFits
  <2>4. \A u \in Thread : with'[u] # NoHeap => info'[with'[u]] # NoHeap
    <3>1. \A u \in Thread : u # t /\ with[u] # NoHeap => with[u] # b /\ with[u] \in Block /\ info[with[u]] # NoHeap
      BY <1>1, SentinelsDiffer DEF WorkFits, HeapTypes
    <3> QED  BY <3>1, <1>9, <1>10
  <2>5. \A c \in Block : magic'[c] = "alloced" => info'[c] # NoHeap
    BY <1>9 DEF WorkFits
  <2> QED  BY <2>1, <2>2, <2>3, <2>4, <2>5 DEF WorkFits
<1>16. HeapsFit'
  <2>1. HeapFits(nextB'[h], prevB'[h], mNumCurrentAllocations'[h], mCurrentSize'[h], Listed(h)')
    BY <1>3, <1>7, <1>8, <1>12
  <2> QED  BY <2>1, <1>7, <1>12, OtherListsStay
<1> QED
  BY <1>13, <1>14, <1>15, <1>16

LEMMA HeapKept ==
    HeapInv /\ [HeapNext]_heapVars => HeapInv'
<1> SUFFICES ASSUME HeapInv, [HeapNext]_heapVars PROVE HeapInv'
  OBVIOUS
<1>1. ASSUME NEW t \in Thread, New(t) \/ InitCheck(t) \/ Link(t) \/ Unlink(t) \/ Release(t) PROVE HeapInv'
  BY <1>1, KeptByNew, KeptByInit, KeptByLink, KeptByUnlink, KeptByRelease
<1>2. ASSUME NEW t \in Thread, NEW b \in Block, Malloc(t, b) \/ Delete(t, b) PROVE HeapInv'
  BY <1>2, KeptByMalloc, KeptByDelete
<1>3. CASE UNCHANGED heapVars
  <2>1. UNCHANGED <<nextB, prevB, mCurrentSize, mNumCurrentAllocations, info, doing, with, magic, heaps, defaultHeap>>
    BY <1>3 DEF heapVars
  <2>2. HeapsFit'
    <3>1. ASSUME NEW h \in HeapIds, NEW b \in Block PROVE IsListed(b, h)' <=> IsListed(b, h)
      BY <2>1 DEF IsListed
    <3> QED  BY <3>1, <2>1, SameLists DEF HeapInv
  <2>3. HeapTypes' /\ HeapsAreFew' /\ WorkFits'
    BY <2>1 DEF HeapInv, HeapTypes, HeapsAreFew, WorkFits, Making
  <2> QED  BY <2>2, <2>3 DEF HeapInv
<1> QED
  BY <1>1, <1>2, <1>3 DEF HeapNext

LEMMA HeapInvGivesReport ==
    HeapInv => LeakReportIsExact
<1> SUFFICES ASSUME HeapInv, NEW h \in HeapIds
             PROVE  /\ DumpList(h) = Listed(h)
                    /\ mNumCurrentAllocations[h] = Cardinality(Listed(h))
                    /\ mCurrentSize[h] = SumOver(SizeOf, Listed(h))
  BY Zenon DEF LeakReportIsExact, Listed, IsListed, SumOver
<1>1. HeapFits(nextB[h], prevB[h], mNumCurrentAllocations[h], mCurrentSize[h], Listed(h))
  BY DEF HeapInv, HeapsFit
<1>2. PICK n, f : IsLinked(nextB[h], prevB[h], n, f, Listed(h))
  BY <1>1 DEF HeapFits
<1>3. nextB[h] \in Pointers /\ Listed(h) \in SUBSET Block
  BY DEF HeapInv, HeapTypes, Listed
<1>4. DumpList(h) = Listed(h)
  BY <1>2, <1>3, DumpIs
<1> QED
  BY <1>1, <1>4 DEF HeapFits

\* The leak report of a heap lists the objects that were allocated from it and
\* not deleted, and its counters are their number and their total size, at
\* every moment and for any threads, blocks and sizes; also when several first
\* allocations race and make several heaps (src/src/jh_memory.cpp).
THEOREM LeakReportAlwaysExact == HeapSpec => []LeakReportIsExact
<1>1. HeapInit => HeapInv
  BY HeapStarts
<1>2. HeapInv /\ [HeapNext]_heapVars => HeapInv'
  BY HeapKept
<1>3. HeapInv => LeakReportIsExact
  BY HeapInvGivesReport
<1> QED
  BY <1>1, <1>2, <1>3, PTL DEF HeapSpec
=============================================================================

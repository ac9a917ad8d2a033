-------------------------- MODULE EventQueueProofs --------------------------
(***************************************************************************)
(* Theorems about EventQueue for any number of threads, events, ids and    *)
(* receivers and any MaxSends.                                             *)
(***************************************************************************)
EXTENDS EventQueue, EventListProofs

-----------------------------------------------------------------------------
(* Type correctness *)

\* Releasing finitely many nodes leaves integer counts.
LEMMA ReleaseType ==
    ASSUME VariableTypes, NEW D, IsFiniteSet(D)
    PROVE  /\ ReleaseNodes(D) \in [Event -> Int]
           /\ Reap(ReleaseNodes(D)) \in [Event -> {"free", "raw", "ref", "none"}]
<1>1. ASSUME NEW e \in Event PROVE NodesOf(e, D) \in Nat
  <2> DEFINE S == {n \in D : n.ev = e}
  <2>1. S \in SUBSET D
    OBVIOUS
  <2>2. IsFiniteSet(S)
    <3> HIDE DEF S
    <3> QED  BY <2>1, FS_Subset
  <2> QED  BY <2>2, FS_CardinalityType DEF NodesOf
<1>2. ReleaseNodes(D) \in [Event -> Int]
  BY <1>1 DEF ReleaseNodes, VariableTypes
<1>3. ASSUME NEW c PROVE Reap(c) \in [Event -> {"free", "raw", "ref", "none"}]
  BY DEF Reap, VariableTypes
<1> QED
  BY <1>2, <1>3

\* A signal leaves the threads' states well typed.
LEMMA SignalType ==
    ASSUME VariableTypes, Signal
    PROVE  wait' \in [Thread -> {"idle", "waiting", "signalled", "timedout", "holding"}]
  BY DEF VariableTypes, Signal, Waiting

\* So does taking an event.
LEMMA PopType ==
    ASSUME VariableTypes, NEW t \in Thread, Pop(t)
    PROVE  /\ mQueue' \in Seq(Node)
           /\ held' \in [Thread -> Node \cup {NoNode}]
           /\ wait' \in [Thread -> {"idle", "waiting", "signalled", "timedout", "holding"}]
<1>1. mQueue \in Seq(Node) /\ mQueue # <<>>
  BY DEF VariableTypes, Pop
<1>2. Head(mQueue) \in Node /\ Tail(mQueue) \in Seq(Node)
  BY <1>1, HeadTailProperties
<1> QED
  BY <1>2 DEF VariableTypes, Pop

\* And erasing nodes of the list.
LEMMA EraseType ==
    ASSUME VariableTypes, NEW D \in SUBSET Nodes(mQueue), EraseNodes(D)
    PROVE  VariableTypes'
<1>1. mQueue \in Seq(Node)
  BY DEF VariableTypes
<1>2. IsFiniteSet(D)
  BY <1>1, NodesFinite, FS_Subset
<1>3. Erase(mQueue, D) \in Seq(Node)
  BY <1>1, ErasePlace
<1>4. mQueue' = Erase(mQueue, D) /\ mRefCount' = ReleaseNodes(D) /\ client' = Reap(mRefCount')
  BY DEF EraseNodes
<1>5. mRefCount' \in [Event -> Int] /\ client' \in [Event -> {"free", "raw", "ref", "none"}]
  BY <1>2, <1>4, ReleaseType
<1> QED
  BY <1>3, <1>4, <1>5 DEF VariableTypes, EraseNodes

\* The four removals erase nodes of the list.
LEMMA RemovalsErase ==
    ASSUME \/ \E id \in EventId : RemoveId(id)
           \/ \E e \in Event : RemoveEvent(e)
           \/ \E r \in Receiver : RemoveAgentsByReceiver(r)
           \/ Flush
    PROVE  \E D \in SUBSET Nodes(mQueue) : EraseNodes(D)
<1>1. ASSUME NEW id \in EventId, RemoveId(id) PROVE \E D \in SUBSET Nodes(mQueue) : EraseNodes(D)
  <2>1. {n \in Nodes(mQueue) : Id[n.ev] = id} \in SUBSET Nodes(mQueue)
    OBVIOUS
  <2> QED  BY <1>1, <2>1, Zenon DEF RemoveId
<1>2. ASSUME NEW e \in Event, RemoveEvent(e) PROVE \E D \in SUBSET Nodes(mQueue) : EraseNodes(D)
  <2>1. {n \in Nodes(mQueue) : n.ev = e} \in SUBSET Nodes(mQueue)
    OBVIOUS
  <2> QED  BY <1>2, <2>1, Zenon DEF RemoveEvent
<1>3. ASSUME NEW r \in Receiver, RemoveAgentsByReceiver(r)
      PROVE  \E D \in SUBSET Nodes(mQueue) : EraseNodes(D)
  <2>1. {n \in Nodes(mQueue) : Id[n.ev] = Agent /\ Target[n.ev] = r} \in SUBSET Nodes(mQueue)
    OBVIOUS
  <2> QED  BY <1>3, <2>1, Zenon DEF RemoveAgentsByReceiver
<1>4. ASSUME Flush PROVE \E D \in SUBSET Nodes(mQueue) : EraseNodes(D)
  BY <1>4 DEF Flush
<1> QED
  BY <1>1, <1>2, <1>3, <1>4

\* Every step of the queue keeps VariableTypes.
LEMMA TypeStep ==
    ASSUME VariableTypes, [Next]_vars
    PROVE  VariableTypes'
<1>1. CASE \E e \in Event : New(e) \/ Keep(e) \/ Drop(e)
  BY <1>1 DEF VariableTypes, New, Keep, Drop
<1>2. ASSUME NEW e \in Event, SendEvent(e) PROVE VariableTypes'
  <2>1. mQueue \in Seq(Node) /\ [ev |-> e, seq |-> sends] \in Node /\ MaxSends \in Nat
    BY EventQueueAssumption DEF VariableTypes, Node
  <2>2. mQueue' \in Seq(Node)
    BY <1>2, <2>1, InsertPlace DEF SendEvent
  <2>3. wait' \in [Thread -> {"idle", "waiting", "signalled", "timedout", "holding"}]
    BY <1>2, SignalType DEF SendEvent
  <2> QED  BY <1>2, <2>1, <2>2, <2>3 DEF VariableTypes, SendEvent
<1>3. ASSUME NEW t \in Thread, \E b \in BOOLEAN : WaitEvent(t, b) PROVE VariableTypes'
  <2>1. CASE Pop(t)
    BY <1>3, <2>1, PopType DEF VariableTypes, WaitEvent
  <2>2. CASE ~Pop(t)
    BY <1>3, <2>2 DEF VariableTypes, WaitEvent
  <2> QED  BY <2>1, <2>2
<1>4. ASSUME NEW t \in Thread, Resume(t) PROVE VariableTypes'
  <2>1. CASE Pop(t)
    BY <1>4, <2>1, PopType DEF VariableTypes, Resume
  <2>2. CASE ~Pop(t)
    BY <1>4, <2>2 DEF VariableTypes, Resume
  <2> QED  BY <2>1, <2>2
<1>5. ASSUME NEW t \in Thread, SpuriousWakeup(t) \/ Timeout(t) \/ ReturnNull(t) PROVE VariableTypes'
  BY <1>5 DEF VariableTypes, SpuriousWakeup, Timeout, ReturnNull
<1>6. ASSUME NEW t \in Thread, PollEvent(t) PROVE VariableTypes'
  BY <1>6, PopType DEF VariableTypes, PollEvent
<1>7. ASSUME NEW t \in Thread, Done(t) PROVE VariableTypes'
  <2>1. IsFiniteSet({held[t]})
    BY FS_Singleton
  <2>2. mRefCount' \in [Event -> Int] /\ client' \in [Event -> {"free", "raw", "ref", "none"}]
    BY <1>7, <2>1, ReleaseType DEF Done
  <2> QED  BY <1>7, <2>2 DEF VariableTypes, Done
<1>8. ASSUME \E D \in SUBSET Nodes(mQueue) : EraseNodes(D) PROVE VariableTypes'
  BY <1>8, EraseType
<1>9. CASE UNCHANGED vars
  BY <1>9 DEF VariableTypes, vars
<1> QED
  BY <1>1, <1>2, <1>3, <1>4, <1>5, <1>6, <1>7, <1>8, <1>9, RemovalsErase DEF Next

\* Every step keeps HolderHolds.
LEMMA HolderStep ==
    ASSUME VariableTypes, HolderHolds, [Next]_vars
    PROVE  HolderHolds'
<1>0. NoNode \notin Node
  BY EventQueueAssumption
<1>1. CASE UNCHANGED <<wait, held>>
  BY <1>1 DEF HolderHolds
<1>2. ASSUME NEW e \in Event, SendEvent(e) PROVE HolderHolds'
  <2>1. held' = held
    BY <1>2 DEF SendEvent
  <2>2. wait' = wait \/ \E t \in Waiting : wait' = [wait EXCEPT ![t] = "signalled"]
    BY <1>2 DEF SendEvent, Signal
  <2> QED  BY <2>1, <2>2 DEF HolderHolds, VariableTypes, Waiting
<1>3. ASSUME NEW t \in Thread, Pop(t) PROVE HolderHolds'
  <2>1. Head(mQueue) \in Node
    BY <1>3, HeadTailProperties DEF Pop, VariableTypes
  <2> QED  BY <1>0, <1>3, <2>1 DEF Pop, HolderHolds, VariableTypes
<1>4. ASSUME NEW t \in Thread, WaitEvent(t, TRUE) \/ WaitEvent(t, FALSE) \/ Resume(t) \/ PollEvent(t)
      PROVE  HolderHolds'
  <2>1. CASE Pop(t)
    BY <1>3, <2>1
  <2>2. CASE ~Pop(t)
    BY <1>4, <2>2 DEF WaitEvent, Resume, PollEvent, HolderHolds, VariableTypes
  <2> QED  BY <2>1, <2>2
<1>5. ASSUME NEW t \in Thread, SpuriousWakeup(t) \/ Timeout(t) \/ ReturnNull(t) \/ Done(t)
      PROVE  HolderHolds'
  BY <1>5 DEF SpuriousWakeup, Timeout, ReturnNull, Done, HolderHolds, VariableTypes
<1>6. ASSUME NEW D \in SUBSET Nodes(mQueue), EraseNodes(D) PROVE HolderHolds'
  BY <1>1, <1>6 DEF EraseNodes
<1>7. ASSUME NEW e \in Event, New(e) \/ Keep(e) \/ Drop(e) PROVE HolderHolds'
  BY <1>1, <1>7 DEF New, Keep, Drop
<1>8. CASE UNCHANGED vars
  BY <1>1, <1>8 DEF vars
<1> QED
  BY <1>2, <1>4, <1>5, <1>6, <1>7, <1>8, RemovalsErase DEF Next

\* For any number of threads and events every variable keeps its type, and a
\* thread has an event to Release exactly between taking it and releasing it.
THEOREM TypeCorrect == Spec => []TypeOK
<1>1. Init => VariableTypes /\ HolderHolds
  BY EventQueueAssumption DEF Init, VariableTypes, HolderHolds
<1>2. VariableTypes /\ [Next]_vars => VariableTypes'
  BY TypeStep
<1>3. VariableTypes /\ HolderHolds /\ [Next]_vars => HolderHolds'
  BY HolderStep
<1> QED
  BY <1>1, <1>2, <1>3, PTL DEF Spec, TypeOK

-----------------------------------------------------------------------------
(* No lost wakeup *)

\* The threads on their way out of Wait are finitely many.
LEMMA SignalledFinite ==
    ASSUME VariableTypes
    PROVE  /\ IsFiniteSet(Signalled) /\ Cardinality(Signalled) \in Nat
           /\ Signalled \in SUBSET Thread
<1>1. Signalled \in SUBSET Thread /\ IsFiniteSet(Thread)
  BY EventQueueAssumption DEF Signalled
<1> HIDE DEF Signalled
<1>2. IsFiniteSet(Signalled)
  BY <1>1, FS_Subset
<1> QED
  BY <1>1, <1>2, FS_CardinalityType

\* How many threads are signalled after one thread has moved to s.
LEMMA OneThreadMoves ==
    ASSUME VariableTypes, NEW t \in Thread, NEW s \in {"idle", "waiting", "signalled", "timedout", "holding"},
           wait' = [wait EXCEPT ![t] = s]
    PROVE  /\ Cardinality(Signalled') \in Int
           /\ s = "signalled" /\ wait[t] # "signalled" => Cardinality(Signalled') = Cardinality(Signalled) + 1
           /\ s # "signalled" /\ wait[t] = "signalled" => Cardinality(Signalled') = Cardinality(Signalled) - 1
           /\ s # "signalled" /\ wait[t] # "signalled" => Cardinality(Signalled') = Cardinality(Signalled)
           /\ s # "waiting" => Waiting' \subseteq Waiting
<1>0. IsFiniteSet(Signalled) /\ Cardinality(Signalled) \in Nat
  BY SignalledFinite
<1>1. /\ s = "signalled" => Signalled' = Signalled \cup {t}
      /\ s # "signalled" => Signalled' = Signalled \ {t}
  BY DEF VariableTypes, Signalled
<1>2. t \in Signalled <=> wait[t] = "signalled"
  BY DEF Signalled
<1>3. s # "waiting" => Waiting' \subseteq Waiting
  BY DEF VariableTypes, Waiting
<1>4. /\ t \in Signalled => Cardinality(Signalled \cup {t}) = Cardinality(Signalled)
      /\ t \notin Signalled => Cardinality(Signalled \cup {t}) = Cardinality(Signalled) + 1
  BY <1>0, FS_AddElement
<1>5. /\ t \in Signalled => Cardinality(Signalled \ {t}) = Cardinality(Signalled) - 1
      /\ t \notin Signalled => Cardinality(Signalled \ {t}) = Cardinality(Signalled)
  BY <1>0, FS_RemoveElement
<1>6. CASE s = "signalled"
  <2>1. Cardinality(Signalled') = Cardinality(Signalled \cup {t})
    BY <1>1, <1>6
  <2> QED  BY <2>1, <1>0, <1>2, <1>3, <1>4, <1>6
<1>7. CASE s # "signalled"
  <2>1. Cardinality(Signalled') = Cardinality(Signalled \ {t})
    BY <1>1, <1>7
  <2> QED  BY <2>1, <1>0, <1>2, <1>3, <1>5, <1>7
<1> QED
  BY <1>6, <1>7

\* NoLostWakeup is inductive relative to the type invariant.
LEMMA WakeupStep ==
    ASSUME VariableTypes, NoLostWakeup, [Next]_vars
    PROVE  NoLostWakeup'
<1>0. /\ Cardinality(Signalled) \in Nat
      /\ mQueue \in Seq(Node) /\ Len(mQueue) \in Nat
  BY SignalledFinite, LenProperties DEF VariableTypes
<1>1. CASE UNCHANGED <<wait, mQueue>>
  BY <1>1 DEF NoLostWakeup, Waiting, Signalled
<1>2. ASSUME NEW e \in Event, SendEvent(e) PROVE NoLostWakeup'
  <2>1. Len(mQueue') = Len(mQueue) + 1
    <3>1. [ev |-> e, seq |-> sends] \in Node
      BY DEF VariableTypes, Node
    <3> QED  BY <1>2, <3>1, <1>0, InsertPlace DEF SendEvent
  <2>2. CASE Waiting = {}
    BY <1>2, <2>2 DEF SendEvent, Signal, NoLostWakeup, Waiting
  <2>3. CASE Waiting # {}
    <3>1. PICK t \in Waiting : wait' = [wait EXCEPT ![t] = "signalled"]
      BY <1>2, <2>3 DEF SendEvent, Signal
    <3>2. t \in Thread /\ wait[t] = "waiting"
      BY DEF Waiting
    <3>3. Cardinality(Signalled') = Cardinality(Signalled) + 1
      BY <3>1, <3>2, <1>0, OneThreadMoves
    <3> QED  BY <2>1, <2>3, <3>3, <1>0 DEF NoLostWakeup
  <2> QED  BY <2>2, <2>3
<1>3. ASSUME NEW t \in Thread, Pop(t), wait[t] \in {"idle", "signalled"} PROVE NoLostWakeup'
  <2>1. Len(mQueue') = Len(mQueue) - 1
    BY <1>3, <1>0, HeadTailProperties DEF Pop
  <2>2. /\ Cardinality(Signalled') >= Cardinality(Signalled) - 1
        /\ Waiting' \subseteq Waiting
    <3>1. wait' = [wait EXCEPT ![t] = "holding"]
      BY <1>3 DEF Pop
    <3>2. Waiting' \subseteq Waiting
      BY <3>1, OneThreadMoves
    <3>3. \/ Cardinality(Signalled') = Cardinality(Signalled)
          \/ Cardinality(Signalled') = Cardinality(Signalled) - 1
      BY <3>1, OneThreadMoves
    <3> QED  BY <3>2, <3>3, <1>0
  <2>3. Cardinality(Signalled') \in Int
    <3>1. wait' = [wait EXCEPT ![t] = "holding"]
      BY <1>3 DEF Pop
    <3> QED  BY <3>1, <1>0, OneThreadMoves
  <2> QED  BY <2>1, <2>2, <2>3, <1>0 DEF NoLostWakeup
<1>4. ASSUME NEW t \in Thread, mQueue = <<>>, mQueue' = mQueue,
             wait' = [wait EXCEPT ![t] = "waiting"]
      PROVE  NoLostWakeup'
  <2>1. Len(mQueue') = 0
    BY <1>4
  <2>2. Signalled' \in SUBSET Thread /\ IsFiniteSet(Thread)
    BY EventQueueAssumption DEF Signalled
  <2>3. Cardinality(Signalled') \in Nat
    <3> HIDE DEF Signalled
    <3>1. IsFiniteSet(Signalled')
      BY <2>2, FS_Subset
    <3> QED  BY <3>1, FS_CardinalityType
  <2> QED  BY <2>1, <2>3 DEF NoLostWakeup
<1>5. ASSUME NEW t \in Thread, WaitEvent(t, TRUE) \/ WaitEvent(t, FALSE) \/ Resume(t) \/ PollEvent(t)
      PROVE  NoLostWakeup'
  BY <1>3, <1>4, <1>5 DEF WaitEvent, Resume, PollEvent
<1>6. ASSUME NEW t \in Thread, SpuriousWakeup(t) PROVE NoLostWakeup'
  <2>1. Cardinality(Signalled') = Cardinality(Signalled) + 1 /\ Waiting' \subseteq Waiting
    BY <1>6, <1>0, OneThreadMoves DEF SpuriousWakeup
  <2> QED  BY <1>6, <2>1, <1>0 DEF NoLostWakeup, SpuriousWakeup
<1>7. ASSUME NEW t \in Thread, Timeout(t) \/ ReturnNull(t) \/ Done(t) PROVE NoLostWakeup'
  <2>1. PICK s \in {"idle", "timedout"} : wait' = [wait EXCEPT ![t] = s]
    BY <1>7 DEF Timeout, ReturnNull, Done
  <2>2. wait[t] # "signalled" /\ mQueue' = mQueue
    BY <1>7 DEF Timeout, ReturnNull, Done
  <2>3. Cardinality(Signalled') = Cardinality(Signalled) /\ Waiting' \subseteq Waiting
    BY <2>1, <2>2, <1>0, OneThreadMoves
  <2> QED  BY <2>2, <2>3, <1>0 DEF NoLostWakeup
<1>8. ASSUME NEW D \in SUBSET Nodes(mQueue), EraseNodes(D) PROVE NoLostWakeup'
  <2>1. Len(mQueue') <= Len(mQueue) /\ Len(mQueue') \in Nat
    BY <1>8, <1>0, ErasePlace, LenProperties DEF EraseNodes
  <2>2. Signalled' = Signalled /\ Waiting' = Waiting
    BY <1>8 DEF EraseNodes, Signalled, Waiting
  <2> QED  BY <2>1, <2>2, <1>0 DEF NoLostWakeup
<1>9. ASSUME NEW e \in Event, New(e) \/ Keep(e) \/ Drop(e) PROVE NoLostWakeup'
  BY <1>1, <1>9 DEF New, Keep, Drop
<1>10. CASE UNCHANGED vars
  BY <1>1, <1>10 DEF vars
<1> QED
  BY <1>2, <1>5, <1>6, <1>7, <1>8, <1>9, <1>10, RemovalsErase DEF Next

\* While a thread sleeps in WaitEvent, at least as many threads are on their
\* way out of mWait.Wait as events are in the list: SendEvent signals once per
\* event and no poll, removal or timeout of another thread uses a signal up.
THEOREM NoWakeupIsLost == Spec => []NoLostWakeup
<1>1. Init => NoLostWakeup
  BY DEF Init, NoLostWakeup, Waiting
<1>2. TypeOK /\ NoLostWakeup /\ [Next]_vars => NoLostWakeup'
  BY WakeupStep DEF TypeOK
<1> QED
  BY <1>1, <1>2, TypeCorrect, PTL DEF Spec

-----------------------------------------------------------------------------
(* Delivery order *)

\* Every node in the list was sent before the next SendEvent call: what
\* DeliveryOrder needs to be inductive.
Younger == \A n \in Nodes(mQueue) : n.seq < sends

\* Every step keeps the list in order and its nodes older than the next send.
LEMMA OrderStep ==
    ASSUME VariableTypes, DeliveryOrder, Younger, [Next]_vars
    PROVE  DeliveryOrder' /\ Younger'
<1>0. mQueue \in Seq(Node) /\ Ordered(mQueue) /\ sends \in Nat
  <2>1. Ordered(mQueue)
    BY DEF DeliveryOrder, Ordered
  <2> QED  BY <2>1, EventQueueAssumption DEF VariableTypes
<1>1. CASE UNCHANGED <<mQueue, sends>>
  BY <1>1 DEF DeliveryOrder, Younger
<1>2. ASSUME NEW e \in Event, SendEvent(e) PROVE DeliveryOrder' /\ Younger'
  <2> DEFINE n == [ev |-> e, seq |-> sends]
  <2>1. n \in Node /\ n.seq = sends
    BY <1>0 DEF Node
  <2>2. mQueue' = Insert(mQueue, n) /\ sends' = sends + 1
    BY <1>2 DEF SendEvent
  <2> HIDE DEF n
  <2>3. \A i \in 1..Len(mQueue) : mQueue[i].seq < n.seq
    BY <2>1 DEF Younger, Nodes
  <2>4. Ordered(mQueue')
    BY <1>0, <2>1, <2>2, <2>3, InsertOrdered
  <2>5. Nodes(mQueue') = Nodes(mQueue) \cup {n}
    BY <1>0, <2>1, <2>2, InsertNodes
  <2>6. \A m \in Nodes(mQueue) : m.seq \in Nat
    BY <1>0, NodesFinite DEF Node
  <2>7. \A m \in Nodes(mQueue') : m.seq < sends'
    BY <1>0, <2>1, <2>2, <2>5, <2>6 DEF Younger
  <2> QED  BY <2>4, <2>7 DEF DeliveryOrder, Ordered, Younger
<1>3. ASSUME NEW t \in Thread, Pop(t), sends' = sends PROVE DeliveryOrder' /\ Younger'
  <2>1. mQueue # <<>> /\ mQueue' = Tail(mQueue)
    BY <1>3 DEF Pop
  <2>2. Ordered(mQueue') /\ Nodes(mQueue') \subseteq Nodes(mQueue)
    BY <1>0, <2>1, TailOrdered
  <2> QED  BY <1>3, <2>2 DEF DeliveryOrder, Ordered, Younger
<1>4. ASSUME NEW t \in Thread, WaitEvent(t, TRUE) \/ WaitEvent(t, FALSE) \/ Resume(t) \/ PollEvent(t)
      PROVE  DeliveryOrder' /\ Younger'
  BY <1>1, <1>3, <1>4 DEF WaitEvent, Resume, PollEvent
<1>5. ASSUME NEW t \in Thread, SpuriousWakeup(t) \/ Timeout(t) \/ ReturnNull(t) \/ Done(t)
      PROVE  DeliveryOrder' /\ Younger'
  BY <1>1, <1>5 DEF SpuriousWakeup, Timeout, ReturnNull, Done
<1>6. ASSUME NEW D \in SUBSET Nodes(mQueue), EraseNodes(D) PROVE DeliveryOrder' /\ Younger'
  <2>1. mQueue' = Erase(mQueue, D) /\ sends' = sends
    BY <1>6 DEF EraseNodes
  <2>2. Ordered(mQueue')
    BY <1>0, <2>1, EraseOrdered
  <2>3. Nodes(mQueue') = Nodes(mQueue) \ D
    BY <1>0, <2>1, EraseNodesLeft
  <2> QED  BY <2>1, <2>2, <2>3 DEF DeliveryOrder, Ordered, Younger
<1>7. ASSUME NEW e \in Event, New(e) \/ Keep(e) \/ Drop(e) PROVE DeliveryOrder' /\ Younger'
  BY <1>1, <1>7 DEF New, Keep, Drop
<1>8. CASE UNCHANGED vars
  BY <1>1, <1>8 DEF vars
<1> QED
  BY <1>2, <1>4, <1>5, <1>6, <1>7, <1>8, RemovalsErase DEF Next

\* The list is ordered before the first send.
LEMMA OrderInit == Init => DeliveryOrder /\ Younger
  BY DEF Init, DeliveryOrder, Younger, Nodes

\* Through any mix of sends, polls and removals the list stays in delivery
\* order: by priority, and first in first out within a priority.
THEOREM ListIsOrdered == Spec => []DeliveryOrder
<1>1. TypeOK /\ DeliveryOrder /\ Younger /\ [Next]_vars => DeliveryOrder' /\ Younger'
  BY OrderStep DEF TypeOK
<1> QED
  BY <1>1, OrderInit, TypeCorrect, PTL DEF Spec

-----------------------------------------------------------------------------
(* The queue implements the priority channel *)

\* Every step of the queue is a step of the channel or leaves it alone.
LEMMA ChannelStep ==
    ASSUME VariableTypes, DeliveryOrder, Younger, HolderHolds, [Next]_vars
    PROVE  [Channel!Next]_(Channel!cvars)
<1>0. /\ mQueue \in Seq(Node) /\ Ordered(mQueue) /\ NoNode \notin Node
      /\ sends \in 0..MaxSends /\ MaxSends \in Nat
  BY EventQueueAssumption DEF VariableTypes, DeliveryOrder, Ordered
<1>1. CASE UNCHANGED <<mQueue, held>>
  BY <1>1 DEF Channel!cvars, Nodes
<1>2. ASSUME NEW e \in Event, SendEvent(e) PROVE Channel!Next
  <2> DEFINE m == [ev |-> e, seq |-> sends]
  <2>1. m \in [ev : Event, seq : 0..MaxSends] /\ m \in Node /\ m.seq = sends
    BY <1>0 DEF Node
  <2>2. mQueue' = Insert(mQueue, m) /\ held' = held
    BY <1>2 DEF SendEvent
  <2> HIDE DEF m
  <2>3. Nodes(mQueue') = Nodes(mQueue) \cup {m}
    BY <1>0, <2>1, <2>2, InsertNodes
  <2>4. Channel!Put(m)
    BY <2>1, <2>2, <2>3 DEF Channel!Put, Younger
  <2> QED  BY <2>1, <2>4 DEF Channel!Next
<1>3. ASSUME NEW t \in Thread, Pop(t), wait[t] # "holding" PROVE Channel!Next
  <2> DEFINE m == Head(mQueue)
  <2>1. mQueue # <<>> /\ mQueue' = Tail(mQueue) /\ held' = [held EXCEPT ![t] = m]
    BY <1>3 DEF Pop
  <2>2. /\ m \in Nodes(mQueue) /\ Nodes(mQueue') = Nodes(mQueue) \ {m}
        /\ \A n \in Nodes(mQueue') :
             \/ Priority[m.ev] > Priority[n.ev]
             \/ Priority[m.ev] = Priority[n.ev] /\ m.seq < n.seq
    BY <1>0, <2>1, TailOrdered
  <2> HIDE DEF m
  <2>3. held[t] = NoNode
    BY <1>3 DEF HolderHolds
  <2>4. m \in [ev : Event, seq : 0..MaxSends]
    <3>1. m \in Node /\ m.seq < sends
      BY <1>0, <2>2, NodesFinite DEF Younger
    <3> QED  BY <1>0, <3>1 DEF Node
  <2>5. Channel!Take(t, m)
    BY <2>1, <2>2, <2>3 DEF Channel!Take, Channel!Before
  <2> QED  BY <2>4, <2>5 DEF Channel!Next
<1>4. ASSUME NEW t \in Thread, WaitEvent(t, TRUE) \/ WaitEvent(t, FALSE) \/ Resume(t) \/ PollEvent(t)
      PROVE  [Channel!Next]_(Channel!cvars)
  <2>1. CASE Pop(t)
    BY <1>3, <1>4, <2>1 DEF WaitEvent, Resume, PollEvent
  <2>2. CASE ~Pop(t)
    BY <1>1, <1>4, <2>2 DEF WaitEvent, Resume, PollEvent
  <2> QED  BY <2>1, <2>2
<1>5. ASSUME NEW t \in Thread, SpuriousWakeup(t) \/ Timeout(t) \/ ReturnNull(t)
      PROVE  [Channel!Next]_(Channel!cvars)
  BY <1>1, <1>5 DEF SpuriousWakeup, Timeout, ReturnNull
<1>6. ASSUME NEW t \in Thread, Done(t) PROVE Channel!Next
  <2>1. held[t] # NoNode
    BY <1>6 DEF Done, HolderHolds
  <2>2. Channel!Finish(t)
    BY <1>6, <2>1 DEF Done, Channel!Finish, Nodes
  <2> QED  BY <2>2 DEF Channel!Next
<1>7. ASSUME NEW D \in SUBSET Nodes(mQueue), EraseNodes(D) PROVE Channel!Next
  <2>1. Nodes(mQueue') = Nodes(mQueue) \ D /\ held' = held
    BY <1>0, <1>7, EraseNodesLeft DEF EraseNodes
  <2>2. Channel!Cancel
    BY <2>1 DEF Channel!Cancel
  <2> QED  BY <2>2 DEF Channel!Next
<1>8. ASSUME NEW e \in Event, New(e) \/ Keep(e) \/ Drop(e) PROVE [Channel!Next]_(Channel!cvars)
  BY <1>1, <1>8 DEF New, Keep, Drop
<1>9. CASE UNCHANGED vars
  BY <1>1, <1>9 DEF vars
<1> QED
  BY <1>2, <1>4, <1>5, <1>6, <1>7, <1>8, <1>9, RemovalsErase DEF Next

\* The queue implements the channel: what WaitEvent and PollEvent hand out is
\* always the oldest pending event of the highest priority, and the removals
\* only ever cancel pending events.
THEOREM QueueImplementsChannel == Spec => ImplementsChannel
<1>1. Init => Channel!Init
  BY DEF Init, Channel!Init, Nodes
<1>2. TypeOK /\ DeliveryOrder /\ Younger /\ [Next]_vars => DeliveryOrder' /\ Younger'
  BY OrderStep DEF TypeOK
<1>3. TypeOK /\ DeliveryOrder /\ Younger /\ [Next]_vars => [Channel!Next]_(Channel!cvars)
  BY ChannelStep DEF TypeOK
<1> QED
  BY <1>1, <1>2, <1>3, OrderInit, TypeCorrect, PTL
  DEF Spec, ImplementsChannel, Channel!Spec

-----------------------------------------------------------------------------
(* Reference counts *)

\* The holders of a reference to e: nodes of the list, threads that took it, a
\* SmartPtr of the program.
QueueRefs(e) == NodesOf(e, Nodes(mQueue))
HeldRefs(e)  == Cardinality({t \in Thread : held[t] # NoNode /\ held[t].ev = e})
ClientRefs(e) == IF client[e] = "ref" THEN 1 ELSE 0

One(n, e) == IF n.ev = e THEN 1 ELSE 0

LEMMA CountedRefs ==
    ReferencesAreCounted <=>
      \A e \in Event :
        /\ mRefCount[e] = QueueRefs(e) + HeldRefs(e) + ClientRefs(e)
        /\ mRefCount[e] > 0 <=> client[e] \in {"ref", "none"}
  BY DEF ReferencesAreCounted, QueueRefs, HeldRefs, ClientRefs

\* How NodesOf counts finite sets of nodes: nothing in no node, one in one, and
\* parts add up.
LEMMA NodesOfSets ==
    ASSUME NEW e, NEW S, IsFiniteSet(S)
    PROVE  /\ NodesOf(e, S) \in Nat
           /\ NodesOf(e, {}) = 0
           /\ \A n : NodesOf(e, {n}) = One(n, e)
           /\ \A D \in SUBSET S : NodesOf(e, S \ D) = NodesOf(e, S) - NodesOf(e, D)
           /\ \A n : n \notin S => NodesOf(e, S \cup {n}) = NodesOf(e, S) + One(n, e)
<1> DEFINE P(T) == {n \in T : n.ev = e}
<1>1. ASSUME NEW T \in SUBSET S PROVE IsFiniteSet(P(T)) /\ Cardinality(P(T)) \in Nat
  <2>1. P(T) \in SUBSET S
    OBVIOUS
  <2>2. IsFiniteSet(P(T))
    <3> HIDE DEF P
    <3> QED  BY <2>1, FS_Subset
  <2> QED  BY <2>2, FS_CardinalityType
<1>2. NodesOf(e, S) \in Nat
  BY <1>1 DEF NodesOf
<1>3. NodesOf(e, {}) = 0
  <2>1. P({}) = {}
    OBVIOUS
  <2> QED  BY <2>1, FS_EmptySet DEF NodesOf
<1>4. ASSUME NEW n PROVE NodesOf(e, {n}) = One(n, e)
  <2>1. P({n}) = IF n.ev = e THEN {n} ELSE {}
    OBVIOUS
  <2> QED  BY <2>1, FS_EmptySet, FS_Singleton DEF NodesOf, One
<1>5. ASSUME NEW D \in SUBSET S PROVE NodesOf(e, S \ D) = NodesOf(e, S) - NodesOf(e, D)
  <2>1. P(S \ D) = P(S) \ P(D) /\ P(S) \cap P(D) = P(D)
    OBVIOUS
  <2>2. IsFiniteSet(P(S))
    BY <1>1
  <2>3. Cardinality(P(S) \ P(D)) = Cardinality(P(S)) - Cardinality(P(S) \cap P(D))
    <3> HIDE DEF P
    <3> QED  BY <2>2, FS_Difference
  <2> QED  BY <2>1, <2>3 DEF NodesOf
<1>6. ASSUME NEW n, n \notin S PROVE NodesOf(e, S \cup {n}) = NodesOf(e, S) + One(n, e)
  <2>1. P(S \cup {n}) = IF n.ev = e THEN P(S) \cup {n} ELSE P(S)
    OBVIOUS
  <2>2. n \notin P(S) /\ IsFiniteSet(P(S)) /\ Cardinality(P(S)) \in Nat
    BY <1>1, <1>6
  <2>3. Cardinality(P(S) \cup {n}) = Cardinality(P(S)) + 1
    <3> HIDE DEF P
    <3> QED  BY <2>2, FS_AddElement
  <2>4. NodesOf(e, S \cup {n}) = Cardinality(P(S \cup {n})) /\ NodesOf(e, S) = Cardinality(P(S))
    BY DEF NodesOf
  <2> HIDE DEF P
  <2> QED  BY <2>1, <2>2, <2>3, <2>4 DEF One
<1> QED
  BY <1>2, <1>3, <1>4, <1>5, <1>6

\* What a thread takes or lays down changes the count of its event by one.
LEMMA HeldChanges ==
    ASSUME VariableTypes, NEW e \in Event
    PROVE  /\ HeldRefs(e) \in Nat
           /\ \A t \in Thread, n \in Node :
                held[t] = NoNode /\ held' = [held EXCEPT ![t] = n] => HeldRefs(e)' = HeldRefs(e) + One(n, e)
           /\ \A t \in Thread :
                held[t] # NoNode /\ held' = [held EXCEPT ![t] = NoNode]
                  => HeldRefs(e)' = HeldRefs(e) - One(held[t], e)
<1> DEFINE H == {t \in Thread : held[t] # NoNode /\ held[t].ev = e}
<1>1. H \in SUBSET Thread /\ IsFiniteSet(Thread)
  BY EventQueueAssumption
<1>2. IsFiniteSet(H) /\ Cardinality(H) \in Nat
  <2> HIDE DEF H
  <2>1. IsFiniteSet(H)
    BY <1>1, FS_Subset
  <2> QED  BY <2>1, FS_CardinalityType
<1>3. ASSUME NEW t \in Thread, NEW n \in Node, held[t] = NoNode, held' = [held EXCEPT ![t] = n]
      PROVE  HeldRefs(e)' = HeldRefs(e) + One(n, e)
  <2>1. H' = IF n.ev = e THEN H \cup {t} ELSE H
    BY <1>3, EventQueueAssumption DEF VariableTypes
  <2>2. t \notin H
    BY <1>3
  <2>3. Cardinality(H \cup {t}) = Cardinality(H) + 1
    <3> HIDE DEF H
    <3> QED  BY <1>2, <2>2, FS_AddElement
  <2>4. Cardinality(H') = Cardinality(H) + One(n, e)
    <3> HIDE DEF H
    <3> QED  BY <1>2, <2>1, <2>3 DEF One
  <2> QED  BY <2>4 DEF HeldRefs
<1>4. ASSUME NEW t \in Thread, held[t] # NoNode, held' = [held EXCEPT ![t] = NoNode]
      PROVE  HeldRefs(e)' = HeldRefs(e) - One(held[t], e)
  <2>1. H' = H \ {t}
    BY <1>4 DEF VariableTypes
  <2>2. t \in H <=> held[t].ev = e
    BY <1>4
  <2>3. Cardinality(H \ {t}) = IF t \in H THEN Cardinality(H) - 1 ELSE Cardinality(H)
    <3> HIDE DEF H
    <3> QED  BY <1>2, FS_RemoveElement
  <2>4. Cardinality(H') = Cardinality(H) - One(held[t], e)
    <3> HIDE DEF H
    <3> QED  BY <1>2, <2>1, <2>2, <2>3 DEF One
  <2> QED  BY <2>4 DEF HeldRefs
<1> QED
  BY <1>2, <1>3, <1>4 DEF HeldRefs

\* The references of the list are a number, and the list has none of an event
\* more than nodes.
LEMMA QueueRefsType ==
    ASSUME VariableTypes, NEW e \in Event
    PROVE  QueueRefs(e) \in Nat /\ IsFiniteSet(Nodes(mQueue))
  BY NodesFinite, NodesOfSets DEF VariableTypes, QueueRefs

\* Every step keeps the books.
LEMMA RefStep ==
    ASSUME VariableTypes, HolderHolds, DeliveryOrder, Younger, ReferencesAreCounted, [Next]_vars
    PROVE  ReferencesAreCounted'
<1> DEFINE Books(e) == /\ mRefCount[e] = QueueRefs(e) + HeldRefs(e) + ClientRefs(e)
                       /\ mRefCount[e] > 0 <=> client[e] \in {"ref", "none"}
<1>0. \A e \in Event : Books(e)
  BY CountedRefs
<1>1. ReferencesAreCounted' <=> \A e \in Event : Books(e)'
  BY DEF ReferencesAreCounted, QueueRefs, HeldRefs, ClientRefs
<1> SUFFICES ASSUME NEW e \in Event PROVE Books(e)'
  BY <1>1
<1>2. /\ QueueRefs(e) \in Nat /\ HeldRefs(e) \in Nat /\ ClientRefs(e) \in {0, 1}
      /\ mRefCount[e] \in Int /\ mRefCount \in [Event -> Int]
      /\ client \in [Event -> {"free", "raw", "ref", "none"}]
  BY QueueRefsType, HeldChanges DEF ClientRefs, VariableTypes
<1>3. Books(e)
  BY <1>0
<1>4. UNCHANGED mQueue => QueueRefs(e)' = QueueRefs(e)
  BY DEF QueueRefs
<1>5. UNCHANGED held => HeldRefs(e)' = HeldRefs(e)
  BY DEF HeldRefs
<1>6. CASE UNCHANGED <<mQueue, held, mRefCount, client>>
  BY <1>3, <1>4, <1>5, <1>6 DEF ClientRefs
<1>7. ASSUME NEW x \in Event, New(x) \/ Keep(x) \/ Drop(x) PROVE Books(e)'
  BY <1>2, <1>3, <1>4, <1>5, <1>7 DEF New, Keep, Drop, ClientRefs
<1>8. ASSUME NEW x \in Event, SendEvent(x) PROVE Books(e)'
  <2> DEFINE n == [ev |-> x, seq |-> sends]
  <2>1. n \in Node /\ n.seq = sends /\ n.ev = x /\ mQueue \in Seq(Node) /\ sends \in Nat
    BY EventQueueAssumption DEF Node, VariableTypes
  <2>2. mQueue' = Insert(mQueue, n)
    BY <1>8 DEF SendEvent
  <2> HIDE DEF n
  <2>3. Nodes(mQueue') = Nodes(mQueue) \cup {n}
    BY <2>1, <2>2, InsertNodes
  <2>4. n \notin Nodes(mQueue)
    BY <2>1 DEF Younger
  <2>5. QueueRefs(e)' = QueueRefs(e) + One(n, e)
    BY <2>3, <2>4, QueueRefsType, NodesOfSets DEF QueueRefs
  <2>6. QueueRefs(e)' = QueueRefs(e) + IF x = e THEN 1 ELSE 0
    BY <2>1, <2>5 DEF One
  <2>7. /\ mRefCount' = [mRefCount EXCEPT ![x] = @ + 1]
        /\ client' = [client EXCEPT ![x] = IF @ = "raw" THEN "none" ELSE @]
        /\ client[x] \in {"raw", "ref"} /\ HeldRefs(e)' = HeldRefs(e)
    BY <1>5, <1>8 DEF SendEvent
  <2> QED  BY <1>2, <1>3, <2>6, <2>7 DEF ClientRefs
<1>9. ASSUME NEW t \in Thread, Pop(t), wait[t] # "holding", UNCHANGED <<mRefCount, client>> PROVE Books(e)'
  <2> DEFINE n == Head(mQueue)
  <2>1. mQueue # <<>> /\ mQueue' = Tail(mQueue) /\ held' = [held EXCEPT ![t] = n]
    BY <1>9 DEF Pop
  <2>2. mQueue \in Seq(Node) /\ Ordered(mQueue)
    BY DEF VariableTypes, DeliveryOrder, Ordered
  <2>3. n \in Nodes(mQueue) /\ Nodes(mQueue') = Nodes(mQueue) \ {n} /\ n \in Node
    BY <2>1, <2>2, TailOrdered, HeadTailProperties
  <2> HIDE DEF n
  <2>4. NodesOf(e, {n}) = One(n, e) /\ QueueRefs(e)' = QueueRefs(e) - NodesOf(e, {n})
    <3>1. {n} \in SUBSET Nodes(mQueue)
      BY <2>3
    <3> QED  BY <2>3, <3>1, QueueRefsType, NodesOfSets DEF QueueRefs
  <2>5. held[t] = NoNode
    BY <1>9 DEF HolderHolds
  <2>6. HeldRefs(e)' = HeldRefs(e) + One(n, e)
    BY <2>1, <2>3, <2>5, HeldChanges
  <2>7. One(n, e) \in {0, 1} /\ ClientRefs(e)' = ClientRefs(e)
    BY <1>9 DEF One, ClientRefs
  <2> QED  BY <1>2, <1>3, <1>9, <2>4, <2>6, <2>7
<1>10. ASSUME NEW t \in Thread, WaitEvent(t, TRUE) \/ WaitEvent(t, FALSE) \/ Resume(t) \/ PollEvent(t)
       PROVE  Books(e)'
  BY <1>6, <1>9, <1>10 DEF WaitEvent, Resume, PollEvent
<1>11. ASSUME NEW t \in Thread, SpuriousWakeup(t) \/ Timeout(t) \/ ReturnNull(t) PROVE Books(e)'
  BY <1>6, <1>11 DEF SpuriousWakeup, Timeout, ReturnNull
<1>12. ASSUME NEW D, mRefCount' = ReleaseNodes(D), client' = Reap(mRefCount'), NodesOf(e, D) \in Nat,
              QueueRefs(e)' \in Nat, HeldRefs(e)' \in Nat,
              QueueRefs(e)' + HeldRefs(e)' = QueueRefs(e) + HeldRefs(e) - NodesOf(e, D)
       PROVE  Books(e)'
  <2>1. /\ mRefCount'[e] = mRefCount[e] - NodesOf(e, D)
        /\ client'[e] = IF mRefCount'[e] = 0 /\ mRefCount[e] > 0 THEN "free" ELSE client[e]
    BY <1>12 DEF ReleaseNodes, Reap
  <2>2. /\ ClientRefs(e)' = IF client'[e] = "ref" THEN 1 ELSE 0
        /\ ClientRefs(e) = IF client[e] = "ref" THEN 1 ELSE 0
    BY DEF ClientRefs
  <2>3. mRefCount'[e] = QueueRefs(e)' + HeldRefs(e)' + ClientRefs(e)
    BY <1>2, <1>3, <1>12, <2>1
  <2>4. mRefCount'[e] \in Nat /\ mRefCount'[e] <= mRefCount[e]
    BY <1>2, <1>12, <2>1, <2>3
  <2>5. CASE mRefCount'[e] = 0
    <3>1. ClientRefs(e) = 0
      BY <1>2, <1>12, <2>3, <2>5
    <3> QED  BY <1>2, <1>3, <2>1, <2>2, <2>3, <2>4, <2>5, <3>1
  <2>6. CASE mRefCount'[e] > 0
    <3>1. mRefCount[e] > 0 /\ client'[e] = client[e]
      BY <1>2, <2>1, <2>4, <2>6
    <3> QED  BY <1>2, <1>3, <2>2, <2>3, <2>6, <3>1
  <2> QED  BY <2>4, <2>5, <2>6
<1>13. ASSUME NEW t \in Thread, Done(t) PROVE Books(e)'
  <2>1. /\ held[t] \in Node /\ held[t] # NoNode /\ held' = [held EXCEPT ![t] = NoNode]
        /\ mRefCount' = ReleaseNodes({held[t]}) /\ client' = Reap(mRefCount')
        /\ QueueRefs(e)' = QueueRefs(e)
    BY <1>4, <1>13 DEF Done, HolderHolds, VariableTypes
  <2>2. NodesOf(e, {held[t]}) = One(held[t], e) /\ One(held[t], e) \in {0, 1}
    BY NodesOfSets, FS_EmptySet DEF One
  <2>3. HeldRefs(e)' = HeldRefs(e) - One(held[t], e)
    BY <2>1, HeldChanges
  <2>5. HeldRefs(e)' \in Nat
    <3> DEFINE H == {u \in Thread : held'[u] # NoNode /\ held'[u].ev = e}
    <3>1. H \in SUBSET Thread /\ IsFiniteSet(Thread)
      BY EventQueueAssumption
    <3>2. Cardinality(H) \in Nat
      <4> HIDE DEF H
      <4> QED  BY <3>1, FS_Subset, FS_CardinalityType
    <3> QED  BY <3>2 DEF HeldRefs
  <2>6. /\ QueueRefs(e)' \in Nat /\ NodesOf(e, {held[t]}) \in Nat
        /\ QueueRefs(e)' + HeldRefs(e)' = QueueRefs(e) + HeldRefs(e) - NodesOf(e, {held[t]})
    BY <1>2, <2>1, <2>2, <2>3
  <2> DEFINE D == {held[t]}
  <2>7. mRefCount' = ReleaseNodes(D) /\ NodesOf(e, D) \in Nat /\
        QueueRefs(e)' + HeldRefs(e)' = QueueRefs(e) + HeldRefs(e) - NodesOf(e, D)
    BY <2>1, <2>6
  <2> HIDE DEF Books, D
  <2> QED  BY <1>12, <2>1, <2>5, <2>6, <2>7
<1>14. ASSUME NEW D \in SUBSET Nodes(mQueue), EraseNodes(D) PROVE Books(e)'
  <2>1. /\ mQueue' = Erase(mQueue, D) /\ mRefCount' = ReleaseNodes(D) /\ client' = Reap(mRefCount')
        /\ HeldRefs(e)' = HeldRefs(e)
    BY <1>5, <1>14 DEF EraseNodes
  <2>2. Nodes(mQueue') = Nodes(mQueue) \ D
    BY <2>1, EraseNodesLeft DEF VariableTypes
  <2>3. IsFiniteSet(Nodes(mQueue)) /\ IsFiniteSet(D) /\ IsFiniteSet(Nodes(mQueue) \ D)
    BY QueueRefsType, FS_Subset, FS_Difference
  <2>4. /\ NodesOf(e, Nodes(mQueue) \ D) = NodesOf(e, Nodes(mQueue)) - NodesOf(e, D)
        /\ NodesOf(e, D) \in Nat /\ NodesOf(e, Nodes(mQueue) \ D) \in Nat
    BY <2>3, NodesOfSets
  <2>5. QueueRefs(e)' = QueueRefs(e) - NodesOf(e, D) /\ QueueRefs(e)' \in Nat
    BY <2>2, <2>4 DEF QueueRefs
  <2>6. QueueRefs(e)' + HeldRefs(e)' = QueueRefs(e) + HeldRefs(e) - NodesOf(e, D) /\ HeldRefs(e)' \in Nat
    BY <1>2, <2>1, <2>4, <2>5
  <2> HIDE DEF Books
  <2> QED  BY <1>12, <2>1, <2>4, <2>5, <2>6
<1>15. CASE UNCHANGED vars
  BY <1>6, <1>15 DEF vars
<1> QED
  BY <1>7, <1>8, <1>10, <1>11, <1>13, <1>14, <1>15, RemovalsErase DEF Next

\* Before anything is made there is no reference and no count.
LEMMA RefInit == Init => ReferencesAreCounted
<1> SUFFICES ASSUME Init, NEW e \in Event
             PROVE  QueueRefs(e) = 0 /\ HeldRefs(e) = 0 /\ ClientRefs(e) = 0
  BY CountedRefs DEF Init
<1>1. Nodes(mQueue) = {} /\ {n \in {} : n.ev = e} = {}
  BY DEF Init, Nodes
<1>2. {t \in Thread : held[t] # NoNode /\ held[t].ev = e} = {}
  BY DEF Init
<1> QED
  BY <1>1, <1>2, FS_EmptySet DEF QueueRefs, HeldRefs, ClientRefs, NodesOf, Init

\* For any threads and events the count of an event is the number of nodes,
\* threads and SmartPtrs that refer to it, and the object exists exactly while
\* there is one: no removal, flush or Release frees an event that is still
\* queued or held, and none is left over.
THEOREM ReferencesAlwaysCounted == Spec => []ReferencesAreCounted
<1>1. TypeOK /\ DeliveryOrder /\ Younger /\ [Next]_vars => DeliveryOrder' /\ Younger'
  BY OrderStep DEF TypeOK
<1>2. TypeOK /\ DeliveryOrder /\ Younger /\ ReferencesAreCounted /\ [Next]_vars => ReferencesAreCounted'
  BY RefStep DEF TypeOK
<1> QED
  BY <1>1, <1>2, OrderInit, RefInit, TypeCorrect, PTL DEF Spec
=============================================================================

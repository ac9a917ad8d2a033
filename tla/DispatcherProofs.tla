-------------------------- MODULE DispatcherProofs --------------------------
(***************************************************************************)
(* What holds of EventThread dispatchers for every number of dispatchers,  *)
(* threads and event ids, and for any number of operations: a synchronous  *)
(* call is a barrier, a removal is complete when it returns, and a thread  *)
(* that exits leaves nothing in its queue.                                 *)
(*                                                                         *)
(* The invariant (DispatcherInv) ties the four places a call is kept in    *)
(* together: the caller's record, the caller's pc, the holder in a queue   *)
(* and the holder being handled.  Every holder belongs to the call its     *)
(* sender is in (HolderIsLive), so that an answer never meets a later      *)
(* call; while a holder is handled everything in the queue is behind it    *)
(* (Behind), which is where the list's order comes in.  The lemmas come    *)
(* one per action; most actions take nothing into a queue and share        *)
(* ShrinkStep.                                                             *)
(***************************************************************************)
EXTENDS EventDispatcher, ListFacts, TLAPS

\* The facts about Insert and the order of the list, for lists of messages.
LP == INSTANCE EventListProofs WITH Event <- Message, Priority <- MessagePriority

\* The nodes in d's queue.
Queued(d) == List!Nodes(mQueue[d])

\* A thread inside sendEventSync.
InCall(a) == pc[a] \in {"check", "sleep"}

\* A dispatcher's thread that is handling an event, perhaps inside a call that
\* the handler has made.
Busy(d) == pc[d] \in {"run", "check", "sleep"}

\* A node that is the holder of a synchronous call, and the node that a call
\* in progress has queued.
IsHolder(n) == n.ev.kind = "sync"
HolderNode(a) == [ev |-> [kind |-> "sync", from |-> a, job |-> call[a].job], seq |-> call[a].seq]

\* n does not have to be handled before the call of a returns.
Behind(n, a) ==
    \/ n.seq >= call[a].seq
    \/ MessagePriority[n.ev] < IF call[a].job = "call" THEN 0 ELSE 1

\* n is one of the nodes the call of a removes.
Hit(n, a) == call[a].job = "removeAll" \/ (n.ev.kind = "event" /\ n.ev.id = call[a].job)

CallRecord ==
    [to : Dispatcher \cup {None}, job : Job \cup {None}, seq : Nat,
     holder : {"none", "queued", "done", "deleted"}, ran : {0, 1}]

DispatcherTypes ==
    /\ mQueue \in [Dispatcher -> Seq(LP!Node)]
    /\ pc \in [Actor -> {"wait", "run", "notify", "exited", "check", "sleep", "join"}]
    /\ \A d \in Dispatcher : pc[d] # "join"
    /\ cur \in [Dispatcher -> LP!Node \cup {None}]
    /\ call \in [Actor -> CallRecord]
    /\ closing \in [Dispatcher -> Client \cup {None}]
    /\ sends \in Nat

\* d's queue is in order, and the event being handled is out of it.
QueueInOrder(d) ==
    /\ LP!Ordered(mQueue[d])
    /\ \A n \in Queued(d) : n.seq < sends
    /\ Busy(d) => cur[d] \in LP!Node /\ cur[d].seq < sends /\ cur[d] \notin Queued(d)
    /\ ~ Busy(d) => cur[d] = None

\* Every holder of a's belongs to the call that a is in.
HolderIsLive(d, a) ==
    /\ \A n \in Queued(d) : IsHolder(n) /\ n.ev.from = a =>
          /\ InCall(a) /\ n = HolderNode(a)
          /\ call[a].to = d /\ call[a].holder = "queued" /\ call[a].ran = 0
    /\ Busy(d) /\ IsHolder(cur[d]) /\ cur[d].ev.from = a =>
          /\ InCall(a) /\ cur[d] = HolderNode(a)
          /\ call[a].to = d /\ call[a].holder = "queued"
          /\ \A n \in Queued(d) : Behind(n, a)

\* What a call of a to d has achieved.
CallAchieves(d, a) ==
    InCall(a) /\ call[a].to = d =>
        /\ call[a].holder = "done" => call[a].ran = 1 /\ \A n \in Unhandled(d) : Behind(n, a)
        /\ call[a].ran = 1 /\ call[a].job # "call" =>
              \A n \in Unhandled(d) : n.seq < call[a].seq => ~ Hit(n, a)

\* A call is to some dispatcher and has the number of a SendEvent.
CallIsNumbered(a) ==
    InCall(a) => call[a].to \in Dispatcher /\ call[a].job \in Job /\ call[a].seq < sends

\* The shutdown event is sent by the destructor alone, and last.
ShutdownIsLast(d) ==
    /\ \A n \in Queued(d) : n.ev.kind = "shutdown" => closing[d] # None
    /\ Busy(d) /\ cur[d].ev.kind = "shutdown" => closing[d] # None
    /\ pc[d] = "exited" => closing[d] # None /\ Queued(d) = {}

DispatcherInv ==
    /\ DispatcherTypes
    /\ \A d \in Dispatcher : QueueInOrder(d)
    /\ \A d \in Dispatcher, a \in Actor : HolderIsLive(d, a)
    /\ \A d \in Dispatcher, a \in Actor : CallAchieves(d, a)
    /\ \A a \in Actor : CallIsNumbered(a)
    /\ \A d \in Dispatcher : ShutdownIsLast(d)

\* The priorities of messages.
LEMMA MessagePriorities ==
    /\ MessagePriority \in [Message -> {LP!PRIORITY_NORMAL, LP!PRIORITY_HIGH}]
    /\ \A m \in Message : MessagePriority[m] \in {0, 1}
    /\ \A m \in Message : m.kind = "sync" => MessagePriority[m] = IF m.job = "call" THEN 0 ELSE 1
<1>1. ASSUME NEW m \in Message
      PROVE  /\ MessagePriority[m] \in {0, 1}
             /\ m.kind = "sync" => MessagePriority[m] = IF m.job = "call" THEN 0 ELSE 1
  <2>1. MessagePriority[m] = CASE m.kind = "event"    -> IdPriority[m.id]
                               [] m.kind = "sync"     -> IF m.job = "call" THEN 0 ELSE 1
                               [] m.kind = "shutdown" -> 1
    BY DEF MessagePriority
  <2>2. CASE m \in [kind : {"event"}, id : EventId]
    <3>1. m.kind = "event" /\ IdPriority[m.id] \in {0, 1}
      BY <2>2, DispatcherAssumption
    <3> QED  BY <2>1, <3>1
  <2>3. CASE m \in [kind : {"sync"}, from : Actor, job : Job]
    <3>1. m.kind = "sync"
      BY <2>3
    <3> QED  BY <2>1, <3>1
  <2>4. CASE m \in [kind : {"shutdown"}]
    <3>1. m.kind = "shutdown"
      BY <2>4
    <3> QED  BY <2>1, <3>1
  <2> QED  BY <2>2, <2>3, <2>4 DEF Message
<1>2. MessagePriority \in [Message -> {0, 1}]
  <2> DEFINE pr(m) == CASE m.kind = "event"    -> IdPriority[m.id]
                        [] m.kind = "sync"     -> IF m.job = "call" THEN 0 ELSE 1
                        [] m.kind = "shutdown" -> 1
  <2>1. MessagePriority = [m \in Message |-> pr(m)]
    BY DEF MessagePriority
  <2> HIDE DEF pr
  <2>2. \A m \in Message : pr(m) \in {0, 1}
    BY <1>1, <2>1
  <2> QED  BY <2>1, <2>2
<1>3. LP!PRIORITY_NORMAL = 0 /\ LP!PRIORITY_HIGH = 1
  BY DEF LP!PRIORITY_NORMAL, LP!PRIORITY_HIGH
<1> QED
  BY <1>1, <1>2, <1>3

\* The kinds of messages.
LEMMA MessageKinds ==
    /\ \A id \in EventId : [kind |-> "event", id |-> id] \in Message
    /\ \A a \in Actor, job \in Job : [kind |-> "sync", from |-> a, job |-> job] \in Message
    /\ [kind |-> "shutdown"] \in Message
    /\ \A m \in Message : m.kind = "sync" => m.from \in Actor /\ m.job \in Job
<1>1. ASSUME NEW m \in Message, m.kind = "sync" PROVE m.from \in Actor /\ m.job \in Job
  <2>1. m \notin [kind : {"event"}, id : EventId] /\ m \notin [kind : {"shutdown"}]
    BY <1>1
  <2>2. m \in [kind : {"sync"}, from : Actor, job : Job]
    BY <2>1 DEF Message
  <2> QED  BY <2>2
<1> QED
  BY <1>1 DEF Message

\* Nodes, of the queue's list and of the lemmas' list.
LEMMA SameList ==
    /\ LP!Node = [ev : Message, seq : Nat]
    /\ \A q : List!Nodes(q) = LP!Nodes(q)
    /\ \A q, n : List!Insert(q, n) = LP!Insert(q, n)
  BY DEF LP!Node, List!Nodes, LP!Nodes, List!Insert, LP!Insert, List!Lower, LP!Lower,
         List!PRIORITY_NORMAL, LP!PRIORITY_NORMAL

\* The number of a call is that of its SendEvent.
LEMMA InsertedNode ==
    ASSUME NEW q \in Seq(LP!Node), NEW n \in LP!Node, LP!Ordered(q),
           \A k \in List!Nodes(q) : k.seq < n.seq
    PROVE  /\ List!Insert(q, n) \in Seq(LP!Node)
           /\ List!Nodes(List!Insert(q, n)) = List!Nodes(q) \cup {n}
           /\ LP!Ordered(List!Insert(q, n))
<1>1. LP!Insert(q, n) \in Seq(LP!Node)
  BY LP!InsertPlace, MessagePriorities
<1>2. LP!Nodes(LP!Insert(q, n)) = LP!Nodes(q) \cup {n}
  BY LP!InsertNodes, MessagePriorities
<1>3. \A i \in 1..Len(q) : q[i].seq < n.seq
  BY SameList DEF LP!Nodes
<1>4. LP!Ordered(LP!Insert(q, n))
  BY <1>3, LP!InsertOrdered, MessagePriorities
<1> QED
  BY <1>1, <1>2, <1>4, SameList

\* What Erase leaves of a queue.
LEMMA ErasedQueue ==
    ASSUME NEW q \in Seq(LP!Node), NEW D, LP!Ordered(q)
    PROVE  /\ Erase(q, D) \in Seq(LP!Node)
           /\ List!Nodes(Erase(q, D)) = List!Nodes(q) \ D
           /\ LP!Ordered(Erase(q, D))
<1> DEFINE r == Erase(q, D)
<1>1. r \in Seq(LP!Node)
  BY EraseOrder
<1>2. \A k \in 1..Len(r) : \E i \in 1..Len(q) : r[k] = q[i] /\ q[i] \notin D
  BY EraseOrder
<1>3. \A i \in 1..Len(q) : q[i] \notin D => \E k \in 1..Len(r) : r[k] = q[i]
  BY EraseOrder
<1>4. \A k, m \in 1..Len(r) :
        k < m => \E i, j \in 1..Len(q) : i < j /\ r[k] = q[i] /\ r[m] = q[j]
  BY EraseOrder
<1> HIDE DEF r
<1>5. LP!Ordered(r)
  BY <1>4 DEF LP!Ordered
<1>6. List!Nodes(r) = List!Nodes(q) \ D
  <2>1. ASSUME NEW x \in List!Nodes(r) PROVE x \in List!Nodes(q) \ D
    BY <1>2 DEF List!Nodes
  <2>2. ASSUME NEW x \in List!Nodes(q) \ D PROVE x \in List!Nodes(r)
    BY <1>3 DEF List!Nodes
  <2> QED  BY <2>1, <2>2
<1> QED
  BY <1>1, <1>5, <1>6 DEF r

\* Taking the head off a queue: the others come after it.
LEMMA TakenHead ==
    ASSUME NEW q \in Seq(LP!Node), LP!Ordered(q), q # <<>>
    PROVE  /\ Tail(q) \in Seq(LP!Node) /\ LP!Ordered(Tail(q))
           /\ Head(q) \in List!Nodes(q) /\ Head(q) \in LP!Node
           /\ List!Nodes(Tail(q)) = List!Nodes(q) \ {Head(q)}
           /\ \A n \in List!Nodes(Tail(q)) :
                \/ n.seq > Head(q).seq
                \/ MessagePriority[n.ev] < MessagePriority[Head(q).ev]
<1>1. /\ Head(q) \in LP!Nodes(q) /\ LP!Nodes(Tail(q)) = LP!Nodes(q) \ {Head(q)}
      /\ LP!Ordered(Tail(q))
  BY LP!TailOrdered, MessagePriorities
<1>2. \A n \in LP!Nodes(Tail(q)) :
        \/ MessagePriority[Head(q).ev] > MessagePriority[n.ev]
        \/ MessagePriority[Head(q).ev] = MessagePriority[n.ev] /\ Head(q).seq < n.seq
  BY LP!TailOrdered, MessagePriorities
<1>3. Tail(q) \in Seq(LP!Node) /\ Head(q) \in LP!Node
  BY EmptySeq, HeadTailProperties
<1>4. \A n \in LP!Nodes(q) : n \in LP!Node
  BY ElementOfSeq DEF LP!Nodes
<1>5. \A n \in LP!Node : n.seq \in Nat /\ MessagePriority[n.ev] \in Int
  BY SameList, MessagePriorities
<1> QED
  BY <1>1, <1>2, <1>3, <1>4, <1>5, SameList

-----------------------------------------------------------------------------
\* Facts about the steps.

\* Facts about the nodes of a dispatcher.
LEMMA QueuedNodes ==
    ASSUME DispatcherInv, NEW d \in Dispatcher
    PROVE  /\ mQueue[d] \in Seq(LP!Node) /\ LP!Ordered(mQueue[d])
           /\ \A n \in Queued(d) : n \in LP!Node /\ n.seq \in Nat /\ n.ev \in Message /\ n.seq < sends
           /\ Busy(d) => cur[d] \in LP!Node /\ cur[d].seq \in Nat /\ cur[d].ev \in Message
<1>1. mQueue[d] \in Seq(LP!Node) /\ LP!Ordered(mQueue[d])
  BY DEF DispatcherInv, DispatcherTypes, QueueInOrder
<1>2. \A n \in Queued(d) : n \in LP!Node
  BY <1>1, ElementOfSeq DEF Queued, List!Nodes
<1>3. \A n \in LP!Node : n.seq \in Nat /\ n.ev \in Message
  BY SameList
<1> QED
  BY <1>1, <1>2, <1>3 DEF DispatcherInv, QueueInOrder

\* SendEvent.
LEMMA EnqueueFacts ==
    ASSUME DispatcherInv, NEW d \in Dispatcher, NEW m \in Message, Enqueue(d, m)
    PROVE  /\ mQueue' \in [Dispatcher -> Seq(LP!Node)]
           /\ sends' = sends + 1 /\ sends' \in Nat /\ sends \in Nat
           /\ \A e \in Dispatcher : LP!Ordered(mQueue'[e])
           /\ \A e \in Dispatcher : e # d => Queued(e)' = Queued(e)
           /\ Queued(d)' = Queued(d) \cup {[ev |-> m, seq |-> sends]}
           /\ [ev |-> m, seq |-> sends] \in LP!Node
<1>0. sends \in Nat /\ mQueue \in [Dispatcher -> Seq(LP!Node)]
  BY DEF DispatcherInv, DispatcherTypes
<1>1. PICK n : n = [ev |-> m, seq |-> sends]
  OBVIOUS
<1>2. mQueue' = [mQueue EXCEPT ![d] = List!Insert(@, n)] /\ sends' = sends + 1
  BY <1>1 DEF Enqueue
<1>3. n \in LP!Node /\ n.seq = sends
  BY <1>0, <1>1, SameList
<1>4. \A k \in List!Nodes(mQueue[d]) : k.seq < n.seq
  BY <1>3, QueuedNodes DEF Queued
<1>5. /\ List!Insert(mQueue[d], n) \in Seq(LP!Node)
      /\ List!Nodes(List!Insert(mQueue[d], n)) = List!Nodes(mQueue[d]) \cup {n}
      /\ LP!Ordered(List!Insert(mQueue[d], n))
  BY <1>3, <1>4, QueuedNodes, InsertedNode
<1>6. mQueue'[d] = List!Insert(mQueue[d], n) /\ \A e \in Dispatcher : e # d => mQueue'[e] = mQueue[e]
  BY <1>0, <1>2
<1>7. mQueue' \in [Dispatcher -> Seq(LP!Node)]
  BY <1>0, <1>2, <1>5
<1>8. \A e \in Dispatcher : LP!Ordered(mQueue'[e])
  BY <1>5, <1>6, QueuedNodes
<1>9. (\A e \in Dispatcher : e # d => Queued(e)' = Queued(e)) /\ Queued(d)' = Queued(d) \cup {n}
  BY <1>5, <1>6 DEF Queued
<1> QED
  BY <1>0, <1>1, <1>2, <1>3, <1>7, <1>8, <1>9

\* Erasing nodes.
LEMMA EraseFacts ==
    ASSUME DispatcherInv, NEW d \in Dispatcher, NEW D, mQueue' = [mQueue EXCEPT ![d] = Erase(@, D)]
    PROVE  /\ mQueue' \in [Dispatcher -> Seq(LP!Node)]
           /\ \A e \in Dispatcher : LP!Ordered(mQueue'[e])
           /\ \A e \in Dispatcher : e # d => Queued(e)' = Queued(e)
           /\ Queued(d)' = Queued(d) \ D
<1>0. mQueue \in [Dispatcher -> Seq(LP!Node)]
  BY DEF DispatcherInv, DispatcherTypes
<1>1. mQueue'[d] = Erase(mQueue[d], D) /\ \A e \in Dispatcher : e # d => mQueue'[e] = mQueue[e]
  BY <1>0
<1>2. /\ Erase(mQueue[d], D) \in Seq(LP!Node)
      /\ List!Nodes(Erase(mQueue[d], D)) = List!Nodes(mQueue[d]) \ D
      /\ LP!Ordered(Erase(mQueue[d], D))
  BY QueuedNodes, ErasedQueue
<1>3. mQueue' \in [Dispatcher -> Seq(LP!Node)]
  BY <1>0, <1>2
<1>4. \A e \in Dispatcher : LP!Ordered(mQueue'[e])
  BY <1>1, <1>2, QueuedNodes
<1>5. (\A e \in Dispatcher : e # d => Queued(e)' = Queued(e)) /\ Queued(d)' = Queued(d) \ D
  BY <1>1, <1>2 DEF Queued
<1> QED
  BY <1>3, <1>4, <1>5

\* The nodes of one dispatcher that are not handled yet.
LEMMA UnhandledNodes ==
    ASSUME DispatcherInv, NEW d \in Dispatcher
    PROVE  Unhandled(d) = IF Busy(d) /\ cur[d] # None THEN Queued(d) \cup {cur[d]} ELSE Queued(d)
  BY DEF DispatcherInv, QueueInOrder, Unhandled, Queued

\* sendEvent and the destructor: a message that is not a holder.
LEMMA SendStep ==
    ASSUME DispatcherInv, NEW d \in Dispatcher, NEW m \in Message, m.kind # "sync", Enqueue(d, m),
           UNCHANGED <<cur, call>>,
           pc' \in [Actor -> {"wait", "run", "notify", "exited", "check", "sleep", "join"}],
           \A e \in Dispatcher : pc'[e] = pc[e],
           \A a \in Actor : pc'[a] # pc[a] => ~ InCall(a) /\ ~ InCall(a)',
           closing' \in [Dispatcher -> Client \cup {None}],
           \A e \in Dispatcher : closing[e] # None => closing'[e] # None,
           m.kind = "shutdown" => closing'[d] # None,
           pc[d] # "exited"
    PROVE  DispatcherInv'
<1>0. PICK n : n = [ev |-> m, seq |-> sends]
  OBVIOUS
<1>1. /\ mQueue' \in [Dispatcher -> Seq(LP!Node)]
      /\ sends' = sends + 1 /\ sends' \in Nat /\ sends \in Nat
      /\ \A e \in Dispatcher : LP!Ordered(mQueue'[e])
      /\ \A e \in Dispatcher : e # d => Queued(e)' = Queued(e)
      /\ Queued(d)' = Queued(d) \cup {n} /\ n \in LP!Node
  BY <1>0, EnqueueFacts
<1>2. n.seq = sends /\ n.ev = m /\ ~ IsHolder(n)
  BY <1>0 DEF IsHolder
<1>3. \A e \in Dispatcher : (Busy(e)' <=> Busy(e)) /\ cur'[e] = cur[e]
  BY DEF Busy
<1>4. \A a \in Actor : (InCall(a)' <=> InCall(a)) /\ call'[a] = call[a]
  BY DEF InCall
<1>5. DispatcherTypes'
  BY <1>1 DEF DispatcherInv, DispatcherTypes
<1>6. \A e \in Dispatcher : \A k \in Queued(e)' : k \in Queued(e) \/ (e = d /\ k = n)
  BY <1>1
<1>7. ASSUME NEW e \in Dispatcher PROVE QueueInOrder(e)'
  <2>1. \A k \in Queued(e)' : k.seq < sends'
    BY <1>1, <1>2, <1>6, QueuedNodes
  <2>2. Busy(e) => cur[e] \in LP!Node /\ cur[e].seq < sends' /\ cur[e] \notin Queued(e)'
    BY <1>1, <1>2, <1>6, QueuedNodes DEF DispatcherInv, QueueInOrder
  <2>3. ~ Busy(e) => cur[e] = None
    BY DEF DispatcherInv, QueueInOrder
  <2> QED  BY <1>1, <1>3, <2>1, <2>2, <2>3 DEF QueueInOrder
<1>8. \A a \in Actor : \A k \in LP!Node : (Behind(k, a)' <=> Behind(k, a)) /\ (Hit(k, a)' <=> Hit(k, a))
  BY <1>4 DEF Behind, Hit
<1>9. \A a \in Actor : HolderNode(a)' = HolderNode(a)
  BY <1>4 DEF HolderNode
<1>10. \A a \in Actor : call[a].seq \in Nat
  BY DEF DispatcherInv, DispatcherTypes, CallRecord
<1>11. \A a \in Actor : InCall(a) => call[a].seq < sends
  BY DEF DispatcherInv, CallIsNumbered
<1>12. \A a \in Actor : InCall(a) => Behind(n, a) /\ ~(n.seq < call[a].seq)
  BY <1>1, <1>2, <1>10, <1>11 DEF Behind
<1>13. ASSUME NEW e \in Dispatcher, NEW a \in Actor PROVE HolderIsLive(e, a)'
  <2>1. HolderIsLive(e, a)
    BY DEF DispatcherInv
  <2>2. ASSUME NEW k \in Queued(e)', IsHolder(k), k.ev.from = a
        PROVE  InCall(a) /\ k = HolderNode(a) /\ call[a].to = e /\ call[a].holder = "queued" /\ call[a].ran = 0
    BY <1>2, <1>6, <2>1, <2>2 DEF HolderIsLive
  <2>3. ASSUME Busy(e), IsHolder(cur[e]), cur[e].ev.from = a
        PROVE  /\ InCall(a) /\ cur[e] = HolderNode(a) /\ call[a].to = e /\ call[a].holder = "queued"
               /\ \A k \in Queued(e)' : Behind(k, a)'
    <3>1. /\ InCall(a) /\ cur[e] = HolderNode(a) /\ call[a].to = e /\ call[a].holder = "queued"
          /\ \A k \in Queued(e) : Behind(k, a)
      BY <2>1, <2>3 DEF HolderIsLive
    <3>2. \A k \in Queued(e)' : Behind(k, a)'
      BY <3>1, <1>1, <1>6, <1>8, <1>12, QueuedNodes
    <3> QED  BY <3>1, <3>2
  <2> QED  BY <2>2, <2>3, <1>3, <1>4, <1>9 DEF HolderIsLive, IsHolder
<1>14. \A e \in Dispatcher : \A k \in Unhandled(e)' : k \in Unhandled(e) \/ k = n
  BY <1>3, <1>6 DEF Unhandled, Queued
<1>15. \A e \in Dispatcher : \A k \in Unhandled(e) : k \in LP!Node
  BY UnhandledNodes, QueuedNodes
<1>16. ASSUME NEW e \in Dispatcher, NEW a \in Actor PROVE CallAchieves(e, a)'
  <2>1. CallAchieves(e, a)
    BY DEF DispatcherInv
  <2> QED  BY <2>1, <1>1, <1>4, <1>8, <1>12, <1>14, <1>15 DEF CallAchieves
<1>17. ASSUME NEW a \in Actor PROVE CallIsNumbered(a)'
  BY <1>1, <1>4, <1>10 DEF DispatcherInv, CallIsNumbered
<1>18. ASSUME NEW e \in Dispatcher PROVE ShutdownIsLast(e)'
  BY <1>2, <1>3, <1>1, <1>6 DEF DispatcherInv, ShutdownIsLast
<1> QED
  BY <1>5, <1>7, <1>13, <1>16, <1>17, <1>18 DEF DispatcherInv

\* sendEventSync queues its holder.
LEMMA StartSyncStep ==
    ASSUME DispatcherInv, NEW b \in Actor, NEW d \in Dispatcher, NEW job \in Job, StartSync(b, d, job)
    PROVE  DispatcherInv'
<1>0. PICK n : n = [ev |-> [kind |-> "sync", from |-> b, job |-> job], seq |-> sends]
  OBVIOUS
<1>t. /\ pc \in [Actor -> {"wait", "run", "notify", "exited", "check", "sleep", "join"}]
      /\ call \in [Actor -> CallRecord] /\ sends \in Nat
  BY DEF DispatcherInv, DispatcherTypes
<1>g. /\ pc[b] = "run" /\ pc' = [pc EXCEPT ![b] = "check"] /\ b # d /\ closing[d] = None
      /\ UNCHANGED <<cur, closing>>
      /\ call' = [call EXCEPT ![b] = [to |-> d, job |-> job, seq |-> sends, holder |-> "queued", ran |-> 0]]
      /\ Enqueue(d, [kind |-> "sync", from |-> b, job |-> job])
  BY DEF StartSync, MayUse, InProgram
<1>1. /\ mQueue' \in [Dispatcher -> Seq(LP!Node)]
      /\ sends' = sends + 1 /\ sends' \in Nat /\ sends \in Nat
      /\ \A e \in Dispatcher : LP!Ordered(mQueue'[e])
      /\ \A e \in Dispatcher : e # d => Queued(e)' = Queued(e)
      /\ Queued(d)' = Queued(d) \cup {n} /\ n \in LP!Node
  BY <1>0, <1>g, EnqueueFacts, MessageKinds
<1>2. n.seq = sends /\ n.ev.from = b /\ n.ev.kind = "sync" /\ IsHolder(n)
  BY <1>0 DEF IsHolder
<1>3. \A e \in Dispatcher : (Busy(e)' <=> Busy(e)) /\ cur'[e] = cur[e] /\ (pc'[e] = "exited" <=> pc[e] = "exited")
                            /\ pc'[e] # "join"
  <2>1. \A e \in Dispatcher : e \in Actor
    BY DEF Actor
  <2> QED  BY <1>t, <1>g, <2>1 DEF Busy, DispatcherInv, DispatcherTypes
<1>4. \A a \in Actor : a # b => (InCall(a)' <=> InCall(a)) /\ call'[a] = call[a]
  BY <1>t, <1>g DEF InCall
<1>5. /\ ~ InCall(b) /\ InCall(b)'
      /\ call'[b].to = d /\ call'[b].job = job /\ call'[b].seq = sends /\ call'[b].holder = "queued"
      /\ call'[b].ran = 0
  BY <1>t, <1>g DEF InCall
<1>6. DispatcherTypes'
  <2>1. call' \in [Actor -> CallRecord]
    <3>1. [to |-> d, job |-> job, seq |-> sends, holder |-> "queued", ran |-> 0] \in CallRecord
      BY <1>t DEF CallRecord
    <3> QED  BY <1>t, <1>g, <3>1
  <2>2. pc' \in [Actor -> {"wait", "run", "notify", "exited", "check", "sleep", "join"}]
    BY <1>t, <1>g
  <2> QED  BY <1>1, <1>3, <1>g, <2>1, <2>2 DEF DispatcherInv, DispatcherTypes
<1>7. \A e \in Dispatcher : \A k \in Queued(e)' : k \in Queued(e) \/ (e = d /\ k = n)
  BY <1>1
<1>8. ASSUME NEW e \in Dispatcher PROVE QueueInOrder(e)'
  <2>1. \A k \in Queued(e)' : k.seq < sends'
    BY <1>1, <1>2, <1>7, QueuedNodes
  <2>2. Busy(e) => cur[e] \in LP!Node /\ cur[e].seq < sends' /\ cur[e] \notin Queued(e)'
    BY <1>1, <1>2, <1>7, QueuedNodes DEF DispatcherInv, QueueInOrder
  <2>3. ~ Busy(e) => cur[e] = None
    BY DEF DispatcherInv, QueueInOrder
  <2> QED  BY <1>1, <1>3, <2>1, <2>2, <2>3 DEF QueueInOrder
<1>9. \A a \in Actor : a # b =>
         /\ HolderNode(a)' = HolderNode(a)
         /\ \A k \in LP!Node : (Behind(k, a)' <=> Behind(k, a)) /\ (Hit(k, a)' <=> Hit(k, a))
  BY <1>4 DEF Behind, Hit, HolderNode
<1>10. \A a \in Actor : call[a].seq \in Nat
  BY <1>t DEF CallRecord
<1>11. \A a \in Actor : InCall(a) => Behind(n, a) /\ ~(n.seq < call[a].seq)
  <2>1. \A a \in Actor : InCall(a) => call[a].seq < sends
    BY DEF DispatcherInv, CallIsNumbered
  <2> QED  BY <2>1, <1>1, <1>2, <1>10 DEF Behind
<1>12. n = HolderNode(b)'
  BY <1>0, <1>5 DEF HolderNode
<1>13. ASSUME NEW e \in Dispatcher, NEW a \in Actor, a # b PROVE HolderIsLive(e, a)'
  <2>1. HolderIsLive(e, a)
    BY DEF DispatcherInv
  <2>2. ASSUME NEW k \in Queued(e)', IsHolder(k), k.ev.from = a
        PROVE  InCall(a) /\ k = HolderNode(a) /\ call[a].to = e /\ call[a].holder = "queued" /\ call[a].ran = 0
    BY <1>2, <1>7, <1>13, <2>1, <2>2 DEF HolderIsLive
  <2>3. ASSUME Busy(e), IsHolder(cur[e]), cur[e].ev.from = a
        PROVE  /\ InCall(a) /\ cur[e] = HolderNode(a) /\ call[a].to = e /\ call[a].holder = "queued"
               /\ \A k \in Queued(e)' : Behind(k, a)'
    <3>1. /\ InCall(a) /\ cur[e] = HolderNode(a) /\ call[a].to = e /\ call[a].holder = "queued"
          /\ \A k \in Queued(e) : Behind(k, a)
      BY <2>1, <2>3 DEF HolderIsLive
    <3>2. \A k \in Queued(e)' : Behind(k, a)'
      BY <3>1, <1>1, <1>7, <1>9, <1>11, <1>13, QueuedNodes
    <3> QED  BY <3>1, <3>2
  <2> QED  BY <2>2, <2>3, <1>3, <1>4, <1>9, <1>13 DEF HolderIsLive, IsHolder
<1>14. ASSUME NEW e \in Dispatcher PROVE HolderIsLive(e, b)'
  <2>1. HolderIsLive(e, b)
    BY DEF DispatcherInv
  <2>2. /\ \A k \in Queued(e) : ~(IsHolder(k) /\ k.ev.from = b)
        /\ ~(Busy(e) /\ IsHolder(cur[e]) /\ cur[e].ev.from = b)
    BY <2>1, <1>5 DEF HolderIsLive
  <2>3. \A k \in Queued(e)' : IsHolder(k) /\ k.ev.from = b => e = d /\ k = n
    BY <2>2, <1>7
  <2> QED  BY <2>2, <2>3, <1>3, <1>5, <1>12 DEF HolderIsLive, IsHolder
<1>15. \A e \in Dispatcher : \A k \in Unhandled(e)' : k \in Unhandled(e) \/ k = n
  BY <1>3, <1>7 DEF Unhandled, Queued
<1>16. \A e \in Dispatcher : \A k \in Unhandled(e) : k \in LP!Node
  BY UnhandledNodes, QueuedNodes
<1>17. ASSUME NEW e \in Dispatcher, NEW a \in Actor PROVE CallAchieves(e, a)'
  <2>1. CASE a = b
    BY <2>1, <1>5 DEF CallAchieves
  <2>2. CASE a # b
    <3>1. CallAchieves(e, a)
      BY DEF DispatcherInv
    <3> QED  BY <2>2, <3>1, <1>1, <1>4, <1>9, <1>11, <1>15, <1>16 DEF CallAchieves
  <2> QED  BY <2>1, <2>2
<1>18. ASSUME NEW a \in Actor PROVE CallIsNumbered(a)'
  BY <1>1, <1>4, <1>5, <1>10 DEF DispatcherInv, CallIsNumbered
<1>19. ASSUME NEW e \in Dispatcher PROVE ShutdownIsLast(e)'
  BY <1>2, <1>3, <1>1, <1>7, <1>g DEF DispatcherInv, ShutdownIsLast
<1> QED
  BY <1>6, <1>8, <1>13, <1>14, <1>17, <1>18, <1>19 DEF DispatcherInv

\* Deleting holders that are in d's queue changes nothing about other calls,
\* and no other node is a holder of a call that loses its own.
LEMMA DeletedFacts ==
    ASSUME DispatcherInv, NEW d \in Dispatcher, NEW D, D \subseteq Queued(d)
    PROVE  /\ Deleted(D) \in [Actor -> CallRecord]
           /\ \A a \in Actor :
                /\ Deleted(D)[a].to = call[a].to /\ Deleted(D)[a].job = call[a].job
                /\ Deleted(D)[a].seq = call[a].seq /\ Deleted(D)[a].ran = call[a].ran
                /\ \/ Deleted(D)[a] = call[a]
                   \/ /\ Deleted(D)[a].holder = "deleted" /\ call[a].ran = 0
                      /\ \E n \in D : IsHolder(n) /\ n.ev.from = a
           /\ \A a \in Actor, n \in D : IsHolder(n) /\ n.ev.from = a =>
                /\ \A e \in Dispatcher : \A k \in Queued(e) :
                     IsHolder(k) /\ k.ev.from = a => e = d /\ k \in D
                /\ \A e \in Dispatcher : ~(Busy(e) /\ IsHolder(cur[e]) /\ cur[e].ev.from = a)
<1>1. call \in [Actor -> CallRecord]
  BY DEF DispatcherInv, DispatcherTypes
<1> DEFINE lost(a) == \E n \in D : n.ev.kind = "sync" /\ n.ev.from = a
           del(a) == [call[a] EXCEPT !.holder = "deleted"]
<1>2. \A a \in Actor : Deleted(D)[a] = IF lost(a) THEN del(a) ELSE call[a]
  BY DEF Deleted
<1>3. Deleted(D) = [a \in Actor |-> IF lost(a) THEN del(a) ELSE call[a]]
  BY DEF Deleted
<1>4. ASSUME NEW a \in Actor
      PROVE  /\ del(a) \in CallRecord /\ del(a).to = call[a].to /\ del(a).job = call[a].job
             /\ del(a).seq = call[a].seq /\ del(a).ran = call[a].ran /\ del(a).holder = "deleted"
  BY <1>1 DEF CallRecord
<1>5. Deleted(D) \in [Actor -> CallRecord]
  <2> HIDE DEF lost, del
  <2> QED  BY <1>1, <1>3, <1>4
<1>6. ASSUME NEW a \in Actor, NEW n \in D, IsHolder(n), n.ev.from = a
      PROVE  /\ call[a].ran = 0
             /\ \A e \in Dispatcher : \A k \in Queued(e) :
                  IsHolder(k) /\ k.ev.from = a => e = d /\ k \in D
             /\ \A e \in Dispatcher : ~(Busy(e) /\ IsHolder(cur[e]) /\ cur[e].ev.from = a)
  <2>1. n = HolderNode(a) /\ call[a].to = d /\ call[a].ran = 0 /\ n \in Queued(d)
    BY <1>6 DEF DispatcherInv, HolderIsLive
  <2>2. ASSUME NEW e \in Dispatcher, NEW k \in Queued(e), IsHolder(k), k.ev.from = a
        PROVE  e = d /\ k \in D
    BY <1>6, <2>1, <2>2 DEF DispatcherInv, HolderIsLive
  <2>3. ASSUME NEW e \in Dispatcher, Busy(e), IsHolder(cur[e]), cur[e].ev.from = a PROVE FALSE
    <3>1. cur[e] = HolderNode(a) /\ call[a].to = e
      BY <2>3 DEF DispatcherInv, HolderIsLive
    <3>2. cur[e] \notin Queued(e)
      BY <2>3 DEF DispatcherInv, QueueInOrder
    <3> QED  BY <2>1, <3>1, <3>2
  <2> QED  BY <2>1, <2>2, <2>3
<1>7. \A a \in Actor : lost(a) <=> \E n \in D : IsHolder(n) /\ n.ev.from = a
  BY DEF IsHolder
<1> HIDE DEF lost, del
<1>8. ASSUME NEW a \in Actor
      PROVE  /\ Deleted(D)[a].to = call[a].to /\ Deleted(D)[a].job = call[a].job
             /\ Deleted(D)[a].seq = call[a].seq /\ Deleted(D)[a].ran = call[a].ran
             /\ \/ Deleted(D)[a] = call[a]
                \/ /\ Deleted(D)[a].holder = "deleted" /\ call[a].ran = 0
                   /\ \E n \in D : IsHolder(n) /\ n.ev.from = a
  <2>1. CASE lost(a)
    <3>1. \E n \in D : IsHolder(n) /\ n.ev.from = a
      BY <1>7, <2>1
    <3>2. call[a].ran = 0
      BY <3>1, <1>6
    <3> QED  BY <2>1, <1>2, <1>4, <3>1, <3>2
  <2>2. CASE ~ lost(a)
    BY <2>2, <1>2
  <2> QED  BY <2>1, <2>2
<1> QED
  BY <1>5, <1>6, <1>8

\* A step that puts nothing into a queue and takes no event out to handle it.
\* Only the calls it is about need an argument of their own.
LEMMA ShrinkStep ==
    ASSUME DispatcherInv,
           mQueue' \in [Dispatcher -> Seq(LP!Node)],
           \A e \in Dispatcher : LP!Ordered(mQueue'[e]) /\ Queued(e)' \subseteq Queued(e),
           UNCHANGED <<closing, sends>>,
           pc' \in [Actor -> {"wait", "run", "notify", "exited", "check", "sleep", "join"}],
           cur' \in [Dispatcher -> LP!Node \cup {None}],
           call' \in [Actor -> CallRecord],
           \A e \in Dispatcher : /\ pc'[e] # "join"
                                 /\ Busy(e)' => Busy(e) /\ cur'[e] = cur[e]
                                 /\ ~ Busy(e)' => cur'[e] = None
                                 /\ pc'[e] = "exited" => closing[e] # None /\ Queued(e)' = {},
           \A a \in Actor :
              \/ call'[a] = call[a] /\ (InCall(a)' <=> InCall(a))
              \/ /\ CallIsNumbered(a)'
                 /\ \A e \in Dispatcher : HolderIsLive(e, a)' /\ CallAchieves(e, a)'
    PROVE  DispatcherInv'
<1>1. DispatcherTypes'
  BY DEF DispatcherInv, DispatcherTypes
<1>2. ASSUME NEW e \in Dispatcher PROVE QueueInOrder(e)'
  BY DEF DispatcherInv, QueueInOrder
<1>3. ASSUME NEW e \in Dispatcher PROVE ShutdownIsLast(e)'
  BY DEF DispatcherInv, ShutdownIsLast
<1>4. \A e \in Dispatcher : Unhandled(e)' \subseteq Unhandled(e)
  <2> SUFFICES ASSUME NEW e \in Dispatcher, NEW n \in Unhandled(e)' PROVE n \in Unhandled(e)
    OBVIOUS
  <2>1. n \in Queued(e)' \/ (n = cur'[e] /\ n # None)
    BY DEF Unhandled, Queued
  <2>2. CASE n \in Queued(e)'
    BY <2>2 DEF Unhandled, Queued
  <2>3. CASE n = cur'[e] /\ n # None
    BY <2>3 DEF Unhandled
  <2> QED  BY <2>1, <2>2, <2>3
<1>5. ASSUME NEW a \in Actor
      PROVE  /\ CallIsNumbered(a)'
             /\ \A e \in Dispatcher : HolderIsLive(e, a)' /\ CallAchieves(e, a)'
  <2> SUFFICES ASSUME call'[a] = call[a], InCall(a)' <=> InCall(a)
               PROVE  /\ CallIsNumbered(a)'
                      /\ \A e \in Dispatcher : HolderIsLive(e, a)' /\ CallAchieves(e, a)'
    OBVIOUS
  <2>1. CallIsNumbered(a)'
    BY DEF DispatcherInv, CallIsNumbered
  <2>2. /\ HolderNode(a)' = HolderNode(a)
        /\ \A k : (Behind(k, a)' <=> Behind(k, a)) /\ (Hit(k, a)' <=> Hit(k, a))
    BY DEF HolderNode, Behind, Hit
  <2>3. ASSUME NEW e \in Dispatcher PROVE CallAchieves(e, a)'
    <3>1. CallAchieves(e, a)
      BY DEF DispatcherInv
    <3> QED  BY <3>1, <2>2, <1>4 DEF CallAchieves
  <2>4. ASSUME NEW e \in Dispatcher PROVE HolderIsLive(e, a)'
    <3>1. HolderIsLive(e, a)
      BY DEF DispatcherInv
    <3>2. \A n \in Queued(e)' : IsHolder(n) /\ n.ev.from = a =>
            /\ InCall(a)' /\ n = HolderNode(a)'
            /\ call'[a].to = e /\ call'[a].holder = "queued" /\ call'[a].ran = 0
      BY <3>1, <2>2 DEF HolderIsLive
    <3>3. Busy(e)' /\ IsHolder(cur'[e]) /\ cur'[e].ev.from = a =>
            /\ InCall(a)' /\ cur'[e] = HolderNode(a)'
            /\ call'[a].to = e /\ call'[a].holder = "queued"
            /\ \A n \in Queued(e)' : Behind(n, a)'
      BY <3>1, <2>2 DEF HolderIsLive
    <3> QED  BY <3>2, <3>3 DEF HolderIsLive, IsHolder
  <2> QED  BY <2>1, <2>3, <2>4
<1> QED
  BY <1>1, <1>2, <1>3, <1>5 DEF DispatcherInv

\* The types, for the steps.
LEMMA StepTypes ==
    ASSUME DispatcherInv
    PROVE  /\ mQueue \in [Dispatcher -> Seq(LP!Node)]
           /\ pc \in [Actor -> {"wait", "run", "notify", "exited", "check", "sleep", "join"}]
           /\ cur \in [Dispatcher -> LP!Node \cup {None}] /\ call \in [Actor -> CallRecord]
           /\ \A e \in Dispatcher :
                /\ e \in Actor /\ pc[e] # "join" /\ LP!Ordered(mQueue[e])
                /\ (~ Busy(e) => cur[e] = None)
                /\ (pc[e] = "exited" => closing[e] # None /\ Queued(e) = {})
  BY DEF DispatcherInv, DispatcherTypes, QueueInOrder, ShutdownIsLast, Actor

\* Removing nodes from d's queue, by a handler of d or at the end of d.
LEMMA RemoveStep ==
    ASSUME DispatcherInv, NEW d \in Dispatcher, NEW D, D \subseteq Queued(d),
           mQueue' = [mQueue EXCEPT ![d] = Erase(@, D)], call' = Deleted(D),
           UNCHANGED <<closing, sends>>, Busy(d),
           \/ UNCHANGED <<pc, cur>>
           \/ /\ pc[d] = "run" /\ D = Queued(d) /\ closing[d] # None
              /\ pc' = [pc EXCEPT ![d] = "exited"] /\ cur' = [cur EXCEPT ![d] = None]
    PROVE  DispatcherInv'
<1>1. /\ mQueue' \in [Dispatcher -> Seq(LP!Node)]
      /\ \A e \in Dispatcher : LP!Ordered(mQueue'[e])
      /\ \A e \in Dispatcher : e # d => Queued(e)' = Queued(e)
      /\ Queued(d)' = Queued(d) \ D
  BY EraseFacts
<1>2. \A e \in Dispatcher : LP!Ordered(mQueue'[e]) /\ Queued(e)' \subseteq Queued(e)
  BY <1>1
<1>3. /\ pc' \in [Actor -> {"wait", "run", "notify", "exited", "check", "sleep", "join"}]
      /\ cur' \in [Dispatcher -> LP!Node \cup {None}]
  BY StepTypes
<1>4. call' \in [Actor -> CallRecord]
  BY DeletedFacts
<1>5. ASSUME NEW e \in Dispatcher
      PROVE  /\ pc'[e] # "join"
             /\ Busy(e)' => Busy(e) /\ cur'[e] = cur[e]
             /\ ~ Busy(e)' => cur'[e] = None
             /\ pc'[e] = "exited" => closing[e] # None /\ Queued(e)' = {}
  <2>1. CASE UNCHANGED <<pc, cur>>
    BY <2>1, <1>2, StepTypes DEF Busy
  <2>2. CASE ~ UNCHANGED <<pc, cur>>
    <3>1. /\ pc[d] = "run" /\ D = Queued(d) /\ closing[d] # None
          /\ pc' = [pc EXCEPT ![d] = "exited"] /\ cur' = [cur EXCEPT ![d] = None]
      BY <2>2
    <3>2. CASE e = d
      BY <3>1, <3>2, <1>1, StepTypes DEF Busy
    <3>3. CASE e # d
      BY <3>1, <3>3, <1>1, StepTypes DEF Busy
    <3> QED  BY <3>2, <3>3
  <2> QED  BY <2>1, <2>2
<1>6. \A a \in Actor : InCall(a)' <=> InCall(a)
  BY StepTypes DEF InCall
<1>7. ASSUME NEW a \in Actor, call'[a] # call[a]
      PROVE  /\ CallIsNumbered(a)'
             /\ \A e \in Dispatcher : HolderIsLive(e, a)' /\ CallAchieves(e, a)'
  <2>1. /\ call'[a].to = call[a].to /\ call'[a].job = call[a].job
        /\ call'[a].seq = call[a].seq /\ call'[a].ran = call[a].ran
        /\ call'[a].holder = "deleted" /\ call[a].ran = 0
        /\ \E n \in D : IsHolder(n) /\ n.ev.from = a
    BY <1>7, DeletedFacts
  <2>2. /\ \A e \in Dispatcher : \A k \in Queued(e) :
             IsHolder(k) /\ k.ev.from = a => e = d /\ k \in D
        /\ \A e \in Dispatcher : ~(Busy(e) /\ IsHolder(cur[e]) /\ cur[e].ev.from = a)
    BY <2>1, DeletedFacts
  <2>3. CallIsNumbered(a)'
    BY <2>1, <1>6 DEF DispatcherInv, CallIsNumbered
  <2>4. ASSUME NEW e \in Dispatcher PROVE CallAchieves(e, a)'
    BY <2>1 DEF CallAchieves
  <2>5. ASSUME NEW e \in Dispatcher PROVE HolderIsLive(e, a)'
    <3>1. \A k \in Queued(e)' : ~(IsHolder(k) /\ k.ev.from = a)
      BY <1>1, <2>2
    <3>2. ~(Busy(e)' /\ IsHolder(cur'[e]) /\ cur'[e].ev.from = a)
      BY <1>5, <2>2
    <3> QED  BY <3>1, <3>2 DEF HolderIsLive, IsHolder
  <2> QED  BY <2>3, <2>4, <2>5
<1> QED
  BY <1>1, <1>2, <1>3, <1>4, <1>5, <1>6, <1>7, ShrinkStep

\* A step that only changes the pc of threads that are in the same call after
\* it, or that only ends the handling of an event that is no holder.
LEMMA QuietStep ==
    ASSUME DispatcherInv, UNCHANGED <<mQueue, call, closing, sends>>,
           pc' \in [Actor -> {"wait", "run", "notify", "exited", "check", "sleep", "join"}],
           cur' \in [Dispatcher -> LP!Node \cup {None}],
           \A e \in Dispatcher : /\ pc'[e] # "join"
                                 /\ Busy(e)' => Busy(e) /\ cur'[e] = cur[e]
                                 /\ ~ Busy(e)' => cur'[e] = None
                                 /\ pc'[e] = "exited" => pc[e] = "exited",
           \A a \in Actor : InCall(a)' <=> InCall(a)
    PROVE  DispatcherInv'
<1>1. /\ mQueue' \in [Dispatcher -> Seq(LP!Node)] /\ call' \in [Actor -> CallRecord]
      /\ \A e \in Dispatcher : LP!Ordered(mQueue'[e])
  BY StepTypes
<1>2. \A e \in Dispatcher : Queued(e)' = Queued(e)
  BY DEF Queued
<1>3. \A e \in Dispatcher : pc'[e] = "exited" => closing[e] # None /\ Queued(e)' = {}
  BY <1>2, StepTypes
<1> QED
  BY <1>1, <1>2, <1>3, ShrinkStep

LEMMA FinishEventStep ==
    ASSUME DispatcherInv, NEW d \in Dispatcher, FinishEvent(d)
    PROVE  DispatcherInv'
<1>1. /\ pc' \in [Actor -> {"wait", "run", "notify", "exited", "check", "sleep", "join"}]
      /\ cur' \in [Dispatcher -> LP!Node \cup {None}]
  BY StepTypes DEF FinishEvent
<1>2. ASSUME NEW e \in Dispatcher
      PROVE  /\ pc'[e] # "join"
             /\ Busy(e)' => Busy(e) /\ cur'[e] = cur[e]
             /\ ~ Busy(e)' => cur'[e] = None
             /\ pc'[e] = "exited" => pc[e] = "exited"
  BY StepTypes DEF FinishEvent, Busy
<1>3. \A a \in Actor : InCall(a)' <=> InCall(a)
  BY StepTypes DEF FinishEvent, InCall
<1> QED
  BY <1>1, <1>2, <1>3, QuietStep DEF FinishEvent

LEMMA BroadcastStep ==
    ASSUME DispatcherInv, NEW d \in Dispatcher, Broadcast(d)
    PROVE  DispatcherInv'
<1>1. /\ pc' \in [Actor -> {"wait", "run", "notify", "exited", "check", "sleep", "join"}]
      /\ cur' \in [Dispatcher -> LP!Node \cup {None}]
  BY StepTypes DEF Broadcast
<1>2. \A a \in Actor : \/ pc'[a] = pc[a]
                       \/ a = d /\ pc[a] = "notify" /\ pc'[a] = "wait"
                       \/ pc[a] = "sleep" /\ pc'[a] = "check"
  BY StepTypes DEF Broadcast
<1>3. ASSUME NEW e \in Dispatcher
      PROVE  /\ pc'[e] # "join"
             /\ Busy(e)' => Busy(e) /\ cur'[e] = cur[e]
             /\ ~ Busy(e)' => cur'[e] = None
             /\ pc'[e] = "exited" => pc[e] = "exited"
  BY <1>2, StepTypes DEF Broadcast, Busy
<1>4. \A a \in Actor : InCall(a)' <=> InCall(a)
  BY <1>2, StepTypes DEF InCall
<1> QED
  BY <1>1, <1>3, <1>4, QuietStep DEF Broadcast

LEMMA JoinStep ==
    ASSUME DispatcherInv, NEW c \in Actor, Join(c)
    PROVE  DispatcherInv'
<1>1. /\ pc' \in [Actor -> {"wait", "run", "notify", "exited", "check", "sleep", "join"}]
      /\ cur' \in [Dispatcher -> LP!Node \cup {None}]
  BY StepTypes DEF Join
<1>2. \A a \in Actor : pc'[a] = pc[a] \/ (pc[a] = "join" /\ pc'[a] = "run")
  BY StepTypes DEF Join
<1>3. ASSUME NEW e \in Dispatcher
      PROVE  /\ pc'[e] # "join"
             /\ Busy(e)' => Busy(e) /\ cur'[e] = cur[e]
             /\ ~ Busy(e)' => cur'[e] = None
             /\ pc'[e] = "exited" => pc[e] = "exited"
  BY <1>2, StepTypes DEF Join, Busy
<1>4. \A a \in Actor : InCall(a)' <=> InCall(a)
  BY <1>2, StepTypes DEF InCall
<1> QED
  BY <1>1, <1>3, <1>4, QuietStep DEF Join

\* sendEventSync goes to sleep, or returns: then no node of the call is left.
LEMMA CheckDoneStep ==
    ASSUME DispatcherInv, NEW b \in Actor, CheckDone(b)
    PROVE  DispatcherInv'
<1>1. CASE call[b].holder # "done"
  <2>1. pc[b] = "check" /\ pc' = [pc EXCEPT ![b] = "sleep"] /\ UNCHANGED <<mQueue, cur, call, closing, sends>>
    BY <1>1 DEF CheckDone
  <2>2. /\ pc' \in [Actor -> {"wait", "run", "notify", "exited", "check", "sleep", "join"}]
        /\ cur' \in [Dispatcher -> LP!Node \cup {None}]
    BY <2>1, StepTypes
  <2>3. ASSUME NEW e \in Dispatcher
        PROVE  /\ pc'[e] # "join"
               /\ Busy(e)' => Busy(e) /\ cur'[e] = cur[e]
               /\ ~ Busy(e)' => cur'[e] = None
               /\ pc'[e] = "exited" => pc[e] = "exited"
    BY <2>1, StepTypes DEF Busy
  <2>4. \A a \in Actor : InCall(a)' <=> InCall(a)
    BY <2>1, StepTypes DEF InCall
  <2> QED
    BY <2>1, <2>2, <2>3, <2>4, QuietStep
<1>2. CASE call[b].holder = "done"
  <2>1. /\ pc[b] = "check" /\ pc' = [pc EXCEPT ![b] = "run"] /\ call' = [call EXCEPT ![b] = NoCall]
        /\ UNCHANGED <<mQueue, cur, closing, sends>>
    BY <1>2 DEF CheckDone
  <2>2. /\ pc' \in [Actor -> {"wait", "run", "notify", "exited", "check", "sleep", "join"}]
        /\ cur' \in [Dispatcher -> LP!Node \cup {None}]
        /\ mQueue' \in [Dispatcher -> Seq(LP!Node)]
        /\ \A e \in Dispatcher : LP!Ordered(mQueue'[e]) /\ Queued(e)' \subseteq Queued(e)
    BY <2>1, StepTypes DEF Queued
  <2>3. call' \in [Actor -> CallRecord]
    <3>1. NoCall \in CallRecord
      BY DEF NoCall, CallRecord
    <3> QED  BY <2>1, <3>1, StepTypes
  <2>4. ASSUME NEW e \in Dispatcher
        PROVE  /\ pc'[e] # "join"
               /\ Busy(e)' => Busy(e) /\ cur'[e] = cur[e]
               /\ ~ Busy(e)' => cur'[e] = None
               /\ pc'[e] = "exited" => closing[e] # None /\ Queued(e)' = {}
    BY <2>1, <2>2, StepTypes DEF Busy
  <2>5. \A a \in Actor : a # b => call'[a] = call[a] /\ (InCall(a)' <=> InCall(a))
    BY <2>1, StepTypes DEF InCall
  <2>6. ~ InCall(b)'
    BY <2>1, StepTypes DEF InCall
  <2>7. /\ CallIsNumbered(b)'
        /\ \A e \in Dispatcher : HolderIsLive(e, b)' /\ CallAchieves(e, b)'
    <3>1. CallIsNumbered(b)' /\ \A e \in Dispatcher : CallAchieves(e, b)'
      BY <2>6 DEF CallIsNumbered, CallAchieves
    <3>2. ASSUME NEW e \in Dispatcher PROVE HolderIsLive(e, b)'
      <4>1. HolderIsLive(e, b)
        BY DEF DispatcherInv
      <4>2. /\ \A n \in Queued(e) : ~(IsHolder(n) /\ n.ev.from = b)
            /\ ~(Busy(e) /\ IsHolder(cur[e]) /\ cur[e].ev.from = b)
        BY <4>1, <1>2 DEF HolderIsLive
      <4> QED  BY <4>2, <2>2, <2>4 DEF HolderIsLive, IsHolder
    <3> QED  BY <3>1, <3>2
  <2> QED
    BY <2>1, <2>2, <2>3, <2>4, <2>5, <2>7, ShrinkStep
<1> QED
  BY <1>1, <1>2

\* The job of a holder has been run; mDone is set.  Everything still queued
\* comes after the call.
LEMMA FinishSyncStep ==
    ASSUME DispatcherInv, NEW d \in Dispatcher, FinishSync(d)
    PROVE  DispatcherInv'
<1>0. PICK b : b = cur[d].ev.from
  OBVIOUS
<1>1. /\ pc[d] = "run" /\ IsHolder(cur[d]) /\ call[b].ran = 1 /\ Busy(d)
      /\ call' = [call EXCEPT ![b].holder = "done"]
      /\ cur' = [cur EXCEPT ![d] = None] /\ pc' = [pc EXCEPT ![d] = "notify"]
      /\ UNCHANGED <<mQueue, closing, sends>>
  BY <1>0 DEF FinishSync, IsHolder, Busy
<1>2. b \in Actor
  BY <1>0, <1>1, QueuedNodes, MessageKinds DEF IsHolder
<1>3. /\ pc' \in [Actor -> {"wait", "run", "notify", "exited", "check", "sleep", "join"}]
      /\ cur' \in [Dispatcher -> LP!Node \cup {None}]
      /\ mQueue' \in [Dispatcher -> Seq(LP!Node)]
      /\ \A e \in Dispatcher : LP!Ordered(mQueue'[e]) /\ Queued(e)' = Queued(e)
  BY <1>1, StepTypes DEF Queued
<1>4. /\ call' \in [Actor -> CallRecord]
      /\ call'[b].to = call[b].to /\ call'[b].job = call[b].job /\ call'[b].seq = call[b].seq
      /\ call'[b].ran = 1 /\ call'[b].holder = "done"
      /\ \A a \in Actor : a # b => call'[a] = call[a]
  BY <1>1, <1>2, StepTypes, ZenonT(60) DEF CallRecord
<1>5. ASSUME NEW e \in Dispatcher
      PROVE  /\ pc'[e] # "join"
             /\ Busy(e)' => Busy(e) /\ cur'[e] = cur[e] /\ e # d
             /\ ~ Busy(e)' => cur'[e] = None
             /\ pc'[e] = "exited" => closing[e] # None /\ Queued(e)' = {}
  BY <1>1, <1>3, StepTypes DEF Busy
<1>6. \A a \in Actor : InCall(a)' <=> InCall(a)
  BY <1>1, StepTypes DEF InCall
<1>7. /\ InCall(b) /\ cur[d] = HolderNode(b) /\ call[b].to = d /\ call[b].holder = "queued"
      /\ \A n \in Queued(d) : Behind(n, b)
  BY <1>0, <1>1, <1>2 DEF DispatcherInv, HolderIsLive
<1>8. CallIsNumbered(b)'
  BY <1>1, <1>2, <1>4, <1>6 DEF DispatcherInv, CallIsNumbered
<1>9. \A n : (Behind(n, b)' <=> Behind(n, b)) /\ (Hit(n, b)' <=> Hit(n, b))
  BY <1>4 DEF Behind, Hit
<1>10. Unhandled(d)' = Queued(d) /\ Queued(d) \subseteq Unhandled(d)
  <2>1. cur'[d] = None
    BY <1>1, StepTypes
  <2> QED  BY <1>3, <2>1 DEF Unhandled, Queued
<1>11. ASSUME NEW e \in Dispatcher PROVE CallAchieves(e, b)'
  <2>1. CASE e # d
    BY <2>1, <1>4, <1>7 DEF CallAchieves
  <2>2. CASE e = d
    <3>1. CallAchieves(d, b)
      BY <1>2 DEF DispatcherInv
    <3> QED  BY <2>2, <3>1, <1>1, <1>4, <1>6, <1>7, <1>9, <1>10 DEF CallAchieves
  <2> QED  BY <2>1, <2>2
<1>12. ASSUME NEW e \in Dispatcher PROVE HolderIsLive(e, b)'
  <2>1. HolderIsLive(e, b)
    BY <1>2 DEF DispatcherInv
  <2>2. \A n \in Queued(e)' : ~(IsHolder(n) /\ n.ev.from = b)
    BY <2>1, <1>1, <1>3 DEF HolderIsLive
  <2>3. ~(Busy(e)' /\ IsHolder(cur'[e]) /\ cur'[e].ev.from = b)
    BY <2>1, <1>5, <1>7 DEF HolderIsLive
  <2> QED  BY <2>2, <2>3 DEF HolderIsLive, IsHolder
<1> QED
  BY <1>1, <1>3, <1>4, <1>5, <1>6, <1>8, <1>11, <1>12, ShrinkStep

\* The holder's job is run: afterwards nothing it is about is left that was
\* sent before the call.
LEMMA DeliverSyncStep ==
    ASSUME DispatcherInv, NEW d \in Dispatcher, DeliverSync(d)
    PROVE  DispatcherInv'
<1>0. PICK b, D : b = cur[d].ev.from /\ D = Doomed(d, cur[d].ev.job)
  OBVIOUS
<1>1. /\ pc[d] = "run" /\ IsHolder(cur[d]) /\ call[b].ran = 0 /\ Busy(d)
      /\ mQueue' = [mQueue EXCEPT ![d] = Erase(@, D)]
      /\ call' = [Deleted(D) EXCEPT ![b].ran = 1]
      /\ UNCHANGED <<pc, cur, closing, sends>>
  BY <1>0, SMTT(40) DEF DeliverSync, IsHolder, Busy
<1>2. b \in Actor /\ D \subseteq Queued(d)
  BY <1>0, <1>1, QueuedNodes, MessageKinds DEF IsHolder, Doomed, Queued
<1>3. /\ mQueue' \in [Dispatcher -> Seq(LP!Node)]
      /\ \A e \in Dispatcher : LP!Ordered(mQueue'[e])
      /\ \A e \in Dispatcher : e # d => Queued(e)' = Queued(e)
      /\ Queued(d)' = Queued(d) \ D
  BY <1>1, EraseFacts
<1>4. \A e \in Dispatcher : LP!Ordered(mQueue'[e]) /\ Queued(e)' \subseteq Queued(e)
  BY <1>3
<1>5. /\ InCall(b) /\ cur[d] = HolderNode(b) /\ call[b].to = d /\ call[b].holder = "queued"
      /\ \A n \in Queued(d) : Behind(n, b)
  BY <1>0, <1>1, <1>2 DEF DispatcherInv, HolderIsLive
<1>6. /\ Deleted(D) \in [Actor -> CallRecord]
      /\ Deleted(D)[b] = call[b]
  <2>1. Deleted(D) \in [Actor -> CallRecord]
    BY <1>2, DeletedFacts
  <2>2. ~ \E n \in D : IsHolder(n) /\ n.ev.from = b
    BY <1>0, <1>1, <1>2, DeletedFacts
  <2> QED  BY <1>2, <2>1, <2>2, DeletedFacts
<1>7. /\ call' \in [Actor -> CallRecord]
      /\ call'[b].to = call[b].to /\ call'[b].job = call[b].job /\ call'[b].seq = call[b].seq
      /\ call'[b].ran = 1 /\ call'[b].holder = call[b].holder
      /\ \A a \in Actor : a # b => call'[a] = Deleted(D)[a]
  BY <1>1, <1>2, <1>6 DEF CallRecord
<1>8. ASSUME NEW e \in Dispatcher
      PROVE  /\ pc'[e] # "join" /\ (Busy(e)' <=> Busy(e)) /\ cur'[e] = cur[e]
             /\ ~ Busy(e)' => cur'[e] = None
             /\ pc'[e] = "exited" => closing[e] # None /\ Queued(e)' = {}
  BY <1>1, <1>4, StepTypes DEF Busy
<1>9. \A a \in Actor : InCall(a)' <=> InCall(a)
  BY <1>1 DEF InCall
<1>10. ASSUME NEW a \in Actor, a # b, call'[a] # call[a]
      PROVE  /\ CallIsNumbered(a)'
             /\ \A e \in Dispatcher : HolderIsLive(e, a)' /\ CallAchieves(e, a)'
  <2>1. /\ call'[a].to = call[a].to /\ call'[a].job = call[a].job
        /\ call'[a].seq = call[a].seq /\ call'[a].ran = call[a].ran
        /\ call'[a].holder = "deleted" /\ call[a].ran = 0
        /\ \E n \in D : IsHolder(n) /\ n.ev.from = a
    BY <1>2, <1>7, <1>10, DeletedFacts
  <2>2. /\ \A e \in Dispatcher : \A k \in Queued(e) :
             IsHolder(k) /\ k.ev.from = a => e = d /\ k \in D
        /\ \A e \in Dispatcher : ~(Busy(e) /\ IsHolder(cur[e]) /\ cur[e].ev.from = a)
    <3>1. PICK n \in D : IsHolder(n) /\ n.ev.from = a
      BY <2>1
    <3> QED  BY <1>2, <3>1, DeletedFacts
  <2>3. CallIsNumbered(a)'
    BY <2>1, <1>1, <1>9 DEF DispatcherInv, CallIsNumbered
  <2>4. ASSUME NEW e \in Dispatcher PROVE CallAchieves(e, a)'
    BY <2>1 DEF CallAchieves
  <2>5. ASSUME NEW e \in Dispatcher PROVE HolderIsLive(e, a)'
    <3>1. \A k \in Queued(e)' : ~(IsHolder(k) /\ k.ev.from = a)
      BY <1>3, <2>2
    <3>2. ~(Busy(e)' /\ IsHolder(cur'[e]) /\ cur'[e].ev.from = a)
      BY <1>8, <2>2
    <3> QED  BY <3>1, <3>2 DEF HolderIsLive, IsHolder
  <2> QED  BY <2>3, <2>4, <2>5
<1>11. CallIsNumbered(b)'
  BY <1>1, <1>2, <1>7, <1>9 DEF DispatcherInv, CallIsNumbered
<1>12. \A n : (Behind(n, b)' <=> Behind(n, b)) /\ (Hit(n, b)' <=> Hit(n, b))
  BY <1>7 DEF Behind, Hit
<1>13. HolderNode(b)' = HolderNode(b)
  BY <1>7 DEF HolderNode
<1>14. \A n \in Unhandled(d)' : n.seq < call[b].seq => ~ Hit(n, b)
  <2> SUFFICES ASSUME NEW n \in Unhandled(d)', n.seq < call[b].seq PROVE ~ Hit(n, b)
    OBVIOUS
  <2>1. cur[d].ev.job = call[b].job /\ cur[d].seq = call[b].seq
    BY <1>5 DEF HolderNode
  <2>2. call[b].seq \in Nat
    BY <1>2, StepTypes DEF CallRecord
  <2>3. n \in Queued(d)' \/ n = cur[d]
    BY <1>1 DEF Unhandled, Queued
  <2>4. n \in Queued(d) \ D
    BY <1>3, <2>1, <2>2, <2>3
  <2> QED  BY <1>0, <2>1, <2>4 DEF Doomed, Queued, Hit
<1>15. ASSUME NEW e \in Dispatcher PROVE CallAchieves(e, b)'
  BY <1>5, <1>7, <1>12, <1>14 DEF CallAchieves
<1>16. ASSUME NEW e \in Dispatcher PROVE HolderIsLive(e, b)'
  <2>1. HolderIsLive(e, b)
    BY <1>2 DEF DispatcherInv
  <2>2. \A n \in Queued(e)' : ~(IsHolder(n) /\ n.ev.from = b)
    <3> SUFFICES ASSUME NEW n \in Queued(e)', IsHolder(n), n.ev.from = b PROVE FALSE
      OBVIOUS
    <3>1. n \in Queued(e) /\ n = HolderNode(b) /\ call[b].to = e
      BY <1>4, <2>1 DEF HolderIsLive
    <3>2. cur[d] \notin Queued(d)
      BY <1>1 DEF DispatcherInv, QueueInOrder
    <3> QED  BY <3>1, <3>2, <1>5
  <2>3. Busy(e)' /\ IsHolder(cur'[e]) /\ cur'[e].ev.from = b =>
          /\ InCall(b)' /\ cur'[e] = HolderNode(b)'
          /\ call'[b].to = e /\ call'[b].holder = "queued"
          /\ \A n \in Queued(e)' : Behind(n, b)'
    BY <2>1, <1>2, <1>4, <1>7, <1>8, <1>9, <1>12, <1>13 DEF HolderIsLive
  <2> QED  BY <2>2, <2>3 DEF HolderIsLive, IsHolder
<1>17. ASSUME NEW a \in Actor
       PROVE  \/ call'[a] = call[a] /\ (InCall(a)' <=> InCall(a))
              \/ /\ CallIsNumbered(a)'
                 /\ \A e \in Dispatcher : HolderIsLive(e, a)' /\ CallAchieves(e, a)'
  <2>1. CASE a = b
    BY <2>1, <1>11, <1>15, <1>16
  <2>2. CASE a # b
    BY <2>2, <1>9, <1>10
  <2> QED  BY <2>1, <2>2
<1>18. /\ pc' \in [Actor -> {"wait", "run", "notify", "exited", "check", "sleep", "join"}]
       /\ cur' \in [Dispatcher -> LP!Node \cup {None}]
  BY <1>1, StepTypes
<1> QED
  BY <1>1, <1>3, <1>4, <1>7, <1>8, <1>17, <1>18, ShrinkStep

\* WaitEvent returns the head of the queue: when that is a holder, everything
\* left in the queue comes after its call.
LEMMA TakeStep ==
    ASSUME DispatcherInv, NEW d \in Dispatcher, Take(d)
    PROVE  DispatcherInv'
<1>0. PICK h : h = Head(mQueue[d])
  OBVIOUS
<1>1. /\ pc[d] = "wait" /\ mQueue[d] # <<>> /\ cur' = [cur EXCEPT ![d] = h]
      /\ mQueue' = [mQueue EXCEPT ![d] = Tail(@)] /\ pc' = [pc EXCEPT ![d] = "run"]
      /\ UNCHANGED <<call, closing, sends>>
  BY <1>0 DEF Take
<1>2. mQueue[d] \in Seq(LP!Node) /\ LP!Ordered(mQueue[d])
  BY QueuedNodes
<1>3. /\ Tail(mQueue[d]) \in Seq(LP!Node) /\ LP!Ordered(Tail(mQueue[d]))
      /\ h \in Queued(d) /\ h \in LP!Node
      /\ List!Nodes(Tail(mQueue[d])) = Queued(d) \ {h}
      /\ \A n \in List!Nodes(Tail(mQueue[d])) :
           n.seq > h.seq \/ MessagePriority[n.ev] < MessagePriority[h.ev]
  BY <1>0, <1>1, <1>2, TakenHead DEF Queued
<1>4. mQueue'[d] = Tail(mQueue[d]) /\ \A e \in Dispatcher : e # d => mQueue'[e] = mQueue[e]
  BY <1>1, StepTypes
<1>5. Queued(d)' = Queued(d) \ {h} /\ \A e \in Dispatcher : e # d => Queued(e)' = Queued(e)
  BY <1>3, <1>4 DEF Queued
<1>6. \A e \in Dispatcher : Queued(e)' \subseteq Queued(e)
  BY <1>5
<1>7. /\ cur'[d] = h /\ ~ Busy(d) /\ Busy(d)' /\ pc'[d] = "run" /\ cur[d] = None
      /\ \A e \in Dispatcher : e # d => /\ (Busy(e)' <=> Busy(e)) /\ cur'[e] = cur[e] /\ pc'[e] = pc[e]
  BY <1>1, StepTypes DEF Busy
<1>8. \A a \in Actor : (InCall(a)' <=> InCall(a)) /\ call'[a] = call[a]
  BY <1>1, StepTypes DEF InCall
<1>9. DispatcherTypes'
  <2>1. /\ pc' \in [Actor -> {"wait", "run", "notify", "exited", "check", "sleep", "join"}]
        /\ cur' \in [Dispatcher -> LP!Node \cup {None}]
        /\ mQueue' \in [Dispatcher -> Seq(LP!Node)]
    BY <1>1, <1>3, StepTypes
  <2>2. \A e \in Dispatcher : pc'[e] # "join"
    BY <1>7, StepTypes
  <2> QED  BY <1>1, <2>1, <2>2 DEF DispatcherInv, DispatcherTypes
<1>10. ASSUME NEW e \in Dispatcher PROVE QueueInOrder(e)'
  <2>1. LP!Ordered(mQueue'[e])
    BY <1>3, <1>4, StepTypes
  <2>2. QueueInOrder(e)
    BY DEF DispatcherInv
  <2>3. CASE e = d
    <3>1. h.seq < sends
      BY <1>3, QueuedNodes
    <3> QED  BY <2>1, <2>2, <2>3, <3>1, <1>1, <1>3, <1>5, <1>7 DEF QueueInOrder
  <2>4. CASE e # d
    BY <2>1, <2>2, <2>4, <1>1, <1>5, <1>7 DEF QueueInOrder
  <2> QED  BY <2>3, <2>4
<1>11. \A a \in Actor : /\ HolderNode(a)' = HolderNode(a)
                        /\ \A k : (Behind(k, a)' <=> Behind(k, a)) /\ (Hit(k, a)' <=> Hit(k, a))
  BY <1>8 DEF HolderNode, Behind, Hit
<1>12. ASSUME NEW e \in Dispatcher, NEW a \in Actor PROVE HolderIsLive(e, a)'
  <2>1. HolderIsLive(e, a)
    BY DEF DispatcherInv
  <2>2. \A n \in Queued(e)' : IsHolder(n) /\ n.ev.from = a =>
          /\ InCall(a)' /\ n = HolderNode(a)'
          /\ call'[a].to = e /\ call'[a].holder = "queued" /\ call'[a].ran = 0
    BY <2>1, <1>6, <1>8, <1>11 DEF HolderIsLive
  <2>3. CASE e # d
    <3>1. Busy(e)' /\ IsHolder(cur'[e]) /\ cur'[e].ev.from = a =>
            /\ InCall(a)' /\ cur'[e] = HolderNode(a)'
            /\ call'[a].to = e /\ call'[a].holder = "queued"
            /\ \A n \in Queued(e)' : Behind(n, a)'
      BY <2>1, <2>3, <1>6, <1>7, <1>8, <1>11 DEF HolderIsLive
    <3> QED  BY <2>2, <3>1 DEF HolderIsLive, IsHolder
  <2>4. CASE e = d
    <3>1. ASSUME IsHolder(h), h.ev.from = a
          PROVE  /\ InCall(a) /\ h = HolderNode(a) /\ call[a].to = d /\ call[a].holder = "queued"
                 /\ \A n \in Queued(d)' : Behind(n, a)
      <4>1. InCall(a) /\ h = HolderNode(a) /\ call[a].to = d /\ call[a].holder = "queued"
        BY <2>1, <2>4, <3>1, <1>3 DEF HolderIsLive
      <4>2. h.ev.job = call[a].job /\ h.seq = call[a].seq /\ h.ev.kind = "sync"
        BY <4>1 DEF HolderNode
      <4>3. MessagePriority[h.ev] = IF call[a].job = "call" THEN 0 ELSE 1
        BY <4>2, <1>3, QueuedNodes, MessagePriorities
      <4>4. ASSUME NEW n \in Queued(d)' PROVE Behind(n, a)
        <5>1. n \in List!Nodes(Tail(mQueue[d])) /\ n \in Queued(d)
          BY <1>3, <1>5
        <5>2. n.seq > h.seq \/ MessagePriority[n.ev] < MessagePriority[h.ev]
          BY <1>3, <5>1
        <5>3. n.seq \in Nat /\ h.seq \in Nat
          BY <1>3, <5>1, QueuedNodes
        <5> QED  BY <4>2, <4>3, <5>2, <5>3 DEF Behind
      <4> QED  BY <4>1, <4>4
    <3> QED  BY <2>2, <2>4, <3>1, <1>7, <1>8, <1>11 DEF HolderIsLive, IsHolder
  <2> QED  BY <2>3, <2>4
<1>13. \A e \in Dispatcher : Unhandled(e)' \subseteq Unhandled(e)
  <2> SUFFICES ASSUME NEW e \in Dispatcher, NEW n \in Unhandled(e)' PROVE n \in Unhandled(e)
    OBVIOUS
  <2>1. n \in Queued(e)' \/ (n = cur'[e] /\ n # None)
    BY DEF Unhandled, Queued
  <2>2. n \in Queued(e) \/ (n = cur[e] /\ n # None)
    BY <2>1, <1>3, <1>6, <1>7
  <2> QED  BY <2>2 DEF Unhandled, Queued
<1>14. ASSUME NEW e \in Dispatcher, NEW a \in Actor PROVE CallAchieves(e, a)'
  <2>1. CallAchieves(e, a)
    BY DEF DispatcherInv
  <2> QED  BY <2>1, <1>8, <1>11, <1>13 DEF CallAchieves
<1>15. ASSUME NEW a \in Actor PROVE CallIsNumbered(a)'
  BY <1>1, <1>8 DEF DispatcherInv, CallIsNumbered
<1>16. ASSUME NEW e \in Dispatcher PROVE ShutdownIsLast(e)'
  <2>1. ShutdownIsLast(e)
    BY DEF DispatcherInv
  <2>2. CASE e = d
    BY <2>1, <2>2, <1>1, <1>3, <1>6, <1>7 DEF ShutdownIsLast
  <2>3. CASE e # d
    BY <2>1, <2>3, <1>1, <1>5, <1>7 DEF ShutdownIsLast
  <2> QED  BY <2>2, <2>3
<1> QED
  BY <1>9, <1>10, <1>12, <1>14, <1>15, <1>16 DEF DispatcherInv

\* Both kinds of sends that are no calls.
LEMMA SendEventStep ==
    ASSUME DispatcherInv, NEW a \in Actor, NEW d \in Dispatcher, NEW id \in EventId, SendEvent(a, d, id)
    PROVE  DispatcherInv'
<1>0. PICK m : m = [kind |-> "event", id |-> id]
  OBVIOUS
<1>1. m \in Message /\ m.kind = "event"
  BY <1>0, MessageKinds
<1>2. Enqueue(d, m) /\ UNCHANGED <<pc, cur, call, closing>> /\ pc[a] = "run" /\ (closing[d] = None \/ a = d)
  BY <1>0 DEF SendEvent, MayUse, InProgram
<1>3. pc[d] # "exited"
  BY <1>2, StepTypes
<1>4. closing' \in [Dispatcher -> Client \cup {None}]
  BY <1>2 DEF DispatcherInv, DispatcherTypes
<1> QED
  BY <1>1, <1>2, <1>3, <1>4, StepTypes, SendStep

LEMMA DestroyStep ==
    ASSUME DispatcherInv, NEW c \in Actor, NEW d \in Dispatcher, Destroy(c, d)
    PROVE  DispatcherInv'
<1>0. PICK m : m = [kind |-> "shutdown"]
  OBVIOUS
<1>1. m \in Message /\ m.kind = "shutdown"
  BY <1>0, MessageKinds
<1>2. /\ Enqueue(d, m) /\ UNCHANGED <<cur, call>> /\ pc[c] = "run" /\ closing[d] = None
      /\ closing' = [closing EXCEPT ![d] = c] /\ pc' = [pc EXCEPT ![c] = "join"]
  BY <1>0 DEF Destroy
<1>3. c \in Client /\ c \notin Dispatcher /\ c # None
  BY DispatcherAssumption DEF Destroy
<1>4. closing \in [Dispatcher -> Client \cup {None}]
  BY DEF DispatcherInv, DispatcherTypes
<1>5. /\ closing' \in [Dispatcher -> Client \cup {None}] /\ closing'[d] # None
      /\ \A e \in Dispatcher : closing[e] # None => closing'[e] # None
  BY <1>2, <1>3, <1>4
<1>6. /\ pc' \in [Actor -> {"wait", "run", "notify", "exited", "check", "sleep", "join"}]
      /\ \A e \in Dispatcher : pc'[e] = pc[e]
      /\ \A a \in Actor : pc'[a] # pc[a] => ~ InCall(a) /\ ~ InCall(a)'
  BY <1>2, <1>3, StepTypes DEF InCall
<1>7. pc[d] # "exited"
  BY <1>2, StepTypes
<1> QED
  BY <1>1, <1>2, <1>5, <1>6, <1>7, SendStep

LEMMA RemoveInHandlerStep ==
    ASSUME DispatcherInv, NEW d \in Dispatcher, NEW job \in Job, RemoveInHandler(d, job)
    PROVE  DispatcherInv'
<1>0. PICK D : D = Doomed(d, job)
  OBVIOUS
<1>1. D \subseteq Queued(d)
  BY <1>0 DEF Doomed, Queued
<1>2. /\ mQueue' = [mQueue EXCEPT ![d] = Erase(@, D)] /\ call' = Deleted(D)
      /\ UNCHANGED <<pc, cur, closing, sends>> /\ Busy(d)
  BY <1>0 DEF RemoveInHandler, RemoveHere, MayUse, InProgram, Busy
<1> QED
  BY <1>1, <1>2, RemoveStep

LEMMA ShutdownStep ==
    ASSUME DispatcherInv, NEW d \in Dispatcher, Shutdown(d)
    PROVE  DispatcherInv'
<1>0. PICK D : D = Doomed(d, "removeAll")
  OBVIOUS
<1>1. D = Queued(d)
  BY <1>0 DEF Doomed, Queued
<1>2. /\ mQueue' = [mQueue EXCEPT ![d] = Erase(@, D)] /\ call' = Deleted(D)
      /\ UNCHANGED <<closing, sends>> /\ Busy(d) /\ pc[d] = "run" /\ cur[d].ev.kind = "shutdown"
      /\ pc' = [pc EXCEPT ![d] = "exited"] /\ cur' = [cur EXCEPT ![d] = None]
  BY <1>0 DEF Shutdown, RemoveHere, Busy
<1>3. closing[d] # None
  BY <1>2 DEF DispatcherInv, ShutdownIsLast
<1> QED
  BY <1>1, <1>2, <1>3, RemoveStep

LEMMA DispatcherStarts ==
    ASSUME Init
    PROVE  DispatcherInv
<1>1. /\ \A d \in Dispatcher : mQueue[d] = <<>> /\ cur[d] = None /\ closing[d] = None
      /\ \A a \in Actor : call[a] = NoCall /\ pc[a] = IF a \in Dispatcher THEN "wait" ELSE "run"
      /\ \A d \in Dispatcher : d \in Actor /\ pc[d] = "wait"
  BY DEF Init, Actor
<1>2. DispatcherTypes
  <2>1. NoCall \in CallRecord
    BY DEF NoCall, CallRecord
  <2>2. call \in [Actor -> CallRecord]
    BY <2>1 DEF Init
  <2>3. pc \in [Actor -> {"wait", "run", "notify", "exited", "check", "sleep", "join"}]
    BY DEF Init
  <2>4. mQueue \in [Dispatcher -> Seq(LP!Node)]
    <3>1. <<>> \in Seq(LP!Node)
      OBVIOUS
    <3> QED  BY <3>1 DEF Init
  <2>5. cur \in [Dispatcher -> LP!Node \cup {None}] /\ closing \in [Dispatcher -> Client \cup {None}]
    BY DEF Init
  <2>6. sends \in Nat
    BY DEF Init
  <2> QED  BY <1>1, <2>2, <2>3, <2>4, <2>5, <2>6 DEF DispatcherTypes
<1>3. \A d \in Dispatcher : Queued(d) = {} /\ ~ Busy(d)
  BY <1>1 DEF Queued, List!Nodes, Busy
<1>4. \A a \in Actor : ~ InCall(a)
  BY <1>1 DEF InCall
<1>5. \A d \in Dispatcher : LP!Ordered(mQueue[d])
  BY <1>1 DEF LP!Ordered
<1>6. /\ \A d \in Dispatcher : QueueInOrder(d) /\ ShutdownIsLast(d)
  BY <1>1, <1>3, <1>5 DEF QueueInOrder, ShutdownIsLast
<1>7. \A d \in Dispatcher, a \in Actor : HolderIsLive(d, a) /\ CallAchieves(d, a) /\ CallIsNumbered(a)
  BY <1>3, <1>4 DEF HolderIsLive, CallAchieves, CallIsNumbered
<1>8. \A a \in Actor : CallIsNumbered(a)
  BY <1>4 DEF CallIsNumbered
<1> QED
  BY <1>2, <1>6, <1>7, <1>8 DEF DispatcherInv

\* Every step keeps the invariant.
LEMMA DispatcherStep ==
    ASSUME DispatcherInv, [Next]_vars
    PROVE  DispatcherInv'
<1>1. CASE UNCHANGED vars
  <2>1. UNCHANGED <<mQueue, pc, cur, call, closing, sends>>
    BY <1>1 DEF vars
  <2>2. /\ pc' \in [Actor -> {"wait", "run", "notify", "exited", "check", "sleep", "join"}]
        /\ cur' \in [Dispatcher -> LP!Node \cup {None}]
    BY <2>1, StepTypes
  <2>3. \A e \in Dispatcher : /\ pc'[e] # "join"
                              /\ Busy(e)' => Busy(e) /\ cur'[e] = cur[e]
                              /\ ~ Busy(e)' => cur'[e] = None
                              /\ pc'[e] = "exited" => pc[e] = "exited"
    BY <2>1, StepTypes DEF Busy
  <2>4. \A a \in Actor : InCall(a)' <=> InCall(a)
    BY <2>1 DEF InCall
  <2> QED  BY <2>1, <2>2, <2>3, <2>4, QuietStep
<1>2. ASSUME NEW a \in Actor, Operation(a) PROVE DispatcherInv'
  <2>1. PICK d \in Dispatcher :
          \/ \E id \in EventId : SendEvent(a, d, id)
          \/ SyncCall(a, d)
          \/ \E job \in Job \ {"call"} : RemoveFrom(a, d, job)
          \/ Destroy(a, d)
    BY <1>2 DEF Operation
  <2>2. CASE \E id \in EventId : SendEvent(a, d, id)
    BY <2>2, SendEventStep
  <2>3. CASE SyncCall(a, d)
    <3>1. "call" \in Job
      BY DEF Job
    <3> QED  BY <2>3, <3>1, StartSyncStep DEF SyncCall
  <2>4. CASE \E job \in Job \ {"call"} : RemoveFrom(a, d, job)
    BY <2>4, StartSyncStep DEF RemoveFrom
  <2>5. CASE Destroy(a, d)
    BY <2>5, DestroyStep
  <2> QED  BY <2>1, <2>2, <2>3, <2>4, <2>5
<1>3. ASSUME NEW a \in Actor, Step(a) PROVE DispatcherInv'
  <2>1. CASE CheckDone(a)
    BY <2>1, CheckDoneStep
  <2>2. CASE Join(a)
    BY <2>2, JoinStep
  <2>3. CASE a \in Dispatcher /\ Take(a)
    BY <2>3, TakeStep
  <2>4. CASE a \in Dispatcher /\ FinishEvent(a)
    BY <2>4, FinishEventStep
  <2>5. CASE a \in Dispatcher /\ DeliverSync(a)
    BY <2>5, DeliverSyncStep
  <2>6. CASE a \in Dispatcher /\ FinishSync(a)
    BY <2>6, FinishSyncStep
  <2>7. CASE a \in Dispatcher /\ Broadcast(a)
    BY <2>7, BroadcastStep
  <2>8. CASE a \in Dispatcher /\ Shutdown(a)
    BY <2>8, ShutdownStep
  <2> QED  BY <1>3, <2>1, <2>2, <2>3, <2>4, <2>5, <2>6, <2>7, <2>8 DEF Step
<1>4. ASSUME NEW d \in Dispatcher, NEW job \in Job \ {"call"}, RemoveInHandler(d, job) PROVE DispatcherInv'
  BY <1>4, RemoveInHandlerStep
<1> QED
  BY <1>1, <1>2, <1>3, <1>4 DEF Next

LEMMA DispatcherInvariant == Spec => []DispatcherInv
<1>1. Init => DispatcherInv
  BY DispatcherStarts
<1>2. DispatcherInv /\ [Next]_vars => DispatcherInv'
  BY DispatcherStep
<1> QED
  BY <1>1, <1>2, PTL DEF Spec

\* A thread leaves sendEventSync only when it has found mDone set.
LEMMA ReturnsWhenDone ==
    ASSUME DispatcherInv, [Next]_vars, NEW a \in Actor, Returns(a)
    PROVE  /\ InCall(a) /\ call[a].holder = "done" /\ call[a].to \in Dispatcher
           /\ CallAchieves(call[a].to, a)
<1>1. pc[a] = "check" /\ pc'[a] = "run"
  BY DEF Returns
<1>2. ASSUME NEW b \in Actor, b # a, NEW x, pc' = [pc EXCEPT ![b] = x] PROVE FALSE
  BY <1>1, <1>2, StepTypes
<1>3. ~ UNCHANGED pc
  BY <1>1
<1>4. ~ UNCHANGED vars
  BY <1>3 DEF vars
<1>5. ASSUME NEW b \in Actor PROVE ~ Operation(b)
  <2>1. ASSUME NEW d \in Dispatcher, NEW job, StartSync(b, d, job) PROVE FALSE
    <3>1. pc[b] = "run" /\ pc' = [pc EXCEPT ![b] = "check"]
      BY <2>1 DEF StartSync, MayUse, InProgram
    <3> QED  BY <3>1, <1>1, StepTypes
  <2>2. ASSUME NEW d \in Dispatcher, Destroy(b, d) PROVE FALSE
    <3>1. pc[b] = "run" /\ pc' = [pc EXCEPT ![b] = "join"]
      BY <2>2 DEF Destroy
    <3> QED  BY <3>1, <1>1, StepTypes
  <2>3. ASSUME NEW d \in Dispatcher, NEW id \in EventId, SendEvent(b, d, id) PROVE FALSE
    BY <2>3, <1>3 DEF SendEvent
  <2> QED  BY <2>1, <2>2, <2>3 DEF Operation, SyncCall, RemoveFrom
<1>6. ASSUME NEW d \in Dispatcher, NEW job \in Job PROVE ~ RemoveInHandler(d, job)
  BY <1>3 DEF RemoveInHandler
<1>7. PICK b \in Actor : Step(b)
  BY <1>4, <1>5, <1>6 DEF Next
<1>8. CheckDone(b)
  <2>1. ~ Join(b)
    BY <1>1, StepTypes DEF Join
  <2>2. ~(b \in Dispatcher /\ Take(b))
    BY <1>1, StepTypes DEF Take
  <2>3. ~(b \in Dispatcher /\ FinishEvent(b))
    BY <1>1, StepTypes DEF FinishEvent
  <2>4. ~ DeliverSync(b)
    BY <1>3 DEF DeliverSync
  <2>5. ~(b \in Dispatcher /\ FinishSync(b))
    BY <1>1, StepTypes DEF FinishSync
  <2>6. ~(b \in Dispatcher /\ Broadcast(b))
    BY <1>1, StepTypes DEF Broadcast
  <2>7. ~(b \in Dispatcher /\ Shutdown(b))
    BY <1>1, StepTypes DEF Shutdown
  <2> QED  BY <1>7, <2>1, <2>2, <2>3, <2>4, <2>5, <2>6, <2>7 DEF Step
<1>9. b = a /\ call[a].holder = "done"
  <2>1. b = a
    BY <1>1, <1>2, <1>8 DEF CheckDone
  <2> QED  BY <1>1, <1>8, <2>1, StepTypes DEF CheckDone
<1>10. InCall(a) /\ call[a].to \in Dispatcher
  BY <1>1 DEF DispatcherInv, CallIsNumbered, InCall
<1> QED
  BY <1>9, <1>10 DEF DispatcherInv

\* A dispatcher whose thread has exited left no event in its queue: the
\* removeAll() in handleEvent on kShutdownEventId takes out what was queued behind
\* the shutdown event, and nothing is sent to a dispatcher whose destructor runs.
THEOREM NothingIsLeftBehind == Spec => []NothingLeftBehind
<1>1. DispatcherInv => NothingLeftBehind
  <2> SUFFICES ASSUME DispatcherInv, NEW d \in Dispatcher, pc[d] = "exited" PROVE mQueue[d] = <<>>
    BY DEF NothingLeftBehind
  <2>1. Queued(d) = {} /\ mQueue[d] \in Seq(LP!Node)
    BY StepTypes
  <2>2. Len(mQueue[d]) \in Nat
    BY <2>1
  <2>3. Len(mQueue[d]) = 0
    <3> SUFFICES ASSUME 1 \in 1..Len(mQueue[d]) PROVE FALSE
      BY <2>2
    <3>1. mQueue[d][1] \in Queued(d)
      BY DEF Queued, List!Nodes
    <3> QED  BY <2>1, <3>1
  <2> QED  BY <2>1, <2>3, EmptySeq
<1> QED
  BY <1>1, DispatcherInvariant, PTL

\* sendEventSync is a barrier, for any number of threads and dispatchers:
\* when it returns its event was dispatched once, and what was sent to
\* that dispatcher earlier with at least its priority has been dealt with.
THEOREM SyncIsAlwaysBarrier == Spec => SyncIsBarrier
<1>1. ASSUME DispatcherInv, [Next]_vars, NEW a \in Actor, Returns(a)
      PROVE  /\ call[a].ran = 1
             /\ \A n \in Unhandled(call[a].to) :
                   \/ n.seq >= call[a].seq
                   \/ MessagePriority[n.ev] < IF call[a].job = "call" THEN 0 ELSE 1
  <2>1. InCall(a) /\ call[a].holder = "done" /\ CallAchieves(call[a].to, a)
    BY <1>1, ReturnsWhenDone
  <2> QED  BY <2>1 DEF CallAchieves, Behind
<1>2. DispatcherInv /\ [Next]_vars =>
        [\A a \in Actor : Returns(a) =>
            /\ call[a].ran = 1
            /\ \A n \in Unhandled(call[a].to) :
                  \/ n.seq >= call[a].seq
                  \/ MessagePriority[n.ev] < IF call[a].job = "call" THEN 0 ELSE 1]_vars
  BY <1>1
<1> QED
  BY <1>2, DispatcherInvariant, PTL DEF Spec, SyncIsBarrier

\* remove( id ) and removeAll() from another thread: what was sent before the
\* call is gone when it returns, whatever was sent while it ran.
THEOREM RemovedAlwaysStaysRemoved == Spec => RemovedStaysRemoved
<1>1. ASSUME DispatcherInv, [Next]_vars, NEW a \in Actor, Returns(a), call[a].job # "call"
      PROVE  \A n \in Unhandled(call[a].to) :
                n.seq < call[a].seq =>
                   ~ (call[a].job = "removeAll" \/ (n.ev.kind = "event" /\ n.ev.id = call[a].job))
  <2>1. InCall(a) /\ call[a].holder = "done" /\ CallAchieves(call[a].to, a)
    BY <1>1, ReturnsWhenDone
  <2> QED  BY <1>1, <2>1 DEF CallAchieves, Hit
<1>2. DispatcherInv /\ [Next]_vars =>
        [\A a \in Actor : Returns(a) /\ call[a].job # "call" =>
            \A n \in Unhandled(call[a].to) :
                n.seq < call[a].seq =>
                   ~ (call[a].job = "removeAll" \/ (n.ev.kind = "event" /\ n.ev.id = call[a].job))]_vars
  BY <1>1
<1> QED
  BY <1>2, DispatcherInvariant, PTL DEF Spec, RemovedStaysRemoved
=============================================================================

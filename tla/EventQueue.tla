----------------------------- MODULE EventQueue -----------------------------
(***************************************************************************)
(* EventQueue (src/src/EventQueue.cpp): a reference-counted event list     *)
(* guarded by mLock with the condition mWait.  Every public function holds *)
(* mLock from its first statement to its last, so each is one atomic step; *)
(* only WaitEvent gives the lock up, inside mWait.Wait, and is split       *)
(* there.  A thread inside Wait is "waiting"; a signal or a spurious       *)
(* wakeup makes it "signalled", an expired timeout "timedout"; in both it  *)
(* still has to get mLock back before it goes on.                          *)
(***************************************************************************)
EXTENDS EventList

CONSTANTS
    Thread,     \* threads that take events
    Looper,     \* those that sit in EventThread::threadMain's loop
    EventId,    \* event ids, Agent among them
    Agent,      \* kAgentEventId
    Receiver,   \* objects that agents are delivered to
    Id,         \* the id of each event
    Target,     \* getDeliveryTarget() of each agent
    NoNode,     \* "no event": a thread that holds none
    MaxSends    \* bound: SendEvent calls in one behaviour

ASSUME EventQueueAssumption ==
    /\ Looper \subseteq Thread
    /\ Agent \in EventId
    /\ Id \in [Event -> EventId]
    /\ Target \in [Event -> Receiver]
    /\ NoNode \notin Node
    /\ MaxSends \in Nat
    /\ IsFiniteSet(Thread)

VARIABLES
    mQueue,     \* the list of nodes
    mRefCount,  \* reference count of each event
    client,     \* what the sending program holds of an event:
                \*   "free"  the address holds no object
                \*   "raw"   an object just made by jh_new, count 0
                \*   "ref"   a SmartPtr
                \*   "none"  nothing, the object lives in the queue
    wait,       \* where each thread is in WaitEvent
    timed,      \* the thread's current WaitEvent has mstimeout > 0
    held,       \* the node whose event a thread took and has not Released
    sends       \* number of SendEvent calls so far (history)

vars == <<mQueue, mRefCount, client, wait, timed, held, sends>>

Waiting   == {t \in Thread : wait[t] = "waiting"}
Signalled == {t \in Thread : wait[t] = "signalled"}

VariableTypes ==
    /\ mQueue \in Seq(Node)
    /\ mRefCount \in [Event -> Int]
    /\ client \in [Event -> {"free", "raw", "ref", "none"}]
    /\ wait \in [Thread -> {"idle", "waiting", "signalled", "timedout", "holding"}]
    /\ timed \in [Thread -> BOOLEAN]
    /\ held \in [Thread -> Node \cup {NoNode}]
    /\ sends \in 0..MaxSends

\* A thread has an event to Release exactly between taking it and Release.
HolderHolds == \A t \in Thread : held[t] # NoNode <=> wait[t] = "holding"

\* Type invariant.
TypeOK == VariableTypes /\ HolderHolds

Init ==
    /\ mQueue = <<>>
    /\ mRefCount = [e \in Event |-> 0]
    /\ client = [e \in Event |-> "free"]
    /\ wait = [t \in Thread |-> "idle"]
    /\ timed = [t \in Thread |-> FALSE]
    /\ held = [t \in Thread |-> NoNode]
    /\ sends = 0
-----------------------------------------------------------------------------
\* Reference counts.

\* How many nodes of D hold e.
NodesOf(e, D) == Cardinality({n \in D : n.ev = e})

\* Release once for every node in D.
ReleaseNodes(D) ==
    [e \in Event |-> mRefCount[e] - NodesOf(e, D)]

\* What becomes of the objects: a count that drops to 0 deletes the object.
Reap(count) ==
    [e \in Event |-> IF count[e] = 0 /\ mRefCount[e] > 0 THEN "free" ELSE client[e]]
-----------------------------------------------------------------------------
\* Programs making and keeping events.

\* jh_new Event( id, priority ).
New(e) ==
    /\ client[e] = "free"
    /\ client' = [client EXCEPT ![e] = "raw"]
    /\ UNCHANGED <<mQueue, mRefCount, wait, timed, held, sends>>

\* SmartPtr<Event> p = e.
Keep(e) ==
    /\ client[e] = "raw"
    /\ client' = [client EXCEPT ![e] = "ref"]
    /\ mRefCount' = [mRefCount EXCEPT ![e] = @ + 1]
    /\ UNCHANGED <<mQueue, wait, timed, held, sends>>

\* The SmartPtr goes out of scope.
Drop(e) ==
    /\ client[e] = "ref"
    /\ mRefCount' = [mRefCount EXCEPT ![e] = @ - 1]
    /\ client' = [client EXCEPT ![e] = IF mRefCount[e] = 1 THEN "free" ELSE "none"]
    /\ UNCHANGED <<mQueue, wait, timed, held, sends>>
-----------------------------------------------------------------------------
\* Mutants of the operations below.

SignalIfEmpty ==
    IF Waiting = {} \/ mQueue # <<>>
    THEN wait' = wait
    ELSE \E t \in Waiting : wait' = [wait EXCEPT ![t] = "signalled"]

NoSignal == wait' = wait

PopBack(t) ==
    /\ mQueue # <<>>
    /\ held' = [held EXCEPT ![t] = mQueue[Len(mQueue)]]
    /\ mQueue' = SubSeq(mQueue, 1, Len(mQueue) - 1)
    /\ wait' = [wait EXCEPT ![t] = "holding"]

EraseTwice(D) ==
    /\ mQueue' = Erase(mQueue, D)
    /\ mRefCount' = [e \in Event |-> mRefCount[e] - 2 * NodesOf(e, D)]
    /\ client' = Reap(mRefCount')
    /\ UNCHANGED <<wait, timed, held, sends>>
-----------------------------------------------------------------------------
\* mWait.Signal(): one waiting thread, any one, starts to leave Wait.
Signal ==
    IF Waiting = {}
    THEN wait' = wait
    ELSE \E t \in Waiting : wait' = [wait EXCEPT ![t] = "signalled"]

\* SendEvent( ev ): the queue takes a reference of its own, so a client that
\* has only the raw pointer may not touch the event any more.
SendEvent(e) ==
    /\ client[e] \in {"raw", "ref"}
    /\ sends < MaxSends
    /\ sends' = sends + 1
    /\ mRefCount' = [mRefCount EXCEPT ![e] = @ + 1]
    /\ mQueue' = Insert(mQueue, [ev |-> e, seq |-> sends])
    /\ client' = [client EXCEPT ![e] = IF @ = "raw" THEN "none" ELSE @]
    /\ Signal
    /\ UNCHANGED <<timed, held>>

\* pollEventInternal() that finds an event: the queue's reference passes to
\* the thread.
Pop(t) ==
    /\ mQueue # <<>>
    /\ held' = [held EXCEPT ![t] = Head(mQueue)]
    /\ mQueue' = Tail(mQueue)
    /\ wait' = [wait EXCEPT ![t] = "holding"]

\* WaitEvent( mstimeout ) up to its first Wait or its return.
WaitEvent(t, hasTimeout) ==
    /\ wait[t] = "idle"
    /\ timed' = [timed EXCEPT ![t] = hasTimeout]
    /\ \/ Pop(t)
       \/ /\ mQueue = <<>>
          /\ wait' = [wait EXCEPT ![t] = "waiting"]
          /\ UNCHANGED <<mQueue, held>>
    /\ UNCHANGED <<mRefCount, client, sends>>

\* Wait returned true: poll again; on "Signalled empty queue" wait again.
Resume(t) ==
    /\ wait[t] = "signalled"
    /\ \/ Pop(t)
       \/ /\ mQueue = <<>>
          /\ wait' = [wait EXCEPT ![t] = "waiting"]
          /\ UNCHANGED <<mQueue, held>>
    /\ UNCHANGED <<mRefCount, client, timed, sends>>

\* pthread_cond_wait may return without a signal.
SpuriousWakeup(t) ==
    /\ wait[t] = "waiting"
    /\ wait' = [wait EXCEPT ![t] = "signalled"]
    /\ UNCHANGED <<mQueue, mRefCount, client, timed, held, sends>>

\* pthread_cond_timedwait gives up.
Timeout(t) ==
    /\ wait[t] = "waiting"
    /\ timed[t]
    /\ wait' = [wait EXCEPT ![t] = "timedout"]
    /\ UNCHANGED <<mQueue, mRefCount, client, timed, held, sends>>

\* WaitEvent returns NULL after a timeout; it does not look at the queue.
ReturnNull(t) ==
    /\ wait[t] = "timedout"
    /\ wait' = [wait EXCEPT ![t] = "idle"]
    /\ UNCHANGED <<mQueue, mRefCount, client, timed, held, sends>>

\* PollEvent() that finds an event (on an empty queue it changes nothing).
PollEvent(t) ==
    /\ wait[t] = "idle"
    /\ Pop(t)
    /\ UNCHANGED <<mRefCount, client, timed, sends>>

\* The taker is done with its event: ev->Release().
Done(t) ==
    /\ wait[t] = "holding"
    /\ mRefCount' = ReleaseNodes({held[t]})
    /\ client' = Reap(mRefCount')
    /\ held' = [held EXCEPT ![t] = NoNode]
    /\ wait' = [wait EXCEPT ![t] = "idle"]
    /\ UNCHANGED <<mQueue, timed, sends>>
-----------------------------------------------------------------------------
\* Release and erase every node of the list that is in D.
EraseNodes(D) ==
    /\ mQueue' = Erase(mQueue, D)
    /\ mRefCount' = ReleaseNodes(D)
    /\ client' = Reap(mRefCount')
    /\ UNCHANGED <<wait, timed, held, sends>>

\* Remove( id )
RemoveId(id) == EraseNodes({n \in Nodes(mQueue) : Id[n.ev] = id})

\* Remove( ev )
RemoveEvent(e) == EraseNodes({n \in Nodes(mQueue) : n.ev = e})

\* RemoveAgentsByReceiver( receiver )
RemoveAgentsByReceiver(r) ==
    EraseNodes({n \in Nodes(mQueue) : Id[n.ev] = Agent /\ Target[n.ev] = r})

\* Flush()
Flush == EraseNodes(Nodes(mQueue))

Next ==
    \/ \E e \in Event : New(e) \/ Keep(e) \/ Drop(e) \/ SendEvent(e)
    \/ \E t \in Thread : \/ WaitEvent(t, FALSE)
                         \/ t \notin Looper /\ WaitEvent(t, TRUE)
                         \/ Resume(t)
                         \/ SpuriousWakeup(t)
                         \/ Timeout(t)
                         \/ ReturnNull(t)
                         \/ t \notin Looper /\ PollEvent(t)
                         \/ Done(t)
    \/ \E id \in EventId : RemoveId(id)
    \/ \E e \in Event : RemoveEvent(e)
    \/ \E r \in Receiver : RemoveAgentsByReceiver(r)
    \/ Flush

Spec == Init /\ [][Next]_vars

\* A thread that can run runs: every thread leaves Wait once signalled and
\* finishes with an event it took; a looper calls WaitEvent again, as the loop
\* of threadMain does (always without a timeout).
Fairness ==
    /\ \A t \in Thread :
           WF_vars(Resume(t)) /\ WF_vars(ReturnNull(t)) /\ WF_vars(Done(t))
    /\ \A t \in Looper : WF_vars(WaitEvent(t, FALSE))

FairSpec == Spec /\ Fairness
-----------------------------------------------------------------------------
\* Properties.

\* The list is in delivery order: a node stands before another only if its
\* event has the higher priority, or the same priority and was sent first.
\* SendEvent's scan and the erasing loops must keep this for every mix of
\* sends and removals.
DeliveryOrder ==
    \A i, j \in 1..Len(mQueue) :
        i < j => \/ Priority[mQueue[i].ev] > Priority[mQueue[j].ev]
                 \/ /\ Priority[mQueue[i].ev] = Priority[mQueue[j].ev]
                    /\ mQueue[i].seq < mQueue[j].seq

\* No wakeup is lost: while some thread sleeps in WaitEvent, at least as many
\* others are on their way out of Wait as there are events in the list.
\* SendEvent signals once per event; polls, removals and timeouts of other
\* threads must never leave an event behind with only sleepers around.
NoLostWakeup ==
    Waiting # {} => Cardinality(Signalled) >= Len(mQueue)

\* The count of an event is the number of references that exist to it (one
\* per node in the list, one per thread that took it, one for a SmartPtr), and
\* the object exists exactly as long as there is one.  So no list node and no
\* thread ever points to a deleted event and no unreachable event stays.
ReferencesAreCounted ==
    \A e \in Event :
        /\ mRefCount[e] =   NodesOf(e, Nodes(mQueue))
                          + Cardinality({t \in Thread : held[t] # NoNode /\ held[t].ev = e})
                          + (IF client[e] = "ref" THEN 1 ELSE 0)
        /\ mRefCount[e] > 0 <=> client[e] \in {"ref", "none"}

\* The queue implements a priority channel: whatever WaitEvent or PollEvent
\* returns is the oldest pending event of the highest priority, and Remove
\* and Flush cancel pending events only, never one that was taken.
Channel == INSTANCE PriorityChannel WITH
    Taker <- Thread, Message <- [ev : Event, seq : 0..MaxSends], NoMessage <- NoNode,
    pending <- Nodes(mQueue), taken <- held

ImplementsChannel == Channel!Spec

\* Every event that is sent leaves the list again: a looper, asleep or busy
\* when it was sent, takes it, or a removal does.
EventuallyEmptied == mQueue # <<>> ~> mQueue = <<>>
=============================================================================

--------------------------- MODULE EventDispatcher ---------------------------
(***************************************************************************)
(* EventThread dispatchers (src/src/EventDispatcher.cpp, EventThread.cpp)  *)
(* and the threads that use them.  Every dispatcher has a queue and a      *)
(* thread that takes one event at a time and handles it; a handler may     *)
(* itself send events, make synchronous calls to other dispatchers and     *)
(* remove events.  A synchronous call queues a holder that lives on the    *)
(* caller's stack and waits on mSyncWait until the dispatcher has set the  *)
(* holder's mDone.  remove and removeAll are such calls, with high         *)
(* priority, unless the caller already is the dispatcher's thread.         *)
(* The queue operations are EventList's; each holds the queue's lock       *)
(* throughout and is atomic here.                                          *)
(***************************************************************************)
EXTENDS ListErase, Integers, Sequences, FiniteSets

CONSTANTS
    Dispatcher,     \* EventThreads
    Client,         \* other threads of the program
    EventId,        \* ids of ordinary events
    IdPriority,     \* the priority events of an id are sent with
    SyncTargets,    \* the dispatchers each thread makes synchronous calls to
    Remover,        \* threads that call remove( id )
    Flusher,        \* threads that call removeAll()
    Owner,          \* threads that destroy dispatchers
    None,           \* "no node", "no dispatcher"
    MaxOps          \* bound: operations each thread starts in one behaviour

Actor == Dispatcher \cup Client

ASSUME DispatcherAssumption ==
    /\ Dispatcher \cap Client = {} /\ None \notin Client
    /\ EventId \cap {"call", "removeAll"} = {}
    /\ IdPriority \in [EventId -> {0, 1}]
    /\ SyncTargets \in [Actor -> SUBSET Dispatcher]
    /\ Remover \subseteq Actor /\ Flusher \subseteq Actor /\ Owner \subseteq Client
    /\ MaxOps \in [Actor -> Nat]

\* What a holder asks the dispatcher to do: deliver the caller's event or
\* agent, or run remove( id ) or removeAll() there.
Job == {"call", "removeAll"} \cup EventId

\* The events that are queued: ordinary ones, the holder of a synchronous call
\* by some thread, and the event the destructor sends.
Message ==
         [kind : {"event"}, id : EventId]
    \cup [kind : {"sync"}, from : Actor, job : Job]
    \cup [kind : {"shutdown"}]

\* A holder has the priority of the event it wraps: normal for a call, high
\* for the agents that remove and removeAll send.
MessagePriority ==
    [m \in Message |-> CASE m.kind = "event"    -> IdPriority[m.id]
                         [] m.kind = "sync"     -> IF m.job = "call" THEN 0 ELSE 1
                         [] m.kind = "shutdown" -> 1]

List == INSTANCE EventList WITH Event <- Message, Priority <- MessagePriority

VARIABLES
    mQueue,     \* per dispatcher: its event list
    pc,         \* per thread: what it is doing
    cur,        \* per dispatcher: the node being handled
    call,       \* per thread: its synchronous call in progress
    closing,    \* per dispatcher: the thread inside its destructor, or None
    sends,      \* SendEvent calls so far, on all queues (history)
    ops         \* operations each thread has started

vars == <<mQueue, pc, cur, call, closing, sends, ops>>

\* pc: a dispatcher's thread is in the loop ("wait"), in a handler ("run"), past
\* setting mDone but before the Broadcast ("notify") or gone ("exited").  Any
\* thread in sendEventSync is about to look at mDone ("check") or asleep on
\* mSyncWait ("sleep").  A client is otherwise free ("run") or in Join.

\* A call of sendEventSync: seq is the number of its SendEvent; holder is the
\* state of the stack object: "queued", "done" (mDone set) or "deleted" (its
\* count dropped to 0); ran counts how often the job was run (history).
NoCall == [to |-> None, job |-> None, seq |-> 0, holder |-> "none", ran |-> 0]

Init ==
    /\ mQueue = [d \in Dispatcher |-> <<>>]
    /\ pc = [a \in Actor |-> IF a \in Dispatcher THEN "wait" ELSE "run"]
    /\ cur = [d \in Dispatcher |-> None]
    /\ call = [a \in Actor |-> NoCall]
    /\ closing = [d \in Dispatcher |-> None]
    /\ sends = 0
    /\ ops = [a \in Actor |-> 0]
-----------------------------------------------------------------------------
\* Helpers.

\* A thread that runs program code: a client, or a dispatcher inside the
\* handler of an ordinary event or of a caller's agent.
InProgram(a) ==
    /\ pc[a] = "run"
    /\ a \in Dispatcher => \/ cur[a].ev.kind = "event"
                           \/ cur[a].ev.kind = "sync" /\ cur[a].ev.job = "call"

\* Such a thread may start an operation on d; no thread but d's own uses d
\* once its destructor has started.
MayUse(a, d) ==
    /\ InProgram(a)
    /\ closing[d] = None \/ a = d
    /\ ops[a] < MaxOps[a]

CountOp(a) == ops' = [ops EXCEPT ![a] = @ + 1]

\* Mutant of Enqueue.
EnqueueFront(d, m) ==
    /\ mQueue' = [mQueue EXCEPT ![d] = <<[ev |-> m, seq |-> sends]>> \o @]
    /\ sends' = sends + 1

\* SendEvent( m ) on d's queue (wakeThread does nothing in an EventThread).
Enqueue(d, m) ==
    /\ mQueue' = [mQueue EXCEPT ![d] = List!Insert(@, [ev |-> m, seq |-> sends])]
    /\ sends' = sends + 1

\* Releasing the nodes in D.  An ordinary event just loses the queue's
\* reference; a holder's count drops to 0, which deletes the caller's stack
\* object.  The caller keeps waiting for its mDone.
Deleted(D) ==
    [a \in Actor |->
        IF \E n \in D : n.ev.kind = "sync" /\ n.ev.from = a
        THEN [call[a] EXCEPT !.holder = "deleted"]
        ELSE call[a]]

-----------------------------------------------------------------------------
\* Mutants of the actions below.

SignalOne(d) ==
    LET sleepers == {a \in Actor : pc[a] = "sleep" /\ call[a].to = d}
    IN  /\ pc[d] = "notify"
        /\ IF sleepers = {}
           THEN pc' = [pc EXCEPT ![d] = "wait"]
           ELSE \E a \in sleepers : pc' = [pc EXCEPT ![d] = "wait", ![a] = "check"]
        /\ UNCHANGED <<mQueue, cur, call, closing, sends, ops>>

KeepQueueAtShutdown(d) ==
    /\ pc[d] = "run"
    /\ cur[d].ev.kind = "shutdown"
    /\ cur' = [cur EXCEPT ![d] = None]
    /\ pc' = [pc EXCEPT ![d] = "exited"]
    /\ UNCHANGED <<mQueue, call, closing, sends, ops>>

DoomFirst(d, job) ==
    LET q == mQueue[d]
        hits == {i \in 1..Len(q) : job = "removeAll" \/ (q[i].ev.kind = "event" /\ q[i].ev.id = job)}
    IN  {q[i] : i \in {j \in hits : \A k \in hits : j <= k}}

LoopAfterShutdown(d) ==
    /\ pc[d] = "run"
    /\ cur[d].ev.kind = "shutdown"
    /\ cur' = [cur EXCEPT ![d] = None]
    /\ pc' = [pc EXCEPT ![d] = "wait"]
    /\ UNCHANGED <<mQueue, call, closing, sends, ops>>
-----------------------------------------------------------------------------
\* Operations of the threads that use a dispatcher.

\* sendEvent( ev )
SendEvent(a, d, id) ==
    /\ MayUse(a, d)
    /\ CountOp(a)
    /\ Enqueue(d, [kind |-> "event", id |-> id])
    /\ UNCHANGED <<pc, cur, call, closing>>

\* sendEventSync( ev ) up to its wait: the holder is on the stack and queued.
StartSync(a, d, job) ==
    /\ MayUse(a, d)
    /\ a # d
    /\ CountOp(a)
    /\ call' = [call EXCEPT ![a] =
                  [to |-> d, job |-> job, seq |-> sends, holder |-> "queued", ran |-> 0]]
    /\ Enqueue(d, [kind |-> "sync", from |-> a, job |-> job])
    /\ pc' = [pc EXCEPT ![a] = "check"]
    /\ UNCHANGED <<cur, closing>>

\* SyncEventAgent::send and sendEventSync from another thread.  (On d's own
\* thread an agent is delivered inside send and no state changes.)
SyncCall(a, d) == d \in SyncTargets[a] /\ StartSync(a, d, "call")

\* The while loop on mSyncWait, with mSyncLock held: return or sleep.
CheckDone(a) ==
    /\ pc[a] = "check"
    /\ IF call[a].holder = "done"
       THEN /\ pc' = [pc EXCEPT ![a] = "run"]
            /\ call' = [call EXCEPT ![a] = NoCall]
       ELSE /\ pc' = [pc EXCEPT ![a] = "sleep"]
            /\ UNCHANGED call
    /\ UNCHANGED <<mQueue, cur, closing, sends, ops>>

\* The nodes a job removes from d's queue.
Doomed(d, job) ==
    {n \in List!Nodes(mQueue[d]) :
        \/ job = "removeAll"
        \/ n.ev.kind = "event" /\ n.ev.id = job}

\* The body of remove( id ) or removeAll() on the dispatcher's own thread.
\* The TimerManager is asked first; it knows no timer (module TimedEvents).
RemoveHere(d, job) ==
    /\ mQueue' = [mQueue EXCEPT ![d] = Erase(@, Doomed(d, job))]
    /\ call' = Deleted(Doomed(d, job))

\* remove( id ) and removeAll() called by a handler of d on d.
RemoveInHandler(d, job) ==
    /\ MayUse(d, d)
    /\ IF job = "removeAll" THEN d \in Flusher ELSE d \in Remover
    /\ CountOp(d)
    /\ RemoveHere(d, job)
    /\ UNCHANGED <<pc, cur, closing, sends>>

\* The same from any other thread: a synchronous agent of high priority.
RemoveFrom(a, d, job) ==
    /\ IF job = "removeAll" THEN a \in Flusher ELSE a \in Remover
    /\ StartSync(a, d, job)

\* ~EventThread up to Join.  No other thread may be inside a call on d.
Destroy(c, d) ==
    /\ c \in Owner
    /\ pc[c] = "run"
    /\ closing[d] = None
    /\ \A a \in Actor : call[a].to # d
    /\ closing' = [closing EXCEPT ![d] = c]
    /\ Enqueue(d, [kind |-> "shutdown"])
    /\ pc' = [pc EXCEPT ![c] = "join"]
    /\ UNCHANGED <<cur, call, ops>>

\* Join returns: every dispatcher this owner is destroying has exited.
Join(c) ==
    /\ pc[c] = "join"
    /\ \A d \in Dispatcher : closing[d] = c => pc[d] = "exited"
    /\ pc' = [pc EXCEPT ![c] = "run"]
    /\ UNCHANGED <<mQueue, cur, call, closing, sends, ops>>
-----------------------------------------------------------------------------
\* The dispatcher's thread.

\* WaitEvent returns the head of the queue.
Take(d) ==
    /\ pc[d] = "wait"
    /\ mQueue[d] # <<>>
    /\ cur' = [cur EXCEPT ![d] = Head(mQueue[d])]
    /\ mQueue' = [mQueue EXCEPT ![d] = Tail(@)]
    /\ pc' = [pc EXCEPT ![d] = "run"]
    /\ UNCHANGED <<call, closing, sends, ops>>

\* dispatchEvent returned for an ordinary event: Release it, loop.
FinishEvent(d) ==
    /\ pc[d] = "run"
    /\ cur[d].ev.kind = "event"
    /\ cur' = [cur EXCEPT ![d] = None]
    /\ pc' = [pc EXCEPT ![d] = "wait"]
    /\ UNCHANGED <<mQueue, call, closing, sends, ops>>

\* handleSyncEvent dispatches the real event: a removal changes the queue; a
\* caller's event or agent runs program code (the steps of InProgram).
DeliverSync(d) ==
    LET m == cur[d].ev
    IN  /\ pc[d] = "run"
        /\ m.kind = "sync"
        /\ call[m.from].ran = 0
        /\ mQueue' = [mQueue EXCEPT ![d] = Erase(@, Doomed(d, m.job))]
        /\ call' = [Deleted(Doomed(d, m.job)) EXCEPT ![m.from].ran = 1]
        /\ UNCHANGED <<pc, cur, closing, sends, ops>>

\* It has returned: mDone is set under mSyncLock.
FinishSync(d) ==
    LET m == cur[d].ev
    IN  /\ pc[d] = "run"
        /\ m.kind = "sync"
        /\ call[m.from].ran = 1
        /\ call' = [call EXCEPT ![m.from].holder = "done"]
        /\ cur' = [cur EXCEPT ![d] = None]
        /\ pc' = [pc EXCEPT ![d] = "notify"]
        /\ UNCHANGED <<mQueue, closing, sends, ops>>

\* mSyncWait.Broadcast(), after mSyncLock was given up.
Broadcast(d) ==
    /\ pc[d] = "notify"
    /\ pc' = [a \in Actor |->
                IF a = d THEN "wait"
                ELSE IF pc[a] = "sleep" /\ call[a].to = d THEN "check"
                ELSE pc[a]]
    /\ UNCHANGED <<mQueue, cur, call, closing, sends, ops>>

\* handleEvent on kShutdownEventId: removeAll(), Release, leave the loop.
Shutdown(d) ==
    /\ pc[d] = "run"
    /\ cur[d].ev.kind = "shutdown"
    /\ RemoveHere(d, "removeAll")
    /\ cur' = [cur EXCEPT ![d] = None]
    /\ pc' = [pc EXCEPT ![d] = "exited"]
    /\ UNCHANGED <<closing, sends, ops>>
-----------------------------------------------------------------------------
Operation(a) ==
    \E d \in Dispatcher :
        \/ \E id \in EventId : SendEvent(a, d, id)
        \/ SyncCall(a, d)
        \/ \E job \in Job \ {"call"} : RemoveFrom(a, d, job)
        \/ Destroy(a, d)

\* What a thread does once it is in library code or a handler has returned.
Step(a) ==
    \/ CheckDone(a)
    \/ Join(a)
    \/ a \in Dispatcher /\ (\/ Take(a)
                            \/ FinishEvent(a)
                            \/ DeliverSync(a)
                            \/ FinishSync(a)
                            \/ Broadcast(a)
                            \/ Shutdown(a))

Next ==
    \/ \E a \in Actor : Operation(a) \/ Step(a)
    \/ \E d \in Dispatcher, job \in Job \ {"call"} : RemoveInHandler(d, job)

Spec == Init /\ [][Next]_vars

\* Every thread that can go on does, and handlers return.  Nothing makes the
\* program start an operation.
FairSpec == Spec /\ \A a \in Actor : WF_vars(Step(a))
-----------------------------------------------------------------------------
\* Properties.

Returns(a) == pc[a] = "check" /\ pc'[a] = "run"

\* The events d has received and not finished with.
Unhandled(d) == List!Nodes(mQueue[d]) \cup ({cur[d]} \ {None})

\* A synchronous call returns only after its event was dispatched, once: the
\* stack holder of this very call, not of an earlier one, was answered.  And it
\* is a barrier: when it returns, everything that was sent to that dispatcher
\* before it with at least its priority, by any thread, has been handled or
\* removed.
SyncIsBarrier ==
    [][\A a \in Actor : Returns(a) =>
          /\ call[a].ran = 1
          /\ \A n \in Unhandled(call[a].to) :
                \/ n.seq >= call[a].seq
                \/ MessagePriority[n.ev] < IF call[a].job = "call" THEN 0 ELSE 1]_vars

\* When remove( id ) or removeAll() returns to another thread, no event it is
\* about that was sent before the call is queued or being handled any more,
\* whatever other threads sent in the meantime.
RemovedStaysRemoved ==
    [][\A a \in Actor : Returns(a) /\ call[a].job # "call" =>
          \A n \in Unhandled(call[a].to) :
             n.seq < call[a].seq =>
                ~ (call[a].job = "removeAll" \/ (n.ev.kind = "event" /\ n.ev.id = call[a].job))]_vars

\* A dispatcher whose thread has exited has no event left in its queue, which
\* nobody would Release any more (~EventQueue does not).
NothingLeftBehind ==
    \A d \in Dispatcher : pc[d] = "exited" => mQueue[d] = <<>>

\* The comment in handleSyncEvent: the holder is deleted by the caller, when
\* sendEventSync returns, and by nobody else.
HolderDeletedByCaller ==
    \A a \in Actor : call[a].holder # "deleted"

\* The documentation of SyncEventAgent: the code is run to completion on the
\* dispatcher's thread and send returns.
SyncCompletes ==
    \A a \in Actor : pc[a] \in {"check", "sleep"} ~> pc[a] = "run"

\* ~EventThread returns: the thread sees the shutdown event and exits.
JoinCompletes ==
    \A c \in Client : pc[c] = "join" ~> pc[c] = "run"
=============================================================================

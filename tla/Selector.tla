------------------------------ MODULE Selector ------------------------------
(***************************************************************************)
(* Selector (src/src/Selector.cpp): a thread that polls descriptors and    *)
(* calls their listeners.  Other threads change the listener list under    *)
(* mLock, send an update event (a node in mQueue and four bytes in the     *)
(* pipe) and wait once on mCondition, which gives mLock up.  Listeners run *)
(* on the selector's thread with the recursive mLock held and may change   *)
(* the list themselves.  The poll set is a copy that is filled from the    *)
(* list only between two polls.                                            *)
(***************************************************************************)
EXTENDS ListErase, Integers, Sequences, FiniteSets, SequencesExt

CONSTANTS
    Client,         \* threads other than the selector's
    Fd,             \* descriptors
    Reg,            \* what may be registered: [fd, events] records
    Removes,        \* per fd: the fds its listener may remove when called
    kMaxPollFds,    \* length of the array given to poll, the pipe included
    Quiet,          \* shutdown() is called only while no other thread is in a call
    None,           \* "no thread", "no node"
    MaxOps          \* bound: calls that change the list, or send, in a behaviour

ASSUME SelectorAssumption ==
    /\ "selector" \notin Client
    /\ None \notin Client \cup {"selector", "update", "event", "shutdown"}
    /\ Reg \subseteq [fd : Fd, events : SUBSET {"in", "out"}]
    /\ Removes \in [Fd -> SUBSET Fd]
    /\ kMaxPollFds \in Nat \ {0, 1}
    /\ MaxOps \in Nat

VARIABLES
    mList,      \* the ListenerNodes: [id, fd, events]
    mQueue,     \* the dispatcher's queue: "update", "event", "shutdown"
    pipe,       \* wakeThread() calls whose bytes have not been read
    fds,        \* poll's array without the pipe: [fd, events]
    revents,    \* what the last poll reported and is not yet looked at: [fd, events]
    walk,       \* the node callListeners will look at next (its id, or None)
    interface,  \* the node whose listener callListeners called last (its id)
    gotEvent, mUpdateFds, mRunning, mShutdown,
    mLock,      \* the owner of mLock, or None
    pc,         \* what each thread is doing
    ops         \* calls so far; also the source of node ids

vars == <<mList, mQueue, pipe, fds, revents, walk, interface, gotEvent,
          mUpdateFds, mRunning, mShutdown, mLock, pc, ops>>

\* pc: the selector's thread is in threadMain at fillPollFds ("fill"), in poll,
\* in the loop over the array, in callListeners ("walk") or in a listener
\* called from there ("callback"), past the array ("events"), at the
\* "broadcast" or "exited".  A client is "idle", in updateListeners with mLock
\* held ("updating"), asleep on mCondition ("waiting"), "woken" or "joining".
Sel == "selector"

\* The constructor: the thread has been started and is about to fill its set.
Init ==
    /\ mList = <<>> /\ mQueue = <<>> /\ pipe = 0
    /\ fds = <<>> /\ revents = <<>> /\ walk = None /\ interface = None
    /\ gotEvent = FALSE /\ mUpdateFds = FALSE /\ mRunning = TRUE /\ mShutdown = FALSE
    /\ mLock = None
    /\ pc = [t \in Client \cup {Sel} |-> IF t = Sel THEN "fill" ELSE "idle"]
    /\ ops = 0
-----------------------------------------------------------------------------
\* Helpers.

Node(i) == {n \in ToSet(mList) : n.id = i}

\* The node after the one with this id, as the list iterator's ++ finds it.
After(list, i) ==
    LET at == {k \in 1..Len(list) - 1 : list[k].id = i}
    IN  IF at = {} THEN None ELSE list[(CHOOSE k \in at : TRUE) + 1].id

First(list) == IF list = <<>> THEN None ELSE list[1].id

\* The iterator of callListeners is on a node that was deleted.  What the
\* thread reads there is undefined: in the model it takes no further step.
Dangling == pc[Sel] \in {"walk", "callback"} /\ walk # None /\ Node(walk) = {}

\* sendEvent: SendEvent on the queue (a shutdown has high priority), then
\* wakeThread() writes to the pipe.
Send(ev) ==
    /\ mQueue' = IF ev = "shutdown" THEN <<ev>> \o mQueue ELSE Append(mQueue, ev)
    /\ pipe' = pipe + 1

\* Mutant of AddPollFd: the array is taken to be full one entry early.
AddPollFdTooFew(acc, n) ==
    IF Len(acc) + 2 = kMaxPollFds THEN acc
    ELSE IF \E k \in 1..Len(acc) : acc[k].fd = n.fd
    THEN [k \in 1..Len(acc) |->
            IF acc[k].fd = n.fd THEN [acc[k] EXCEPT !.events = @ \cap n.events] ELSE acc[k]]
    ELSE Append(acc, [fd |-> n.fd, events |-> n.events])

\* One listener in fillPollFds: an entry of its own, or its events ANDed to
\* those of its descriptor's entry, and nothing more once the array is full.
AddPollFd(acc, n) ==
    IF Len(acc) + 1 = kMaxPollFds THEN acc
    ELSE IF \E k \in 1..Len(acc) : acc[k].fd = n.fd
    THEN [k \in 1..Len(acc) |->
            IF acc[k].fd = n.fd THEN [acc[k] EXCEPT !.events = @ \cap n.events] ELSE acc[k]]
    ELSE Append(acc, [fd |-> n.fd, events |-> n.events])

\* fillPollFds: the array after the first i listeners, for all of them.
FillPollFds(list) ==
    LET filled[i \in 0..Len(list)] ==
          IF i = 0 THEN <<>> ELSE AddPollFd(filled[i - 1], list[i])
    IN  filled[Len(list)]
-----------------------------------------------------------------------------
\* Calls by other threads.

\* updateListeners() on another thread, mLock held: an update event, unless
\* threadMain has left its loop.
UpdateListeners(c) ==
    IF mRunning
    THEN /\ Send("update")
         /\ mLock' = c
         /\ pc' = [pc EXCEPT ![c] = "updating"]
    ELSE UNCHANGED <<mQueue, pipe, mLock, pc>>

MayCall(c) == pc[c] = "idle" /\ ops < MaxOps /\ (Quiet => ~ mShutdown)

AddListener(c, r) ==
    /\ MayCall(c)
    /\ mLock = None
    /\ mList' = Append(mList, [id |-> ops + 1, fd |-> r.fd, events |-> r.events])
    /\ UpdateListeners(c)
    /\ ops' = ops + 1
    /\ UNCHANGED <<fds, revents, walk, interface, gotEvent, mUpdateFds, mRunning, mShutdown>>

\* removeListener( fd, listener ) deletes the nodes of fd, whatever their
\* listener is: it compares with a node whose listener is NULL, which equals
\* every node of the descriptor.
Without(list, fd) == Erase(list, {n \in ToSet(list) : n.fd = fd})

RemoveListener(c, fd) ==
    /\ MayCall(c)
    /\ mLock = None
    /\ mList' = Without(mList, fd)
    /\ IF mList' # mList THEN UpdateListeners(c) ELSE UNCHANGED <<mQueue, pipe, mLock, pc>>
    /\ ops' = ops + 1
    /\ UNCHANGED <<fds, revents, walk, interface, gotEvent, mUpdateFds, mRunning, mShutdown>>

\* mCondition.Wait( mLock ): asleep, the lock given up.
Wait(c) ==
    /\ pc[c] = "updating"
    /\ mLock' = None
    /\ pc' = [pc EXCEPT ![c] = "waiting"]
    /\ UNCHANGED <<mList, mQueue, pipe, fds, revents, walk, interface, gotEvent, mUpdateFds, mRunning, mShutdown, ops>>

\* Wait has the lock again and the call returns; the condition is not tested.
Return(c) ==
    /\ pc[c] = "woken"
    /\ mLock = None
    /\ pc' = [pc EXCEPT ![c] = "idle"]
    /\ UNCHANGED <<mList, mQueue, pipe, fds, revents, walk, interface, gotEvent, mUpdateFds, mRunning, mShutdown, mLock, ops>>

\* EventDispatcher::sendEvent of an ordinary event.
SendEvent(c) ==
    /\ MayCall(c)
    /\ Send("event")
    /\ ops' = ops + 1
    /\ UNCHANGED <<mList, fds, revents, walk, interface, gotEvent, mUpdateFds, mRunning, mShutdown, mLock, pc>>

\* shutdown() by another thread up to Join; a second call does nothing.
Shutdown(c) ==
    /\ pc[c] = "idle"
    /\ ~ mShutdown
    /\ Quiet => \A o \in Client : pc[o] = "idle"
    /\ mShutdown' = TRUE
    /\ Send("shutdown")
    /\ pc' = [pc EXCEPT ![c] = "joining"]
    /\ UNCHANGED <<mList, fds, revents, walk, interface, gotEvent, mUpdateFds, mRunning, mLock, ops>>

Join(c) ==
    /\ pc[c] = "joining"
    /\ pc[Sel] = "exited"
    /\ pc' = [pc EXCEPT ![c] = "idle"]
    /\ UNCHANGED <<mList, mQueue, pipe, fds, revents, walk, interface, gotEvent, mUpdateFds, mRunning, mShutdown, mLock, ops>>
-----------------------------------------------------------------------------
\* threadMain.

Goto(p) == pc' = [pc EXCEPT ![Sel] = p]

\* fillPollFds with mLock: before the loop, and in it when mUpdateFds is set.
Fill ==
    /\ pc[Sel] = "fill"
    /\ mLock = None
    /\ fds' = FillPollFds(mList)
    /\ mUpdateFds' = FALSE
    /\ Goto(IF mUpdateFds THEN "broadcast" ELSE "poll")
    /\ UNCHANGED <<mList, mQueue, pipe, revents, walk, interface, gotEvent, mRunning, mShutdown, mLock, ops>>

\* poll() returns: the pipe has bytes, or descriptors of the array are ready
\* for what was asked or have hung up.
Poll ==
    /\ pc[Sel] = "poll"
    /\ \E got \in [1..Len(fds) -> {{}, {"in"}, {"hup"}}] :
          /\ \A i \in 1..Len(fds) : got[i] \subseteq fds[i].events \cup {"hup"}
          /\ pipe > 0 \/ \E i \in 1..Len(fds) : got[i] # {}
          /\ revents' = SelectSeq([i \in 1..Len(fds) |-> [fd |-> fds[i].fd, events |-> got[i]]],
                                  LAMBDA e : e.events # {})
    /\ gotEvent' = (pipe > 0)
    /\ pipe' = IF pipe > 0 THEN pipe - 1 ELSE 0
    /\ Goto("array")
    /\ UNCHANGED <<mList, mQueue, fds, walk, interface, mUpdateFds, mRunning, mShutdown, mLock, ops>>

\* poll() fails (EINTR): the turn goes on with nothing reported.
PollFails ==
    /\ pc[Sel] = "poll"
    /\ revents' = <<>>
    /\ Goto("array")
    /\ UNCHANGED <<mList, mQueue, pipe, fds, walk, interface, gotEvent, mUpdateFds, mRunning, mShutdown, mLock, ops>>

\* The loop over the array: callListeners takes mLock for the next ready entry.
EnterCallListeners ==
    /\ pc[Sel] = "array"
    /\ revents # <<>>
    /\ mLock = None
    /\ mLock' = Sel
    /\ walk' = First(mList)
    /\ Goto("walk")
    /\ UNCHANGED <<mList, mQueue, pipe, fds, revents, interface, gotEvent, mUpdateFds, mRunning, mShutdown, ops>>

EndArray ==
    /\ pc[Sel] = "array"
    /\ revents = <<>>
    /\ Goto("events")
    /\ UNCHANGED <<mList, mQueue, pipe, fds, revents, walk, interface, gotEvent, mUpdateFds, mRunning, mShutdown, mLock, ops>>

\* Mutant of CallListener: the iterator stays on the node during the call.
CallAdvancesLater(n) ==
    /\ pc[Sel] = "walk"
    /\ n.fd = Head(revents).fd
    /\ IF "hup" \in Head(revents).events
       THEN mList' = Erase(mList, {n}) /\ mUpdateFds' = TRUE
       ELSE UNCHANGED <<mList, mUpdateFds>>
    /\ Goto("callback")
    /\ interface' = n.id
    /\ UNCHANGED <<walk, mQueue, pipe, fds, revents, gotEvent, mRunning, mShutdown, mLock, ops>>

\* callListeners at a node of the descriptor: a node that has hung up is
\* deleted, else the iterator moves on; then the listener is called.
CallListener(n) ==
    /\ pc[Sel] = "walk"
    /\ n.fd = Head(revents).fd
    /\ walk' = After(mList, n.id)
    /\ IF "hup" \in Head(revents).events
       THEN mList' = Erase(mList, {n}) /\ mUpdateFds' = TRUE
       ELSE UNCHANGED <<mList, mUpdateFds>>
    /\ Goto("callback")
    /\ interface' = n.id
    /\ UNCHANGED <<mQueue, pipe, fds, revents, gotEvent, mRunning, mShutdown, mLock, ops>>

SkipNode(n) ==
    /\ pc[Sel] = "walk"
    /\ n.fd # Head(revents).fd
    /\ walk' = After(mList, n.id)
    /\ UNCHANGED <<mList, mQueue, pipe, fds, revents, interface, gotEvent, mUpdateFds, mRunning, mShutdown, mLock, pc, ops>>

LeaveCallListeners ==
    /\ pc[Sel] = "walk"
    /\ walk = None
    /\ mLock' = None
    /\ revents' = Tail(revents)
    /\ interface' = None
    /\ Goto("array")
    /\ UNCHANGED <<mList, mQueue, pipe, fds, walk, gotEvent, mUpdateFds, mRunning, mShutdown, ops>>

\* A listener changes the list: updateListeners only sets mUpdateFds here.
CallbackAdds(r) ==
    /\ pc[Sel] = "callback"
    /\ ops < MaxOps
    /\ mList' = Append(mList, [id |-> ops + 1, fd |-> r.fd, events |-> r.events])
    /\ mUpdateFds' = TRUE
    /\ ops' = ops + 1
    /\ UNCHANGED <<mQueue, pipe, fds, revents, walk, interface, gotEvent, mRunning, mShutdown, mLock, pc>>

CallbackRemoves(fd) ==
    /\ pc[Sel] = "callback"
    /\ fd \in Removes[Head(revents).fd]
    /\ ops < MaxOps
    /\ mList' = Without(mList, fd)
    /\ mUpdateFds' = (mUpdateFds \/ mList' # mList)
    /\ ops' = ops + 1
    /\ UNCHANGED <<mQueue, pipe, fds, revents, walk, interface, gotEvent, mRunning, mShutdown, mLock, pc>>

CallbackReturns ==
    /\ pc[Sel] = "callback"
    /\ Goto("walk")
    /\ UNCHANGED <<mList, mQueue, pipe, fds, revents, walk, interface, gotEvent, mUpdateFds, mRunning, mShutdown, mLock, ops>>

\* Mutant of HandleEvent: the result of handleEvent is ignored.
HandleIgnoresDone ==
    /\ pc[Sel] = "events"
    /\ gotEvent' = FALSE
    /\ mQueue' = IF gotEvent /\ mQueue # <<>> THEN Tail(mQueue) ELSE mQueue
    /\ mUpdateFds' = (mUpdateFds \/ (gotEvent /\ mQueue # <<>> /\ Head(mQueue) = "update"))
    /\ Goto(IF mUpdateFds' THEN "fill" ELSE "broadcast")
    /\ UNCHANGED <<mList, pipe, fds, revents, walk, interface, mRunning, mShutdown, mLock, ops>>

\* After the array: at most one event per turn.  A shutdown empties the queue.
HandleEvent ==
    /\ pc[Sel] = "events"
    /\ gotEvent' = FALSE
    /\ LET ev == IF gotEvent /\ mQueue # <<>> THEN Head(mQueue) ELSE None
       IN  /\ mQueue' = IF ev = None THEN mQueue
                        ELSE IF ev = "shutdown" THEN <<>> ELSE Tail(mQueue)
           /\ mUpdateFds' = (mUpdateFds \/ ev = "update")
           /\ mRunning' = (mRunning /\ ev # "shutdown")
    /\ Goto(IF mUpdateFds' THEN "fill" ELSE "broadcast")
    /\ UNCHANGED <<mList, pipe, fds, revents, walk, interface, mShutdown, mLock, ops>>

\* mCondition.Broadcast(), without mLock, at the end of every turn.
Broadcast ==
    /\ pc[Sel] = "broadcast"
    /\ pc' = [t \in DOMAIN pc |-> IF t = Sel THEN (IF mRunning THEN "poll" ELSE "exited")
                                  ELSE IF pc[t] = "waiting" THEN "woken" ELSE pc[t]]
    /\ UNCHANGED <<mList, mQueue, pipe, fds, revents, walk, interface, gotEvent, mUpdateFds, mRunning, mShutdown, mLock, ops>>

SelectorStep ==
    \/ Fill \/ Poll \/ EnterCallListeners \/ EndArray
    \/ \E n \in Node(walk) : CallListener(n) \/ SkipNode(n)
    \/ LeaveCallListeners \/ CallbackReturns \/ HandleEvent \/ Broadcast

ClientStep(c) == Wait(c) \/ Return(c) \/ Join(c)

Next ==
    \/ SelectorStep \/ PollFails
    \/ \E r \in Reg : CallbackAdds(r)
    \/ \E fd \in Fd : CallbackRemoves(fd)
    \/ \E c \in Client :
          \/ ClientStep(c) \/ SendEvent(c) \/ Shutdown(c)
          \/ \E r \in Reg : AddListener(c, r)
          \/ \E fd \in Fd : RemoveListener(c, fd)

Spec == Init /\ [][Next]_vars

\* The selector's thread and threads inside a call go on, and listeners
\* return; not every poll is interrupted, and a thread that waits for mLock
\* gets it.  Nothing makes a descriptor ready or the program call.
Fairness ==
    /\ WF_vars(SelectorStep) /\ SF_vars(Poll) /\ SF_vars(Fill \/ EnterCallListeners)
    /\ \A c \in Client : SF_vars(ClientStep(c))

FairSpec == Spec /\ Fairness
-----------------------------------------------------------------------------
\* Properties.

\* When the selector's thread is about to block in poll with an empty pipe,
\* every registered descriptor is in its array, and no other: no interleaving
\* of updates, listeners' changes and hangups leaves a listener unheard or a
\* dead descriptor polled.  (A client that holds mLock has sent its update.)
IdleIsCurrent ==
    pc[Sel] = "poll" /\ pipe = 0 =>
        {fds[i].fd : i \in 1..Len(fds)} = {n.fd : n \in ToSet(mList)}

\* The iterator of callListeners comes to dangle in one way only: the listener
\* that is called removes the node behind its own, be it the node of another
\* descriptor or a second one of the same, which removeListener( fd, listener )
\* deletes with it.  Neither the deletion of hung-up nodes, nor a listener that
\* removes its own node or registers others, nor a call by another thread does.
WalkIsSafe ==
    [][ Dangling' /\ ~ Dangling =>
          \E fd \in Fd : /\ CallbackRemoves(fd)
                         /\ \E n \in Node(walk) : n.fd = fd /\ n.id # interface ]_vars

\* "A good listener could take care of this by removing himself from the
\* selector ... We need to deal with both cases" (Selector.cpp:366-378):
\* whatever listeners remove, the iterator never dangles.
WalkNeverDangles == ~ Dangling

\* addListener, removeListener and shutdown return: the update that a caller
\* waits for is always followed by a Broadcast it hears, unless the thread
\* went to a deleted node.
CallsReturn ==
    \A c \in Client : pc[c] # "idle" ~> pc[c] = "idle" \/ Dangling
=============================================================================
